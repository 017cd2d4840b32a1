------------------------ MODULE Connections_proofs ------------------------
(***************************************************************************)
(* Proofs about Connections, for any number of connections and agents: no   *)
(* pointer leaves the nodes there are, whatever the threads do; and until   *)
(* the first thread is late to take its argument (run SharedArgument shows  *)
(* what happens then) the chain, its links and its counted size stay        *)
(* consistent, no agent_t is lost or freed twice, and the query that walks  *)
(* the chain without its lock reports no agent on that was not.             *)
(*                                                                          *)
(* The chain is a function defined by recursion, so it is first shown to     *)
(* exist and to be the only one that follows the links; each action is then  *)
(* proved by giving the chain it leads to.                                   *)
(***************************************************************************)
EXTENDS Connections, FiniteSetTheorems, DataInduction, TLAPS

N == Cardinality(Conn)

LEMMA Sizes == N \in Nat /\ Address = 1..N /\ Cardinality(Address) = N /\ IsFiniteSet(Address)
<1>1. N \in Nat
  BY ConnectionAssumption, FS_CardinalityType DEF N
<1>2. IsFiniteSet(1..N) /\ Cardinality(1..N) = N
  BY <1>1, FS_Interval
<1> QED
  BY <1>1, <1>2 DEF Address, N

-----------------------------------------------------------------------------
(* Chains *)

\* The steps of w follow the links of heap from the first node on.
FollowsLinks(w, first, heap) ==
  /\ w[0] = first
  /\ \A n \in 1..N : w[n] = IF w[n - 1] = Null THEN Null ELSE heap[w[n - 1]].next

\* All links stay inside the first size nodes.
Linked(first, heap, length) ==
  /\ first \in 0..length
  /\ \A p \in 1..length : heap[p].next \in 0..length

\* place, for any head and any heap.
Walk(first, heap) ==
  LET at[n \in 0..Cardinality(Address)] ==
        IF n = 0 THEN first
        ELSE IF at[n - 1] = Null THEN Null
        ELSE heap[at[n - 1]].next
  IN  at

LEMMA PlaceIsWalk == place = Walk(head, node)
BY DEF place, Walk

LEMMA WalkExists ==
  ASSUME NEW first, NEW heap, NEW length \in Nat, Linked(first, heap, length)
  PROVE  /\ Walk(first, heap) \in [0..N -> 0..length]
         /\ FollowsLinks(Walk(first, heap), first, heap)
<1> DEFINE S == 0..length
           Turn(p) == IF p = Null THEN Null ELSE heap[p].next
           Goal(g) == g = [n \in 0..N |-> IF n = 0 THEN first ELSE Turn(g[n - 1])]
           step == [n \in Nat |-> [p \in S |-> Turn(p)]]
<1>1. \A p \in S : Turn(p) \in S
  BY DEF Linked, Null
<1>2. first \in S /\ step \in [Nat -> [S -> S]]
  <2> HIDE DEF Turn, S
  <2>1. step \in [Nat -> [S -> S]]
    BY <1>1
  <2> QED
    BY <2>1 DEF Linked, S
<1>3. PICK g : Unrolls(g, 0, N, S, first, step)
  <2> HIDE DEF step, S
  <2>1. 0 \in Nat /\ N \in Nat /\ 0 <= N
    BY Sizes
  <2> QED
    BY <1>2, <2>1, RecursionExists
<1>4. Goal(g)
  <2> HIDE DEF Turn
  <2>1. ASSUME NEW n \in 0..N, n # 0 PROVE g[n] = Turn(g[n - 1])
    <3>1. n \in (0 + 1)..N /\ n \in Nat /\ n - 1 \in 0..N
      BY <2>1, Sizes
    <3>2. g[n - 1] \in S /\ g[n] = step[n][g[n - 1]]
      BY <3>1, <1>3 DEF Unrolls
    <3> QED
      BY <3>1, <3>2
  <2> QED
    BY <2>1, <1>3 DEF Unrolls
<1>5. Goal(Walk(first, heap))
  BY <1>4, Sizes, ZenonT(30) DEF Walk
<1>6. ASSUME NEW n \in 1..N
      PROVE  Walk(first, heap)[n] = Turn(Walk(first, heap)[n - 1])
  <2> HIDE DEF Turn
  <2>1. n \in 0..N /\ n # 0
    BY Sizes
  <2> QED
    BY <1>5, <2>1
<1>7. Walk(first, heap)[0] = first
  BY <1>5, Sizes
<1>8. FollowsLinks(Walk(first, heap), first, heap)
  BY <1>6, <1>7 DEF FollowsLinks
<1>9. Walk(first, heap) \in [0..N -> S]
  <2> DEFINE T == {n \in 0..N : Walk(first, heap)[n] \in S}
  <2>1. 0 \in T
    BY <1>2, <1>7, Sizes
  <2>2. ASSUME NEW n \in 0..(N - 1), n \in T PROVE n + 1 \in T
    <3> HIDE DEF Turn, S
    <3>1. n + 1 \in 1..N /\ n + 1 \in 0..N /\ (n + 1) - 1 = n
      BY Sizes
    <3>2. Walk(first, heap)[n + 1] = Turn(Walk(first, heap)[n])
      BY <1>6, <3>1
    <3> QED
      BY <1>1, <2>2, <3>1, <3>2
  <2>3. 0..N \subseteq T
    <3> HIDE DEF T
    <3>1. 0 \in Nat /\ N \in Nat
      BY Sizes
    <3> QED
      BY <2>1, <2>2, <3>1, IntervalIsInductive
  <2> HIDE DEF Turn, S
  <2> QED
    BY <1>5, <2>3
<1> QED
  BY <1>8, <1>9

\* Only one function follows the links.
LEMMA WalkIsUnique ==
  ASSUME NEW first, NEW heap, NEW w, NEW v, w = [n \in 0..N |-> w[n]], v = [n \in 0..N |-> v[n]],
         FollowsLinks(w, first, heap), FollowsLinks(v, first, heap)
  PROVE  w = v
<1> DEFINE T == {n \in 0..N : w[n] = v[n]}
<1>1. 0 \in T
  BY Sizes DEF FollowsLinks
<1>2. ASSUME NEW n \in 0..(N - 1), n \in T PROVE n + 1 \in T
  <2>1. n + 1 \in 1..N /\ n + 1 \in 0..N /\ (n + 1) - 1 = n
    BY Sizes
  <2>2. w[n + 1] = (IF w[n] = Null THEN Null ELSE heap[w[n]].next)
    BY <2>1 DEF FollowsLinks
  <2>3. v[n + 1] = (IF v[n] = Null THEN Null ELSE heap[v[n]].next)
    BY <2>1 DEF FollowsLinks
  <2>4. w[n] = v[n]
    BY <1>2
  <2> QED
    BY <2>1, <2>2, <2>3, <2>4
<1>3. 0..N \subseteq T
  <2> HIDE DEF T
  <2>1. 0 \in Nat /\ N \in Nat
    BY Sizes
  <2> QED
    BY <1>1, <1>2, <2>1, IntervalIsInductive
<1> QED
  BY <1>3

-----------------------------------------------------------------------------
(* The inductive invariant *)

Started == {c \in Conn : pc[c] # "none"}

Cell(fds) ==
  [used : BOOLEAN, next : Nat, mac : Mac \cup {NoMac}, con_fd : fds \cup {NoConn}]

\* There are no more nodes than connections were accepted, links stay inside
\* the nodes there are, and a descriptor is that of an accepted connection.
Nodes ==
  /\ node \in Seq(Cell(Started))
  /\ Len(node) <= Cardinality(Started)
  /\ Linked(head, node, Len(node))
  /\ tail \in 0..Len(node) /\ size \in Int

Threads ==
  /\ init \in Conn \cup {NoConn} /\ argument \in 0..Len(node)
  /\ pc \in [Conn -> {"none", "start", "add", "serve", "remove", "done", "broken"}]
  /\ agent \in [Conn -> 0..Len(node)]
  /\ reading \in [Conn -> Started \cup {NoConn}]
  /\ closed \subseteq Conn
  /\ \A c \in Conn : pc[c] = "start" => argument # Null
  /\ \A c \in Conn : pc[c] \in {"add", "serve", "remove"} => agent[c] # Null

Asking == asked \in Mac \cup {NoMac} /\ curr \in 0..Len(node) /\ seen \in BOOLEAN

\* What holds however late the threads are.
Typed == Nodes /\ Threads /\ Asking /\ late \in BOOLEAN

Sound == size \in 0..N /\ Consistent

\* What a thread that has yet to enter the list holds: nobody else's.
Fresh(p) == p \in DOMAIN node /\ node[p].used /\ p \notin Listed

Ownership ==
  /\ \A c \in Conn : pc[c] = "start" => c = init /\ Fresh(argument)
  /\ \A c \in Conn : pc[c] = "add" => Fresh(agent[c])
  /\ \A c, d \in Conn : pc[c] = "add" /\ pc[d] = "start" => agent[c] # argument
  /\ \A c, d \in Conn : pc[c] = "add" /\ pc[d] = "add" /\ agent[c] = agent[d] => c = d

\* The nodes of a set lead only to each other, and what bears the mac asked
\* about among them was on while the query ran.
Explains(W) ==
  /\ \A q \in W : node[q].next \in W \cup {Null}
  /\ \A q \in W : node[q].mac = asked => seen

Query ==
  /\ Asking
  /\ asked # NoMac => \E W \in SUBSET (DOMAIN node) : Explains(W) /\ curr \in W \cup {Null}

OnTime == Nodes /\ Threads /\ Sound /\ Ownership /\ AllHeld /\ Query

ConnectionsInv == Typed /\ (~ late => OnTime)

-----------------------------------------------------------------------------
(* The chain of a state and of the next one *)

LEMMA ChainFollows ==
  ASSUME Nodes
  PROVE  /\ place \in [0..N -> 0..Len(node)]
         /\ FollowsLinks(place, head, node)
<1>1. Len(node) \in Nat /\ Linked(head, node, Len(node))
  BY DEF Nodes
<1> QED
  BY <1>1, PlaceIsWalk, WalkExists

LEMMA NextChain ==
  ASSUME Nodes', NEW w, w = [n \in 0..N |-> w[n]], FollowsLinks(w, head', node')
  PROVE  place' = w
<1>1. Len(node') \in Nat /\ Linked(head', node', Len(node'))
  BY DEF Nodes
<1>2. Walk(head', node') = place'
  BY DEF place, Walk
<1>3. /\ Walk(head', node') = [n \in 0..N |-> Walk(head', node')[n]]
      /\ FollowsLinks(Walk(head', node'), head', node')
  <2>1. Walk(head', node') \in [0..N -> 0..Len(node')]
    BY <1>1, WalkExists
  <2> QED
    BY <1>1, <2>1, WalkExists
<1> QED
  BY <1>2, <1>3, WalkIsUnique

LEMMA PlaceDomain == Nodes => DOMAIN place = 0..N
BY ChainFollows

LEMMA PlaceDomainNext == Nodes' => DOMAIN place' = 0..N
<1>1. (Nodes => DOMAIN place = 0..N)'
  BY PlaceDomain, PTL
<1> QED
  BY <1>1

LEMMA ListedNodes ==
  ASSUME Nodes
  PROVE  /\ Listed = {place[n] : n \in 0..N} \ {Null}
         /\ Listed \subseteq DOMAIN node
         /\ DOMAIN node = 1..Len(node)
<1>1. place \in [0..N -> 0..Len(node)]
  BY ChainFollows
<1>2. DOMAIN node = 1..Len(node) /\ Len(node) \in Nat
  BY DEF Nodes
<1> QED
  BY <1>1, <1>2 DEF Listed, Null

\* As long as the links of what is listed stay, so does the chain.
LEMMA ChainKept ==
  ASSUME Nodes, Nodes', UNCHANGED head, \A q \in Listed : node'[q].next = node[q].next
  PROVE  place' = place /\ Listed' = Listed
<1>1. place = [n \in 0..N |-> place[n]] /\ FollowsLinks(place, head, node)
  BY ChainFollows
<1>2. FollowsLinks(place, head', node')
  <2>1. place[0] = head'
    BY <1>1 DEF FollowsLinks
  <2>2. ASSUME NEW n \in 1..N
        PROVE  place[n] = IF place[n - 1] = Null THEN Null ELSE node'[place[n - 1]].next
    <3>1. place[n] = IF place[n - 1] = Null THEN Null ELSE node[place[n - 1]].next
      BY <1>1 DEF FollowsLinks
    <3>2. n - 1 \in 0..N
      BY Sizes
    <3>3. place[n - 1] # Null => place[n - 1] \in Listed
      BY <3>2, ListedNodes
    <3> QED
      BY <3>1, <3>3
  <2> QED
    BY <2>1, <2>2 DEF FollowsLinks
<1>3. place' = place
  BY <1>1, <1>2, NextChain
<1> QED
  BY <1>3 DEF Listed

\* What Sound says, over the steps of the chain.
LEMMA SoundChain ==
  ASSUME Nodes, Sound
  PROVE  /\ \A n \in 0..N : place[n] = Null <=> n >= size
         /\ \A n \in 0..(size - 1) : place[n] \in Listed /\ node[place[n]].used
         /\ \A n, m \in 0..(size - 1) : place[n] = place[m] => n = m
         /\ size > 0 => tail = place[size - 1]
         /\ \A q \in Listed : \E n \in 0..(size - 1) : q = place[n]
         /\ head = Null <=> size = 0
         /\ size > 0 => head = place[0]
         /\ \A n \in 0..(size - 1) : n + 1 \in 0..N /\ node[place[n]].next = place[n + 1]
<1>1. DOMAIN place = 0..N /\ N \in Nat /\ size \in 0..N /\ 0..(size - 1) \subseteq 0..N
  BY ChainFollows, Sizes DEF Sound
<1>2. \A n \in 0..N : place[n] = Null <=> n >= size
  BY <1>1 DEF Sound, Consistent
<1>3. \A n \in 0..(size - 1) : place[n] # Null
  BY <1>1, <1>2
<1>4. \A n \in 0..(size - 1) : place[n] \in Listed /\ node[place[n]].used
  BY <1>1, <1>3, ListedNodes DEF Sound, Consistent
<1>5. \A n, m \in 0..(size - 1) : place[n] = place[m] => n = m
  BY <1>1, <1>3 DEF Sound, Consistent
<1>6. size > 0 => tail = place[size - 1]
  <2>1. size > 0 => size - 1 \in 0..(size - 1)
    BY <1>1
  <2> QED
    BY <1>1, <1>3, <2>1 DEF Sound, Consistent
<1>7. \A q \in Listed : \E n \in 0..(size - 1) : q = place[n]
  <2> SUFFICES ASSUME NEW q \in Listed PROVE \E n \in 0..(size - 1) : q = place[n]
    OBVIOUS
  <2>1. PICK n \in 0..N : q = place[n] /\ q # Null
    BY ListedNodes
  <2>2. n \in 0..(size - 1)
    BY <1>1, <1>2, <2>1
  <2> QED
    BY <2>1, <2>2
<1>8. head = place[0]
  BY ChainFollows DEF FollowsLinks
<1>9. \A n \in 0..(size - 1) : n + 1 \in 0..N /\ node[place[n]].next = place[n + 1]
  <2> SUFFICES ASSUME NEW n \in 0..(size - 1)
               PROVE  n + 1 \in 0..N /\ node[place[n]].next = place[n + 1]
    OBVIOUS
  <2>1. n + 1 \in 1..N /\ (n + 1) - 1 = n
    BY <1>1
  <2> QED
    BY <1>3, <2>1, ChainFollows DEF FollowsLinks
<1> QED
  BY <1>1, <1>2, <1>4, <1>5, <1>6, <1>7, <1>8, <1>9

\* The parts a step is shown to keep.
SoundParts ==
  /\ DOMAIN place = 0..N /\ size \in 0..N
  /\ \A n \in 0..N : place[n] = Null <=> n >= size
  /\ \A n \in 0..N : n < size => node[place[n]].used
  /\ \A n, m \in 0..N : n < size /\ m < size /\ place[n] = place[m] => n = m
  /\ size > 0 => tail = place[size - 1]

LEMMA ChainIsSound == SoundParts => Sound
<1> SUFFICES ASSUME SoundParts PROVE Sound
  OBVIOUS
<1> USE DEF SoundParts
<1>1. ASSUME NEW n \in 0..N, place[n] # Null
      PROVE  /\ node[place[n]].used
             /\ \A m \in 0..N : place[m] = place[n] => m = n
             /\ n = size - 1 => tail = place[n]
  <2>1. n < size /\ n \in Nat
    BY <1>1, Sizes
  <2>2. \A m \in 0..N : place[m] # Null => m < size
    BY Sizes
  <2> QED
    BY <1>1, <2>1, <2>2
<1> QED
  BY <1>1 DEF Sound, Consistent

LEMMA NextSound == SoundParts' => Sound'
BY ChainIsSound, PTL

-----------------------------------------------------------------------------
(* Nodes *)

LEMMA StartedNodes ==
  ASSUME Nodes, NEW p \in DOMAIN node
  PROVE  /\ p \in 1..Len(node) /\ node[p] \in Cell(Started)
         /\ node[p].next \in 0..Len(node)
<1>1. p \in 1..Len(node) /\ node[p] \in Cell(Started)
  BY DEF Nodes
<1> QED
  BY <1>1 DEF Nodes, Linked

LEMMA StartedBounds ==
  /\ IsFiniteSet(Started) /\ Cardinality(Started) \in Nat /\ Cardinality(Started) <= N
<1>1. Started \subseteq Conn
  BY DEF Started
<1>2. IsFiniteSet(Started) /\ Cardinality(Started) <= Cardinality(Conn)
  BY <1>1, FS_Subset, ConnectionAssumption
<1> QED
  BY <1>2, FS_CardinalityType DEF N

LEMMA Intervals ==
  ASSUME NEW n \in Nat
  PROVE  /\ IsFiniteSet(0..n) /\ Cardinality(0..n) = n + 1
         /\ IsFiniteSet(1..n) /\ Cardinality(1..n) = n
<1>1. IsFiniteSet(0..n) /\ Cardinality(0..n) = n + 1
  BY FS_Interval
<1>2. IsFiniteSet(1..n) /\ Cardinality(1..n) = n
  BY FS_Interval
<1> QED
  BY <1>1, <1>2

\* A node that is not listed leaves room in the chain for it.
LEMMA RoomForOne ==
  ASSUME Nodes, Sound, NEW p \in DOMAIN node, p \notin Listed
  PROVE  size + 1 \in 0..N
<1>1. Len(node) \in Nat /\ Len(node) <= N /\ size \in 0..N /\ N \in Nat
  BY StartedBounds, Sizes DEF Nodes, Sound
<1> SUFFICES ASSUME Len(node) < size + 1 PROVE FALSE
  BY <1>1
<1> DEFINE S == 0..size
           T == 1..Len(node)
           f == [n \in S |-> IF n = size THEN p ELSE place[n]]
<1>2. f \in [S -> T]
  <2>1. ASSUME NEW n \in S PROVE (IF n = size THEN p ELSE place[n]) \in T
    <3>1. CASE n = size
      BY <3>1, StartedNodes
    <3>2. CASE n # size
      <4>1. n \in 0..(size - 1)
        BY <1>1, <3>2
      <4> QED
        BY <3>2, <4>1, SoundChain, ListedNodes
    <3> QED
      BY <3>1, <3>2
  <2> QED
    BY <2>1
<1>3. /\ IsFiniteSet(S) /\ Cardinality(S) = size + 1
      /\ IsFiniteSet(T) /\ Cardinality(T) = Len(node)
  <2>1. size \in Nat /\ Len(node) \in Nat
    BY <1>1
  <2> QED
    BY ONLY <2>1, Intervals
<1>4. PICK x, y \in S : x # y /\ f[x] = f[y]
  <2> HIDE DEF S, T, f
  <2>1. Cardinality(T) < Cardinality(S)
    BY <1>1, <1>3
  <2> QED
    BY <1>2, <1>3, <2>1, FS_PigeonHole
<1>5. ASSUME NEW n \in S, n # size PROVE n \in 0..(size - 1) /\ f[n] = place[n] /\ place[n] # p
  <2>1. n \in 0..(size - 1)
    BY <1>1, <1>5
  <2> QED
    BY <1>5, <2>1, SoundChain
<1>6. f[size] = p
  BY <1>1
<1> QED
  <2> HIDE DEF f
  <2>1. CASE x = size
    BY <1>4, <1>5, <1>6, <2>1
  <2>2. CASE y = size
    BY <1>4, <1>5, <1>6, <2>2
  <2>3. CASE x # size /\ y # size
    BY <1>4, <1>5, <2>3, SoundChain
  <2> QED
    BY <2>1, <2>2, <2>3

LEMMA SequenceUpdated ==
  ASSUME NEW S, NEW s \in Seq(S), NEW R, NEW t,
         t = [p \in DOMAIN s |-> t[p]], \A p \in DOMAIN s : t[p] \in R
  PROVE  t \in Seq(R) /\ Len(t) = Len(s) /\ DOMAIN t = DOMAIN s
<1>1. DOMAIN s = 1..Len(s) /\ Len(s) \in Nat
  OBVIOUS
<1>2. t \in [1..Len(s) -> R]
  BY <1>1
<1> QED
  BY <1>1, <1>2

\* What a step may write into the nodes there are.
LEMMA NodesKept ==
  ASSUME Nodes, Started \subseteq Started',
         node' = [p \in DOMAIN node |-> node'[p]],
         \A p \in DOMAIN node : node'[p] \in Cell(Started') /\ node'[p].next \in 0..Len(node),
         head' \in 0..Len(node), tail' \in 0..Len(node), size' \in Int
  PROVE  Nodes'
<1>1. DOMAIN node = 1..Len(node) /\ Len(node) \in Nat
  BY DEF Nodes
<1>2. node' \in Seq(Cell(Started')) /\ Len(node') = Len(node)
  <2>1. node \in Seq(Cell(Started))
    BY DEF Nodes
  <2>2. \A p \in DOMAIN node : node'[p] \in Cell(Started')
    OBVIOUS
  <2> QED
    BY <2>1, <2>2, SequenceUpdated
<1>3. Len(node') <= Cardinality(Started')
  <2>1. Cardinality(Started) <= Cardinality(Started')
    <3>1. IsFiniteSet(Started')
      <4>1. Started' \subseteq Conn
        BY DEF Started
      <4> QED
        BY <4>1, FS_Subset, ConnectionAssumption
    <3> QED
      BY <3>1, FS_Subset
  <2>2. Cardinality(Started) \in Nat /\ Cardinality(Started') \in Nat
    <3>1. Started' \subseteq Conn
      BY DEF Started
    <3> QED
      BY <3>1, StartedBounds, FS_Subset, FS_CardinalityType, ConnectionAssumption
  <2> QED
    BY <1>1, <1>2, <2>1, <2>2 DEF Nodes
<1>4. Linked(head', node', Len(node'))
  BY <1>1, <1>2 DEF Linked
<1> QED
  BY <1>1, <1>2, <1>3, <1>4 DEF Nodes

LEMMA InitInv == Init => ConnectionsInv
<1> SUFFICES ASSUME Init PROVE ConnectionsInv
  OBVIOUS
<1> USE DEF Init, Null
<1>1. Started = {} /\ Cardinality(Started) = 0 /\ Len(node) = 0 /\ DOMAIN node = {}
  <2>1. Started = {}
    BY DEF Started
  <2> QED
    BY <2>1, FS_EmptySet
<1>2. Nodes
  BY <1>1, Sizes DEF Nodes, Linked
<1>3. Threads
  BY <1>1 DEF Threads
<1>4. \A n \in 0..N : place[n] = Null
  <2> DEFINE w == [n \in 0..N |-> Null]
  <2>1. FollowsLinks(w, head, node)
    BY Sizes DEF FollowsLinks
  <2>2. place = w
    <3>1. place = [n \in 0..N |-> place[n]] /\ FollowsLinks(place, head, node)
      BY <1>2, ChainFollows
    <3> HIDE DEF Init
    <3>2. w = [n \in 0..N |-> w[n]]
      OBVIOUS
    <3> HIDE DEF w
    <3> QED
      BY <2>1, <3>1, <3>2, WalkIsUnique
  <2> QED
    BY <2>2
<1>5. Listed = {}
  BY <1>2, <1>4, ListedNodes
<1>6. Sound
  BY <1>2, <1>4, ChainFollows, Sizes DEF Sound, Consistent
<1>7. Ownership /\ AllHeld
  BY <1>1, <1>5 DEF Ownership, AllHeld
<1>8. Asking /\ late \in BOOLEAN
  <2>1. asked = NoMac /\ curr \in 0..Len(node)
    BY <1>1
  <2>2. seen \in BOOLEAN /\ late \in BOOLEAN
    BY Zenon
  <2> HIDE DEF Init
  <2> QED
    BY <2>1, <2>2 DEF Asking
<1>9. Query
  BY <1>8 DEF Query
<1> QED
  BY <1>2, <1>3, <1>6, <1>7, <1>8, <1>9 DEF ConnectionsInv, Typed, OnTime

\* A thread that is started never gets to be one that was not.
LEMMA StartedGrows ==
  ASSUME Threads, [Next]_vars
  PROVE  /\ Started \subseteq Started'
         /\ \A c \in Conn : Accept(c) => c \notin Started /\ Started' = Started \cup {c}
<1>1. ASSUME NEW c \in Conn, NEW to \in {"start", "add", "serve", "remove", "done", "broken"},
             pc' = [pc EXCEPT ![c] = to]
      PROVE  Started' = Started \cup {c}
  BY <1>1 DEF Started, Threads
<1>2. ASSUME UNCHANGED pc PROVE Started' = Started
  BY <1>2 DEF Started
<1>3. ASSUME NEW c \in Conn, Accept(c) PROVE c \notin Started /\ Started' = Started \cup {c}
  BY <1>3, <1>1 DEF Accept, Goto, Started
<1>4. ASSUME NEW c \in Conn,
             Accept(c) \/ Start(c) \/ Add(c) \/ Serve(c) \/ Disconnect(c) \/ Remove(c) \/ Break(c)
      PROVE  \E to \in {"start", "add", "serve", "remove", "done", "broken"} : pc' = [pc EXCEPT ![c] = to]
  BY <1>4, Zenon DEF Accept, Start, Add, Serve, Disconnect, Remove, Break, Goto
<1>5. Started \subseteq Started'
  <2>1. CASE \E c \in Conn : \/ Accept(c) \/ Start(c) \/ Add(c) \/ Serve(c) \/ Disconnect(c)
                              \/ Remove(c) \/ Break(c)
    BY <1>1, <1>4, <2>1
  <2>2. CASE UNCHANGED pc
    BY <1>2, <2>2
  <2>3. CASE Return \/ \E c \in Conn : Close(c)
    BY <2>2, <2>3 DEF Return, Close
  <2> QED
    BY <2>1, <2>2, <2>3 DEF Next, vars
<1> QED
  BY <1>3, <1>5

LEMMA AcceptNodes ==
  ASSUME Nodes, Threads, [Next]_vars, NEW c \in Conn, Accept(c)
  PROVE  Nodes'
<1>1. Started' = Started \cup {c} /\ c \notin Started /\ Started \subseteq Started'
  BY StartedGrows
<1>2. DOMAIN node = 1..Len(node) /\ Len(node) \in Nat
  BY DEF Nodes
<1>3. ASSUME NEW m \in Mac \cup {NoMac} PROVE NewAgent(m, c) \in Cell(Started')
  BY <1>1, <1>3 DEF NewAgent, Cell, Null
<1>4. UNCHANGED <<head, tail, size>>
  BY DEF Accept, list
<1>5. CASE node' = Append(node, NewAgent(NoMac, c))
  <2> DEFINE new == NewAgent(NoMac, c)
  <2>1. new \in Cell(Started') /\ new.next = 0
    BY <1>3 DEF NewAgent, Null
  <2>2. node \in Seq(Cell(Started'))
    <3>1. Cell(Started) \subseteq Cell(Started')
      BY <1>1 DEF Cell
    <3> QED
      BY <3>1 DEF Nodes
  <2> HIDE DEF new
  <2>3. /\ node' \in Seq(Cell(Started')) /\ Len(node') = Len(node) + 1
        /\ node'[Len(node) + 1] = new /\ \A p \in 1..Len(node) : node'[p] = node[p]
    BY <1>5, <2>1, <2>2 DEF new
  <2>4. Cardinality(Started') = Cardinality(Started) + 1
    BY <1>1, StartedBounds, FS_AddElement
  <2>5. Len(node') <= Cardinality(Started')
    BY <2>3, <2>4, <1>2, StartedBounds DEF Nodes
  <2>6. Linked(head', node', Len(node'))
    <3>1. Linked(head, node, Len(node))
      BY DEF Nodes
    <3> QED
      BY <3>1, <1>2, <1>4, <2>1, <2>3 DEF Linked
  <2> QED
    BY <1>2, <1>4, <2>3, <2>5, <2>6 DEF Nodes
<1>6. ASSUME NEW p \in DOMAIN node, NEW m \in {node[p].mac, NoMac},
             node' = [node EXCEPT ![p] = NewAgent(m, c)]
      PROVE  Nodes'
  <2>1. m \in Mac \cup {NoMac}
    BY StartedNodes DEF Cell
  <2>2. NewAgent(m, c) \in Cell(Started') /\ NewAgent(m, c).next = 0
    BY <1>3, <2>1 DEF NewAgent, Null
  <2>3. Cell(Started) \subseteq Cell(Started')
    BY <1>1 DEF Cell
  <2>4. \A q \in DOMAIN node : node'[q] \in Cell(Started') /\ node'[q].next \in 0..Len(node)
    BY <1>2, <1>6, <2>2, <2>3, StartedNodes
  <2>5. head' \in 0..Len(node) /\ tail' \in 0..Len(node) /\ size' \in Int
    BY <1>4 DEF Nodes, Linked
  <2>6. node' = [q \in DOMAIN node |-> node'[q]]
    BY <1>6
  <2> QED
    BY <1>1, <2>4, <2>5, <2>6, NodesKept
<1> QED
  BY <1>5, <1>6 DEF Accept

-----------------------------------------------------------------------------
(* add_new_agent_connection *)

LEMMA AddNodes ==
  ASSUME Nodes, Threads, [Next]_vars, NEW c \in Conn, Add(c)
  PROVE  Nodes' /\ DOMAIN node' = DOMAIN node
<1> DEFINE p == agent[c]
<1>1. p \in DOMAIN node /\ DOMAIN node = 1..Len(node) /\ Len(node) \in Nat
  <2>1. pc[c] = "add" /\ p \in 0..Len(node) /\ p # Null
    BY DEF Add, Goto, Threads
  <2> QED
    BY <2>1 DEF Nodes, Null
<1>2. Started \subseteq Started' /\ Cell(Started) \subseteq Cell(Started')
  BY StartedGrows DEF Cell
<1>3. head' \in 0..Len(node) /\ tail' \in 0..Len(node) /\ size' \in Int
  BY <1>1 DEF Add, Grown, Nodes, Linked
<1> DEFINE ended == [node EXCEPT ![p].next = Null]
<1>4. node' = ended \/ node' = [ended EXCEPT ![tail].next = p]
  BY DEF Add
<1>5. ASSUME NEW q \in DOMAIN node, NEW n \in 0..Len(node)
      PROVE  /\ [node[q] EXCEPT !.next = n] \in Cell(Started')
             /\ [node[q] EXCEPT !.next = n].next \in 0..Len(node)
  <2>1. node[q] \in Cell(Started')
    BY <1>2, StartedNodes
  <2> QED
    BY <1>1, <2>1 DEF Cell
<1>6. ASSUME NEW q \in DOMAIN node PROVE node'[q] \in Cell(Started') /\ node'[q].next \in 0..Len(node)
  <2>1. Null \in 0..Len(node) /\ p \in 0..Len(node)
    BY <1>1 DEF Null
  <2>2. node[q] \in Cell(Started') /\ node[q].next \in 0..Len(node)
    BY <1>2, StartedNodes
  <2>3. \/ node'[q] = node[q]
        \/ node'[q] = [node[q] EXCEPT !.next = Null]
        \/ node'[q] = [node[q] EXCEPT !.next = p]
    <3>1. ended[q] = IF q = p THEN [node[q] EXCEPT !.next = Null] ELSE node[q]
      OBVIOUS
    <3>2. node[q] \in Cell(Started)
      BY StartedNodes
    <3>3. CASE node' = ended
      BY <3>1, <3>3
    <3>4. CASE node' = [ended EXCEPT ![tail].next = p]
      <4>1. node'[q] = IF q = tail THEN [ended[q] EXCEPT !.next = p] ELSE ended[q]
        BY <3>4
      <4> HIDE DEF ended, p
      <4> QED
        BY <3>1, <3>2, <4>1 DEF Cell
    <3> QED
      BY <1>4, <3>3, <3>4
  <2> HIDE DEF p
  <2> QED
    BY <1>5, <2>1, <2>2, <2>3
<1>7. DOMAIN node' = DOMAIN node /\ node' = [q \in DOMAIN node |-> node'[q]]
  BY <1>4
<1> QED
  BY <1>2, <1>3, <1>6, <1>7, NodesKept

\* What it writes: the link of the new node and that of the tail.
LEMMA AddHeap ==
  ASSUME Nodes, Threads, Sound, Ownership, NEW c \in Conn, Add(c)
  PROVE  /\ Fresh(agent[c])
         /\ DOMAIN node' = DOMAIN node /\ node' = [q \in DOMAIN node |-> node'[q]]
         /\ \A q \in DOMAIN node : /\ node'[q].used = node[q].used
                                   /\ node'[q].mac = node[q].mac
                                   /\ node'[q].con_fd = node[q].con_fd
                                   /\ node'[q] \in Cell(Started)
         /\ node'[agent[c]].next = Null
         /\ \A q \in DOMAIN node \ {agent[c]} :
              node'[q].next = IF size > 0 /\ q = tail THEN agent[c] ELSE node[q].next
         /\ head' = (IF size = 0 THEN agent[c] ELSE head)
         /\ tail' = agent[c] /\ size' = size + 1
<1> DEFINE p == agent[c]
<1>1. Fresh(p) /\ p \in 1..Len(node) /\ Len(node) \in Nat /\ DOMAIN node = 1..Len(node)
  BY DEF Add, Goto, Ownership, Fresh, Nodes
<1>2. size \in Nat /\ (head = Null <=> size = 0) /\ (size > 0 => tail \in Listed)
  <2>1. size \in 0..N /\ N \in Nat
    BY Sizes DEF Sound
  <2>2. size > 0 => size - 1 \in 0..(size - 1)
    BY <2>1
  <2> QED
    BY <2>1, <2>2, SoundChain
<1>3. size > 0 => tail \in DOMAIN node /\ tail # p
  BY <1>1, <1>2, ListedNodes DEF Fresh
<1>4. tail' = p /\ size' = size + 1 /\ head' = (IF size = 0 THEN p ELSE head)
  BY <1>2 DEF Add, Grown
<1>5. node' = IF size = 0 THEN [node EXCEPT ![p].next = Null]
              ELSE [node EXCEPT ![p].next = Null, ![tail].next = p]
  BY <1>2 DEF Add
<1>6. \A q \in DOMAIN node : node[q] \in Cell(Started)
  BY StartedNodes
<1>7. ASSUME NEW q \in DOMAIN node
      PROVE  /\ node'[q].used = node[q].used /\ node'[q].mac = node[q].mac
             /\ node'[q].con_fd = node[q].con_fd
             /\ node'[q] \in Cell(Started)
             /\ q = p => node'[q].next = Null
             /\ q # p => node'[q].next = IF size > 0 /\ q = tail THEN p ELSE node[q].next
  <2>1. CASE q = p
    <3>1. node'[q] = [node[q] EXCEPT !.next = Null]
      BY <1>2, <1>3, <1>5, <2>1
    <3> QED
      BY <1>6, <2>1, <3>1 DEF Cell, Null
  <2>2. CASE q # p /\ size > 0 /\ q = tail
    <3>1. node'[q] = [node[q] EXCEPT !.next = p]
      BY <1>2, <1>3, <1>5, <2>2
    <3> QED
      BY <1>1, <1>6, <2>2, <3>1 DEF Cell
  <2>3. CASE q # p /\ ~(size > 0 /\ q = tail)
    <3>1. node'[q] = node[q]
      BY <1>2, <1>3, <1>5, <2>3
    <3> QED
      BY <1>6, <2>3, <3>1
  <2> QED
    BY <2>1, <2>2, <2>3
<1>8. DOMAIN node' = DOMAIN node /\ node' = [q \in DOMAIN node |-> node'[q]]
  BY <1>5
<1> QED
  BY <1>1, <1>4, <1>7, <1>8

\* The chain grows at its end by the thread's agent_t.
LEMMA AddChain ==
  ASSUME Nodes, Threads, Sound, Ownership, [Next]_vars, NEW c \in Conn, Add(c)
  PROVE  /\ place' = [n \in 0..N |-> IF n < size THEN place[n]
                                     ELSE IF n = size THEN agent[c] ELSE Null]
         /\ Listed' = Listed \cup {agent[c]}
<1> DEFINE p == agent[c]
           w == [n \in 0..N |-> IF n < size THEN place[n] ELSE IF n = size THEN p ELSE Null]
<1>1. p \in DOMAIN node /\ p \notin Listed /\ p # Null
  BY AddHeap, ListedNodes DEF Fresh, Null
<1>2. size \in Nat /\ N \in Nat /\ size + 1 \in 0..N
  BY <1>1, RoomForOne, Sizes DEF Sound
<1>3. \A n \in 0..(size - 1) : place[n] \in Listed /\ place[n] \in DOMAIN node \ {p} /\ place[n] # Null
  BY <1>1, SoundChain, ListedNodes DEF Null
<1>4. FollowsLinks(w, head', node')
  <2>1. w[0] = head'
    BY <1>2, AddHeap, SoundChain
  <2>2. ASSUME NEW n \in 1..N
        PROVE  w[n] = IF w[n - 1] = Null THEN Null ELSE node'[w[n - 1]].next
    <3>1. n \in 0..N /\ n - 1 \in 0..N
      BY <1>2
    <3>2. CASE n < size
      <4>1. n - 1 \in 0..(size - 1) /\ n - 1 # size - 1 /\ size - 1 \in 0..(size - 1) /\ (n - 1) + 1 = n
        BY <1>2, <3>1, <3>2
      <4>2. place[n - 1] # tail
        <5>1. size > 0 /\ tail = place[size - 1]
          BY <1>2, <4>1, SoundChain
        <5> QED
          BY <4>1, <5>1, SoundChain
      <4>3. node[place[n - 1]].next = place[n]
        BY <4>1, SoundChain
      <4>4. node'[place[n - 1]].next = node[place[n - 1]].next
        BY <1>3, <4>1, <4>2, AddHeap
      <4>5. w[n] = place[n] /\ w[n - 1] = place[n - 1] /\ w[n - 1] # Null
        BY <1>2, <1>3, <3>1, <3>2, <4>1
      <4> QED
        BY <4>3, <4>4, <4>5
    <3>3. CASE n = size
      <4>1. n - 1 \in 0..(size - 1) /\ n - 1 = size - 1 /\ size > 0 /\ n - 1 < size
        BY <1>2, <3>1, <3>3
      <4>2. place[n - 1] = tail
        BY <4>1, SoundChain
      <4>3. node'[place[n - 1]].next = p
        BY <1>3, <4>1, <4>2, AddHeap
      <4> QED
        BY <1>3, <3>1, <3>3, <4>1, <4>3
    <3>4. CASE n = size + 1
      <4>1. w[n - 1] = p /\ w[n] = Null
        BY <1>2, <3>1, <3>4
      <4> QED
        BY <1>1, <4>1, AddHeap
    <3>5. CASE n > size + 1
      <4>1. w[n - 1] = Null /\ w[n] = Null
        BY <1>2, <3>1, <3>5
      <4> QED
        BY <4>1
    <3> QED
      BY <1>2, <3>2, <3>3, <3>4, <3>5
  <2> HIDE DEF w
  <2> QED
    BY <2>1, <2>2 DEF FollowsLinks
<1>5. place' = w
  <2>1. w = [n \in 0..N |-> w[n]]
    OBVIOUS
  <2> HIDE DEF w
  <2> QED
    BY <1>4, <2>1, AddNodes, NextChain
<1>6. Listed' = {place'[n] : n \in 0..N} \ {Null}
  BY AddNodes, ChainFollows, <1>5 DEF Listed
<1>7. ASSUME NEW n \in 0..N PROVE w[n] \in Listed \cup {p, Null}
  BY <1>2, <1>3
<1>8. ASSUME NEW q \in Listed PROVE \E n \in 0..N : w[n] = q
  <2>1. PICK n \in 0..(size - 1) : q = place[n]
    BY SoundChain
  <2>2. n \in 0..N /\ n < size
    BY <1>2
  <2> QED
    BY <2>1, <2>2
<1>9. size \in 0..N /\ w[size] = p
  BY <1>2
<1>10. Null \notin Listed
  BY DEF Listed
<1> QED
  <2> HIDE DEF w
  <2>1. Listed' = Listed \cup {p}
    BY <1>1, <1>5, <1>6, <1>7, <1>8, <1>9, <1>10
  <2> QED
    BY <1>5, <2>1 DEF w

-----------------------------------------------------------------------------
(* remove_agent_connection *)

LEMMA FirstMatchIsLeast ==
  ASSUME Nodes, NEW c \in Conn, Matches(c) # {}
  PROVE  /\ FirstMatch(c) \in Matches(c)
         /\ \A k \in Matches(c) : FirstMatch(c) <= k
         /\ FirstMatch(c) \in 0..N /\ place[FirstMatch(c)] # Null
         /\ Matches(c) \subseteq Nat
<1>1. DOMAIN place = 0..N /\ N \in Nat
  BY ChainFollows, Sizes
<1>2. Matches(c) \subseteq Nat
  BY <1>1 DEF Matches
<1>3. \E n \in Matches(c) : \A k \in Matches(c) : n <= k
  BY <1>2, LeastElement
<1>4. FirstMatch(c) \in Matches(c) /\ \A k \in Matches(c) : FirstMatch(c) <= k
  BY <1>3 DEF FirstMatch
<1>5. FirstMatch(c) \in 0..N /\ place[FirstMatch(c)] # Null
  BY <1>1, <1>4 DEF Matches
<1> QED
  BY <1>2, <1>4, <1>5

LEMMA FirstMatchFound ==
  ASSUME Nodes, Sound, NEW c \in Conn, Matches(c) # {}
  PROVE  FirstMatch(c) \in 0..(size - 1)
<1>1. FirstMatch(c) \in 0..N /\ place[FirstMatch(c)] # Null
  BY FirstMatchIsLeast
<1> QED
  BY <1>1, SoundChain DEF Sound

LEMMA RemoveNodes ==
  ASSUME Nodes, Threads, [Next]_vars, NEW c \in Conn, Remove(c)
  PROVE  Nodes' /\ DOMAIN node' = DOMAIN node
<1>1. Started \subseteq Started' /\ Cell(Started) \subseteq Cell(Started')
  BY StartedGrows DEF Cell
<1>2. CASE Matches(c) = {}
  <2>1. UNCHANGED <<head, tail, size, node>>
    BY <1>2 DEF Remove, list
  <2>2. \A p \in DOMAIN node : node'[p] \in Cell(Started') /\ node'[p].next \in 0..Len(node)
    BY <1>1, <2>1, StartedNodes
  <2>3. node' = [p \in DOMAIN node |-> node'[p]]
    BY <2>1 DEF Nodes
  <2> QED
    BY <1>1, <2>1, <2>2, <2>3, NodesKept DEF Nodes, Linked
<1>3. CASE Matches(c) # {}
  <2> DEFINE m == FirstMatch(c)
             found == place[m]
             prev == place[m - 1]
  <2>1. m \in 0..N /\ found \in DOMAIN node /\ N \in Nat
    <3>1. m \in 0..N /\ found # Null
      BY <1>3, FirstMatchIsLeast
    <3>2. place \in [0..N -> 0..Len(node)]
      BY ChainFollows
    <3> QED
      BY <3>1, <3>2, Sizes DEF Nodes, Null
  <2>2. found # head => prev \in 0..Len(node)
    <3>1. place \in [0..N -> 0..Len(node)] /\ place[0] = head
      BY ChainFollows DEF FollowsLinks
    <3>2. found # head => m - 1 \in 0..N
      BY <2>1, <3>1
    <3> QED
      BY <3>1, <3>2
  <2>3. node[found].next \in 0..Len(node) /\ Null \in 0..Len(node)
    BY <2>1, StartedNodes DEF Nodes, Null
  <2>4. RemoveFrom(m)
    BY <1>3 DEF Remove
  <2>5. head' \in 0..Len(node) /\ tail' \in 0..Len(node) /\ size' \in Int
    <3>1. head \in 0..Len(node) /\ tail \in 0..Len(node) /\ size \in Int
      BY DEF Nodes, Linked
    <3> QED
      BY <2>2, <2>3, <2>4, <3>1 DEF RemoveFrom, TailWithout
  <2>6. PICK n \in 0..Len(node) : \/ Free(found, node)
                                  \/ found # head /\ Free(found, [node EXCEPT ![prev].next = n])
    <3>1. CASE found = head
      BY <2>3, <2>4, <3>1 DEF RemoveFrom
    <3>2. CASE found # head
      BY <2>3, <2>4, <3>2 DEF RemoveFrom
    <3> QED
      BY <3>1, <3>2
  <2>7. PICK heap : /\ heap = node \/ heap = [node EXCEPT ![prev].next = n]
                    /\ Free(found, heap)
    BY <2>6
  <2>8. /\ DOMAIN heap = DOMAIN node
        /\ \A q \in DOMAIN node : heap[q] \in Cell(Started') /\ heap[q].next \in 0..Len(node)
    <3>1. \A q \in DOMAIN node : node[q] \in Cell(Started') /\ node[q].next \in 0..Len(node)
      BY <1>1, StartedNodes
    <3>2. CASE heap = node
      BY <3>1, <3>2
    <3>3. CASE heap = [node EXCEPT ![prev].next = n]
      <4>1. ASSUME NEW q \in DOMAIN node
            PROVE  heap[q] = node[q] \/ heap[q] = [node[q] EXCEPT !.next = n]
        BY <3>3
      <4>2. n \in Nat
        BY DEF Nodes
      <4>3. ASSUME NEW q \in DOMAIN node PROVE heap[q] \in Cell(Started') /\ heap[q].next \in 0..Len(node)
        <5>1. node[q] \in Cell(Started') /\ node[q].next \in 0..Len(node)
          BY <3>1
        <5> QED
          BY <4>1, <4>2, <5>1 DEF Cell
      <4> QED
        BY <3>3, <4>3
    <3> QED
      BY <2>7, <3>2, <3>3
  <2> HIDE DEF found
  <2>9. PICK fd \in {heap[found].con_fd, NoConn} :
              node' = [heap EXCEPT ![found].used = FALSE, ![found].con_fd = fd]
    BY <2>7 DEF Free
  <2>10. fd \in Started' \cup {NoConn}
    <3>1. heap[found] \in Cell(Started')
      BY <2>1, <2>8
    <3> QED
      BY <2>9, <3>1 DEF Cell
  <2>11. ASSUME NEW q \in DOMAIN node PROVE node'[q] \in Cell(Started') /\ node'[q].next \in 0..Len(node)
    <3>1. heap[q] \in Cell(Started') /\ heap[q].next \in 0..Len(node)
      BY <2>8
    <3>2. node'[q] = IF q = found THEN [heap[q] EXCEPT !.used = FALSE, !.con_fd = fd] ELSE heap[q]
      BY <2>8, <2>9
    <3> QED
      BY <2>10, <3>1, <3>2 DEF Cell
  <2>12. DOMAIN node' = DOMAIN node /\ node' = [q \in DOMAIN node |-> node'[q]]
    BY <2>8, <2>9
  <2> QED
    BY <1>1, <2>5, <2>11, <2>12, NodesKept
<1> QED
  BY <1>2, <1>3

\* What it writes when it finds a node: the link before it, and the node.
LEMMA RemoveHeap ==
  ASSUME Nodes, Sound, NEW c \in Conn, Remove(c), Matches(c) # {},
         NEW m, m = FirstMatch(c)
  PROVE  /\ m \in 0..(size - 1)
         /\ DOMAIN node' = DOMAIN node /\ node' = [q \in DOMAIN node |-> node'[q]]
         /\ \A q \in DOMAIN node :
              /\ q # place[m] => node'[q].used = node[q].used
              /\ q = place[m] => ~ node'[q].used
              /\ node'[q].mac = node[q].mac
              /\ node'[q].next = IF m > 0 /\ q = place[m - 1] THEN place[m + 1] ELSE node[q].next
              /\ node'[q] \in Cell(Started)
         /\ head' = (IF m = 0 THEN place[1] ELSE head)
         /\ tail' = (IF m > 0 /\ m = size - 1 THEN place[m - 1] ELSE tail)
         /\ size' = size - 1
<1> DEFINE found == place[m]
           prev == place[m - 1]
<1>1. m \in 0..(size - 1) /\ size \in 0..N /\ N \in Nat
  BY FirstMatchFound, Sizes DEF Sound
<1>2. found \in Listed /\ found \in DOMAIN node /\ node[found].used
  BY <1>1, SoundChain, ListedNodes
<1>3. found = head <=> m = 0
  <2>1. size > 0 /\ 0 \in 0..(size - 1) /\ head = place[0]
    BY <1>1, SoundChain
  <2> QED
    BY <1>1, <2>1, SoundChain
<1>4. found = tail <=> m = size - 1
  <2>1. size > 0 /\ size - 1 \in 0..(size - 1) /\ tail = place[size - 1]
    BY <1>1, SoundChain
  <2> QED
    BY <1>1, <2>1, SoundChain
<1>5. m + 1 \in 0..N /\ node[found].next = place[m + 1]
      /\ (m = size - 1 => place[m + 1] = Null) /\ place[m + 1] \in 0..Len(node)
  <2>1. m + 1 \in 0..N /\ node[found].next = place[m + 1]
    BY <1>1, SoundChain
  <2> QED
    BY <1>1, <2>1, SoundChain, ChainFollows
<1>6. m > 0 => prev \in DOMAIN node /\ prev # found
  <2>1. m > 0 => m - 1 \in 0..(size - 1) /\ m - 1 # m
    BY <1>1
  <2> QED
    BY <1>1, <2>1, SoundChain, ListedNodes
<1>7. RemoveFrom(m)
  BY DEF Remove
<1>8. size' = size - 1 /\ tail' = (IF m > 0 /\ m = size - 1 THEN prev ELSE tail)
  BY <1>1, <1>3, <1>4, <1>7 DEF RemoveFrom, TailWithout
<1>9. head' = (IF m = 0 THEN place[1] ELSE head)
  BY <1>3, <1>5, <1>7 DEF RemoveFrom
<1> DEFINE heap == IF m = 0 THEN node ELSE [node EXCEPT ![prev].next = place[m + 1]]
<1>10. Free(found, heap)
  <2>1. CASE m = 0
    BY <1>3, <1>7, <2>1 DEF RemoveFrom
  <2>2. CASE m # 0
    <3>1. Free(found, [node EXCEPT ![prev].next = IF found = tail THEN Null ELSE node[found].next])
      BY <1>3, <1>7, <2>2 DEF RemoveFrom
    <3>2. place[m + 1] = IF found = tail THEN Null ELSE node[found].next
      BY <1>4, <1>5
    <3> QED
      BY <2>2, <3>1, <3>2
  <2> QED
    BY <2>1, <2>2
<1>11. PICK fd \in {heap[found].con_fd, NoConn} :
              node' = [heap EXCEPT ![found].used = FALSE, ![found].con_fd = fd]
  <2> HIDE DEF heap, found
  <2> QED
    BY <1>10 DEF Free
<1>12. /\ DOMAIN heap = DOMAIN node /\ heap[found] = node[found]
       /\ m > 0 => heap[prev] = [node[prev] EXCEPT !.next = place[m + 1]]
       /\ \A q \in DOMAIN node : ~(m > 0 /\ q = prev) => heap[q] = node[q]
  BY <1>1, <1>2, <1>6
<1>13. \A q \in DOMAIN node : node[q] \in Cell(Started)
  BY StartedNodes
<1>14. ASSUME NEW q \in DOMAIN node
       PROVE  /\ q # found => node'[q].used = node[q].used
              /\ q = found => ~ node'[q].used
              /\ node'[q].mac = node[q].mac
              /\ node'[q].next = IF m > 0 /\ q = prev THEN place[m + 1] ELSE node[q].next
              /\ node'[q] \in Cell(Started)
  <2> HIDE DEF heap, found, prev
  <2>1. CASE q = found
    <3>1. node'[q] = [node[q] EXCEPT !.used = FALSE, !.con_fd = fd]
      BY <1>11, <1>12, <2>1
    <3>2. fd \in Started \cup {NoConn}
      BY <1>2, <1>11, <1>12, <1>13 DEF Cell
    <3> QED
      BY <1>6, <1>13, <2>1, <3>1, <3>2 DEF Cell
  <2>2. CASE m > 0 /\ q = prev
    <3>1. node'[q] = [node[q] EXCEPT !.next = place[m + 1]]
      BY <1>6, <1>11, <1>12, <2>2
    <3>2. place[m + 1] \in Nat
      BY <1>5 DEF Nodes
    <3> QED
      BY <1>6, <1>13, <2>2, <3>1, <3>2 DEF Cell
  <2>3. CASE q # found /\ ~(m > 0 /\ q = prev)
    <3>1. node'[q] = node[q]
      BY <1>11, <1>12, <2>3
    <3> QED
      BY <1>13, <2>3, <3>1 DEF Cell
  <2> QED
    BY <2>1, <2>2, <2>3
<1>15. DOMAIN node' = DOMAIN node /\ node' = [q \in DOMAIN node |-> node'[q]]
  <2> HIDE DEF heap
  <2> QED
    BY <1>11, <1>12
<1> QED
  BY <1>1, <1>8, <1>9, <1>14, <1>15

\* The chain closes over the node that was found.
LEMMA RemoveChain ==
  ASSUME Nodes, Threads, Sound, [Next]_vars, NEW c \in Conn, Remove(c), Matches(c) # {},
         NEW m, m = FirstMatch(c)
  PROVE  /\ place' = [n \in 0..N |-> IF n < m THEN place[n]
                                     ELSE IF n < N THEN place[n + 1] ELSE Null]
         /\ Listed' = Listed \ {place[m]}
<1> DEFINE w == [n \in 0..N |-> IF n < m THEN place[n] ELSE IF n < N THEN place[n + 1] ELSE Null]
<1>1. m \in 0..(size - 1) /\ size \in 0..N /\ N \in Nat /\ size > 0
  BY RemoveHeap, Sizes DEF Sound
<1>2. \A n \in 0..(size - 1) : place[n] \in Listed /\ place[n] \in DOMAIN node /\ place[n] # Null
  BY SoundChain, ListedNodes DEF Listed
<1>3. FollowsLinks(w, head', node')
  <2>1. w[0] = head'
    BY <1>1, RemoveHeap, SoundChain
  <2>2. ASSUME NEW n \in 1..N
        PROVE  w[n] = IF w[n - 1] = Null THEN Null ELSE node'[w[n - 1]].next
    <3>1. n \in 0..N /\ n - 1 \in 0..N
      BY <1>1
    <3>2. CASE n < m
      <4>1. n - 1 \in 0..(size - 1) /\ m - 1 \in 0..(size - 1) /\ n - 1 # m - 1 /\ (n - 1) + 1 = n
        BY <1>1, <3>1, <3>2
      <4>2. place[n - 1] # place[m - 1]
        BY <4>1, SoundChain
      <4>3. node[place[n - 1]].next = place[n]
        BY <4>1, SoundChain
      <4>4. node'[place[n - 1]].next = node[place[n - 1]].next
        BY <1>2, <4>1, <4>2, RemoveHeap
      <4>5. w[n] = place[n] /\ w[n - 1] = place[n - 1] /\ w[n - 1] # Null
        BY <1>1, <1>2, <3>1, <3>2, <4>1
      <4> QED
        BY <4>3, <4>4, <4>5
    <3>3. CASE n = m
      <4>1. n - 1 \in 0..(size - 1) /\ n - 1 = m - 1 /\ m > 0
        BY <1>1, <3>1, <3>3
      <4>2. node'[place[n - 1]].next = place[m + 1]
        BY <1>2, <4>1, RemoveHeap
      <4>3. w[n] = place[m + 1] /\ w[n - 1] = place[n - 1] /\ w[n - 1] # Null
        BY <1>1, <1>2, <3>1, <3>3, <4>1
      <4> QED
        BY <4>2, <4>3
    <3>4. CASE n > m
      <4>1. w[n - 1] = place[n] /\ w[n] = IF n < N THEN place[n + 1] ELSE Null
        BY <1>1, <3>1, <3>4
      <4>2. CASE n >= size
        <5>1. place[n] = Null /\ (n < N => place[n + 1] = Null)
          BY <1>1, <3>1, <4>2, SoundChain
        <5> QED
          BY <4>1, <5>1
      <4>3. CASE n < size
        <5>1. n \in 0..(size - 1) /\ n < N
          BY <1>1, <3>1, <4>3
        <5>2. m > 0 => m - 1 \in 0..(size - 1) /\ m - 1 # n
          BY <1>1, <3>4
        <5>3. m > 0 => place[n] # place[m - 1]
          BY <5>1, <5>2, SoundChain
        <5>4. node'[place[n]].next = node[place[n]].next
          BY <1>2, <5>1, <5>3, RemoveHeap
        <5>5. node[place[n]].next = place[n + 1]
          BY <5>1, SoundChain
        <5> QED
          BY <1>2, <4>1, <5>1, <5>4, <5>5
      <4> QED
        BY <1>1, <4>2, <4>3
    <3> QED
      BY <1>1, <3>2, <3>3, <3>4
  <2> HIDE DEF w
  <2> QED
    BY <2>1, <2>2 DEF FollowsLinks
<1>4. place' = w
  <2>1. w = [n \in 0..N |-> w[n]]
    OBVIOUS
  <2> HIDE DEF w
  <2> QED
    BY <1>3, <2>1, RemoveNodes, NextChain
<1>5. Listed' = {w[n] : n \in 0..N} \ {Null}
  <2>1. DOMAIN w = 0..N
    OBVIOUS
  <2>2. Listed' = {place'[n] : n \in DOMAIN place'} \ {Null}
    BY DEF Listed
  <2> HIDE DEF w
  <2> QED
    BY <1>4, <2>1, <2>2
<1>6. ASSUME NEW n \in 0..N, w[n] # Null PROVE w[n] \in Listed \ {place[m]}
  <2>1. CASE n < m
    <3>1. n \in 0..(size - 1) /\ n # m /\ w[n] = place[n]
      BY <1>1, <2>1
    <3> QED
      BY <1>1, <1>2, <3>1, SoundChain
  <2>2. CASE ~(n < m)
    <3>1. n < N /\ w[n] = place[n + 1] /\ n + 1 \in 0..N
      BY <1>1, <1>6, <2>2
    <3>2. n + 1 \in 0..(size - 1) /\ n + 1 # m
      BY <1>1, <1>6, <2>2, <3>1, SoundChain
    <3> QED
      BY <1>1, <1>2, <3>1, <3>2, SoundChain
  <2> QED
    BY <2>1, <2>2
<1>7. ASSUME NEW q \in Listed, q # place[m] PROVE \E n \in 0..N : w[n] = q
  <2>1. PICK n \in 0..(size - 1) : q = place[n]
    BY SoundChain
  <2>2. n # m
    BY <1>7, <2>1
  <2>3. CASE n < m
    <3>1. n \in 0..N /\ w[n] = q
      BY <1>1, <2>1, <2>3
    <3> QED
      BY <3>1
  <2>4. CASE n > m
    <3>1. n - 1 \in 0..N /\ n - 1 < N /\ ~(n - 1 < m) /\ (n - 1) + 1 = n
      BY <1>1, <2>4
    <3>2. w[n - 1] = q
      BY <2>1, <3>1
    <3> QED
      BY <3>1, <3>2
  <2> QED
    BY <1>1, <2>2, <2>3, <2>4
<1>8. Null \notin Listed
  BY DEF Listed
<1> QED
  <2> HIDE DEF w
  <2>1. Listed' = Listed \ {place[m]}
    BY <1>5, <1>6, <1>7, <1>8
  <2> QED
    BY <1>4, <2>1 DEF w

-----------------------------------------------------------------------------
(* The steps that leave the chain as it is *)

\* What accept and agent_thread_init write: an agent_t nobody has.
LEMMA AcceptHeap ==
  ASSUME Nodes, NEW c \in Conn, Accept(c)
  PROVE  /\ argument' \in DOMAIN node' /\ argument' \notin {q \in DOMAIN node : node[q].used}
         /\ DOMAIN node' = DOMAIN node \cup {argument'}
         /\ node'[argument'].used /\ node'[argument'].next = Null
         /\ node'[argument'].mac = NoMac \/ (argument' \in DOMAIN node /\ node'[argument'].mac = node[argument'].mac)
         /\ \A q \in DOMAIN node \ {argument'} : node'[q] = node[q]
<1>1. node \in Seq(Cell(Started)) /\ DOMAIN node = 1..Len(node) /\ Len(node) \in Nat
  BY DEF Nodes
<1>2. CASE node' = Append(node, NewAgent(NoMac, c)) /\ argument' = Len(node')
  <2> DEFINE new == NewAgent(NoMac, c)
  <2>1. new.used /\ new.next = Null /\ new.mac = NoMac
    BY DEF NewAgent
  <2> HIDE DEF new
  <2>2. /\ Len(node') = Len(node) + 1 /\ DOMAIN node' = 1..(Len(node) + 1)
        /\ node'[Len(node) + 1] = new /\ \A q \in 1..Len(node) : node'[q] = node[q]
    BY <1>1, <1>2 DEF new
  <2>3. argument' = Len(node) + 1 /\ argument' \notin DOMAIN node
    BY <1>1, <1>2, <2>2
  <2>4. DOMAIN node' = DOMAIN node \cup {argument'}
    BY <1>1, <2>2, <2>3
  <2> QED
    BY <1>1, <2>1, <2>2, <2>3, <2>4
<1>3. ASSUME NEW p \in DOMAIN node, NEW m \in {node[p].mac, NoMac}, ~ node[p].used,
             node' = [node EXCEPT ![p] = NewAgent(m, c)], argument' = p
      PROVE  /\ argument' \in DOMAIN node' /\ argument' \notin {q \in DOMAIN node : node[q].used}
             /\ DOMAIN node' = DOMAIN node \cup {argument'}
             /\ node'[argument'].used /\ node'[argument'].next = Null
             /\ node'[argument'].mac = NoMac \/ (argument' \in DOMAIN node /\ node'[argument'].mac = node[argument'].mac)
             /\ \A q \in DOMAIN node \ {argument'} : node'[q] = node[q]
  <2>1. node'[p] = NewAgent(m, c) /\ DOMAIN node' = DOMAIN node
        /\ \A q \in DOMAIN node \ {p} : node'[q] = node[q]
    BY <1>3
  <2>2. node'[p].used /\ node'[p].next = Null /\ node'[p].mac = m
    BY <2>1 DEF NewAgent
  <2> QED
    BY <1>3, <2>1, <2>2
<1>4. (node' = Append(node, NewAgent(NoMac, c)) /\ argument' = Len(node'))
      \/ \E p \in DOMAIN node : \E m \in {node[p].mac, NoMac} :
           ~ node[p].used /\ node' = [node EXCEPT ![p] = NewAgent(m, c)] /\ argument' = p
  BY DEF Accept
<1> QED
  BY <1>2, <1>3, <1>4

\* What a message writes: the mac of an agent that is connected.
LEMMA ServeHeap ==
  ASSUME Nodes, Threads, NEW c \in Conn, Serve(c)
  PROVE  /\ DOMAIN node' = DOMAIN node /\ node' = [q \in DOMAIN node |-> node'[q]]
         /\ reading[c] \in Started \ closed
         /\ \A q \in DOMAIN node :
              /\ node'[q].used = node[q].used /\ node'[q].next = node[q].next
              /\ node'[q].mac \in {node[q].mac, MacOf[reading[c]]}
              /\ node'[q] \in Cell(Started)
<1>1. reading[c] \in Started \ closed /\ MacOf[reading[c]] \in Mac
  BY ConnectionAssumption DEF Serve, Threads, Mac
<1>2. agent[c] \in DOMAIN node
  BY DEF Serve, Goto, Threads, Nodes, Null
<1>3. \A q \in DOMAIN node : node[q] \in Cell(Started)
  BY StartedNodes
<1>4. CASE UNCHANGED node
  BY <1>1, <1>3, <1>4 DEF Nodes
<1>5. CASE node' = [node EXCEPT ![agent[c]].mac = MacOf[reading[c]]]
  <2>1. \A q \in DOMAIN node : q # agent[c] => node'[q] = node[q]
    BY <1>5
  <2>2. node'[agent[c]] = [node[agent[c]] EXCEPT !.mac = MacOf[reading[c]]]
    BY <1>2, <1>5
  <2>3. node' = [q \in DOMAIN node |-> node'[q]]
    BY <1>5
  <2>4. /\ node'[agent[c]].used = node[agent[c]].used
        /\ node'[agent[c]].next = node[agent[c]].next
        /\ node'[agent[c]].mac = MacOf[reading[c]]
        /\ node'[agent[c]] \in Cell(Started)
    BY <1>1, <1>2, <1>3, <2>2 DEF Cell
  <2> QED
    BY <1>1, <1>3, <2>1, <2>3, <2>4
<1> QED
  BY <1>4, <1>5 DEF Serve

LEMMA ListKept ==
  ASSUME Nodes, Threads, [Next]_vars, \A c \in Conn : ~ Add(c) /\ ~ Remove(c)
  PROVE  Nodes' /\ UNCHANGED list /\ DOMAIN node \subseteq DOMAIN node'
<1>1. UNCHANGED list
  BY DEF Next, vars, Accept, Start, Serve, Close, Disconnect, Return, Break
<1>2. head \in 0..Len(node) /\ tail \in 0..Len(node) /\ size \in Int /\ UNCHANGED <<head, tail, size>>
  BY <1>1 DEF Nodes, Linked, list
<1>3. Started \subseteq Started' /\ Cell(Started) \subseteq Cell(Started')
  BY StartedGrows DEF Cell
<1>4. CASE \E c \in Conn : Accept(c)
  BY <1>1, <1>4, AcceptNodes, AcceptHeap
<1>5. CASE \E c \in Conn : Serve(c)
  <2>1. PICK c \in Conn : Serve(c)
    BY <1>5
  <2>2. \A q \in DOMAIN node : node'[q] \in Cell(Started') /\ node'[q].next \in 0..Len(node)
    BY <1>3, <2>1, ServeHeap, StartedNodes
  <2> QED
    BY <1>1, <1>2, <1>3, <2>1, <2>2, ServeHeap, NodesKept
<1>6. CASE UNCHANGED node
  <2>1. \A q \in DOMAIN node : node'[q] \in Cell(Started') /\ node'[q].next \in 0..Len(node)
    BY <1>3, <1>6, StartedNodes
  <2>2. node' = [q \in DOMAIN node |-> node'[q]]
    BY <1>6 DEF Nodes
  <2> QED
    BY <1>1, <1>2, <1>3, <1>6, <2>1, <2>2, NodesKept
<1>7. (\E c \in Conn : Accept(c)) \/ (\E c \in Conn : Serve(c)) \/ UNCHANGED node
  BY DEF Next, vars, Start, Close, Disconnect, Return, Break
<1> QED
  BY <1>4, <1>5, <1>6, <1>7

LEMMA ListStays ==
  ASSUME Nodes, Threads, Sound, [Next]_vars, \A c \in Conn : ~ Add(c) /\ ~ Remove(c)
  PROVE  /\ Nodes' /\ UNCHANGED list /\ place' = place /\ Listed' = Listed
         /\ \A q \in Listed : node'[q].used
<1>1. Nodes' /\ UNCHANGED list /\ UNCHANGED head
  BY ListKept DEF list
<1>2. \A q \in Listed : q \in DOMAIN node /\ node[q].used
  BY SoundChain, ListedNodes
<1>3. \A q \in Listed : node'[q].next = node[q].next /\ node'[q].used
  <2>1. CASE \E c \in Conn : Accept(c)
    <3>1. PICK c \in Conn : Accept(c)
      BY <2>1
    <3>2. \A q \in Listed : node'[q] = node[q]
      BY <1>2, <3>1, AcceptHeap
    <3> QED
      BY <1>2, <3>2
  <2>2. CASE \E c \in Conn : Serve(c)
    BY <1>2, <2>2, ServeHeap
  <2>3. CASE UNCHANGED node
    BY <1>2, <2>3
  <2>4. (\E c \in Conn : Accept(c)) \/ (\E c \in Conn : Serve(c)) \/ UNCHANGED node
    BY DEF Next, vars, Start, Close, Disconnect, Return, Break
  <2> QED
    BY <2>1, <2>2, <2>3, <2>4
<1>4. place' = place /\ Listed' = Listed
  BY <1>1, <1>3, ChainKept
<1> QED
  BY <1>1, <1>3, <1>4

-----------------------------------------------------------------------------
(* One step, one conjunct at a time *)

LEMMA NodesStep ==
  ASSUME Nodes, Threads, [Next]_vars
  PROVE  Nodes' /\ DOMAIN node \subseteq DOMAIN node'
<1>1. CASE \E c \in Conn : Add(c)
  BY <1>1, AddNodes
<1>2. CASE \E c \in Conn : Remove(c)
  BY <1>2, RemoveNodes
<1>3. CASE \A c \in Conn : ~ Add(c) /\ ~ Remove(c)
  BY <1>3, ListKept
<1> QED
  BY <1>1, <1>2, <1>3

LEMMA SoundStep ==
  ASSUME OnTime, [Next]_vars
  PROVE  Sound'
<1> USE DEF OnTime
<1>1. Nodes' /\ DOMAIN place' = 0..N /\ DOMAIN place = 0..N /\ N \in Nat /\ size \in 0..N
  <2>1. Nodes' /\ size \in 0..N
    BY NodesStep DEF Sound
  <2> QED
    BY <2>1, PlaceDomain, PlaceDomainNext, Sizes
<1>2. ASSUME NEW c \in Conn, Add(c) PROVE Sound'
  <2> DEFINE p == agent[c]
  <2>1. p \in DOMAIN node /\ p \notin Listed /\ p # Null /\ node[p].used
    BY <1>2, AddHeap, ListedNodes DEF Fresh, Null
  <2>2. size' = size + 1 /\ tail' = p /\ size + 1 \in 0..N
    BY <1>2, <2>1, AddHeap, RoomForOne
  <2>3. \A n \in 0..N : place'[n] = IF n < size THEN place[n] ELSE IF n = size THEN p ELSE Null
    BY <1>2, AddChain
  <2>4. \A n \in 0..N : n < size => place[n] \in Listed /\ node[place[n]].used
                                    /\ place[n] \in DOMAIN node /\ place[n] # Null /\ place[n] # p
    <3>1. \A n \in 0..N : n < size => n \in 0..(size - 1)
      BY <1>1
    <3> QED
      BY <2>1, <3>1, SoundChain, ListedNodes DEF Listed
  <2>5. \A n, m \in 0..N : n < size /\ m < size /\ place[n] = place[m] => n = m
    <3>1. \A n \in 0..N : n < size => n \in 0..(size - 1)
      BY <1>1
    <3> QED
      BY <3>1, SoundChain
  <2>6. \A q \in DOMAIN node : node'[q].used = node[q].used
    BY <1>2, AddHeap
  <2> HIDE DEF p
  <2>7. \A n \in 0..N : place'[n] = Null <=> n >= size'
    BY <1>1, <2>1, <2>2, <2>3, <2>4
  <2>8. \A n \in 0..N : n < size' => node'[place'[n]].used
    BY <1>1, <2>1, <2>2, <2>3, <2>4, <2>6
  <2>9. \A n, m \in 0..N : n < size' /\ m < size' /\ place'[n] = place'[m] => n = m
    BY <1>1, <2>2, <2>3, <2>4, <2>5
  <2>10. tail' = place'[size' - 1] /\ size' \in 0..N
    BY <1>1, <2>2, <2>3
  <2> QED
    BY <1>1, <2>7, <2>8, <2>9, <2>10, NextSound DEF SoundParts
<1>3. ASSUME NEW c \in Conn, Remove(c), Matches(c) # {} PROVE Sound'
  <2>1. PICK m : m = FirstMatch(c)
    OBVIOUS
  <2>2. m \in 0..(size - 1) /\ size' = size - 1
    BY <1>3, <2>1, RemoveHeap
  <2>3. \A n \in 0..N : place'[n] = IF n < m THEN place[n] ELSE IF n < N THEN place[n + 1] ELSE Null
    BY <1>3, <2>1, RemoveChain, ZenonT(30)
  <2>4. \A n \in 0..(size - 1) : place[n] \in DOMAIN node /\ node[place[n]].used /\ place[n] # Null
    BY SoundChain, ListedNodes DEF Listed
  <2>5. \A n, k \in 0..(size - 1) : place[n] = place[k] => n = k
    BY SoundChain
  <2>6. \A n \in 0..N : place[n] = Null <=> n >= size
    BY SoundChain
  <2>7. \A q \in DOMAIN node : q # place[m] /\ node[q].used => node'[q].used
    BY <1>3, <2>1, RemoveHeap
  <2>8. \A n \in 0..N : place'[n] = Null <=> n >= size'
    BY <1>1, <2>2, <2>3, <2>6
  <2>9. ASSUME NEW n \in 0..N, n < size'
        PROVE  \E k \in 0..(size - 1) : k # m /\ place'[n] = place[k] /\ k = IF n < m THEN n ELSE n + 1
    BY <1>1, <2>2, <2>3, <2>9
  <2>10. \A n \in 0..N : n < size' => node'[place'[n]].used
    <3> SUFFICES ASSUME NEW n \in 0..N, n < size' PROVE node'[place'[n]].used
      OBVIOUS
    <3>1. PICK k \in 0..(size - 1) : k # m /\ place'[n] = place[k]
      BY <2>9
    <3>2. place[k] # place[m]
      BY <2>2, <2>5, <3>1
    <3> QED
      BY <2>4, <2>7, <3>1, <3>2
  <2>11. \A n, k \in 0..N : n < size' /\ k < size' /\ place'[n] = place'[k] => n = k
    <3> SUFFICES ASSUME NEW n \in 0..N, NEW k \in 0..N, n < size', k < size', place'[n] = place'[k]
                 PROVE  n = k
      OBVIOUS
    <3>1. PICK i \in 0..(size - 1) : place'[n] = place[i] /\ i = IF n < m THEN n ELSE n + 1
      BY <2>9
    <3>2. PICK j \in 0..(size - 1) : place'[k] = place[j] /\ j = IF k < m THEN k ELSE k + 1
      BY <2>9
    <3>3. i = j
      BY <2>5, <3>1, <3>2
    <3> QED
      BY <2>2, <3>1, <3>2, <3>3
  <2>12. size' > 0 => tail' = place'[size' - 1]
    <3> SUFFICES ASSUME size' > 0 PROVE tail' = place'[size' - 1]
      OBVIOUS
    <3>1. size' - 1 \in 0..N /\ size > 0 /\ size' - 1 < N /\ (size' - 1) + 1 = size - 1
      BY <1>1, <2>2
    <3>2. tail = place[size - 1] /\ tail' = (IF m > 0 /\ m = size - 1 THEN place[m - 1] ELSE tail)
      BY <1>3, <2>1, <3>1, RemoveHeap, SoundChain
    <3>3. CASE m = size - 1
      <4>1. size' - 1 = m - 1 /\ m - 1 < m /\ m > 0
        BY <1>1, <2>2, <3>1, <3>3
      <4> QED
        BY <2>3, <3>1, <3>2, <3>3, <4>1
    <3>4. CASE m # size - 1
      <4>1. ~(size' - 1 < m)
        BY <1>1, <2>2, <3>4
      <4> QED
        BY <2>3, <3>1, <3>2, <3>4, <4>1
    <3> QED
      BY <3>3, <3>4
  <2>13. size' \in 0..N
    BY <1>1, <2>2
  <2> QED
    BY <1>1, <2>8, <2>10, <2>11, <2>12, <2>13, NextSound DEF SoundParts
<1>4. CASE (\A c \in Conn : ~ Add(c) /\ ~ Remove(c)) \/ \E c \in Conn : Remove(c) /\ Matches(c) = {}
  <2>1. UNCHANGED list /\ place' = place /\ \A q \in Listed : node'[q].used
    <3>1. CASE \A c \in Conn : ~ Add(c) /\ ~ Remove(c)
      BY <3>1, ListStays
    <3>2. CASE \E c \in Conn : Remove(c) /\ Matches(c) = {}
      <4>1. UNCHANGED <<list, node>>
        BY <3>2 DEF Remove
      <4>2. UNCHANGED head /\ \A q \in Listed : node'[q].next = node[q].next
        BY <4>1 DEF list
      <4>3. \A q \in Listed : node'[q].used
        BY <4>1, SoundChain
      <4> QED
        BY <1>1, <4>1, <4>2, <4>3, ChainKept
    <3> QED
      BY <1>4, <3>1, <3>2
  <2>2. size' = size /\ tail' = tail
    BY <2>1 DEF list
  <2>3. \A n \in 0..N : n < size => n \in 0..(size - 1)
    BY <1>1
  <2>4. /\ \A n \in 0..N : place'[n] = Null <=> n >= size'
        /\ \A n \in 0..N : n < size' => node'[place'[n]].used
        /\ \A n, m \in 0..N : n < size' /\ m < size' /\ place'[n] = place'[m] => n = m
        /\ size' > 0 => tail' = place'[size' - 1]
    BY <2>1, <2>2, <2>3, SoundChain
  <2>5. size' \in 0..N
    BY <1>1, <2>2
  <2> QED
    BY <1>1, <2>2, <2>4, <2>5, NextSound DEF SoundParts
<1> QED
  BY <1>2, <1>3, <1>4

LEMMA HeapGrows ==
  ASSUME Nodes, Threads, [Next]_vars
  PROVE  0..Len(node) \subseteq 0..Len(node') /\ DOMAIN node \subseteq DOMAIN node'
<1>1. /\ DOMAIN node = 1..Len(node) /\ Len(node) \in Nat
      /\ DOMAIN node' = 1..Len(node') /\ Len(node') \in Nat
      /\ DOMAIN node \subseteq DOMAIN node'
  BY NodesStep DEF Nodes
<1>2. Len(node) <= Len(node')
  <2>1. Len(node) # 0 => Len(node) \in 1..Len(node')
    BY <1>1
  <2> QED
    BY <1>1, <2>1
<1> QED
  BY <1>1, <1>2

LEMMA ThreadsStep ==
  ASSUME Nodes, Threads, [Next]_vars
  PROVE  Threads'
<1>1. Started \subseteq Started' /\ 0..Len(node) \subseteq 0..Len(node')
      /\ DOMAIN node \subseteq 1..Len(node) /\ Null \in 0..Len(node)
  BY StartedGrows, HeapGrows DEF Nodes, Null
<1>2. /\ init \in Conn \cup {NoConn} /\ argument \in 0..Len(node')
      /\ agent \in [Conn -> 0..Len(node')]
      /\ reading \in [Conn -> Started' \cup {NoConn}]
      /\ closed \subseteq Conn /\ Null \in 0..Len(node')
      /\ pc \in [Conn -> {"none", "start", "add", "serve", "remove", "done", "broken"}]
  BY <1>1 DEF Threads
<1>3. ASSUME NEW c \in Conn, Accept(c) PROVE Threads'
  <2>1. argument' \in 0..Len(node') /\ argument' # Null
    <3>1. argument' \in DOMAIN node' /\ DOMAIN node' = 1..Len(node') /\ Len(node') \in Nat
      BY <1>3, AcceptHeap, NodesStep DEF Nodes
    <3> QED
      BY <3>1 DEF Null
  <2> QED
    BY <1>2, <1>3, <2>1 DEF Accept, Goto, Threads
<1>4. ASSUME NEW c \in Conn, Start(c) PROVE Threads'
  <2>1. argument # Null
    BY <1>4 DEF Start, Goto, Threads
  <2> QED
    BY <1>2, <1>4, <2>1 DEF Start, Goto, Threads
<1>5. ASSUME NEW c \in Conn, Add(c) PROVE Threads'
  <2>1. node[agent[c]].con_fd \in Started' \cup {NoConn}
    <3>1. node[agent[c]] \in Cell(Started)
      <4>1. agent[c] \in DOMAIN node
        BY <1>5 DEF Add, Goto, Threads, Nodes, Null
      <4> QED
        BY <4>1, StartedNodes
    <3> QED
      BY <1>1, <3>1 DEF Cell
  <2> QED
    BY <1>2, <1>5, <2>1 DEF Add, Goto, Threads
<1>6. ASSUME NEW c \in Conn, Serve(c) PROVE Threads'
  <2>1. node[agent[c]].con_fd \in Started' \cup {NoConn}
    <3>1. agent[c] \in DOMAIN node
      BY <1>6 DEF Serve, Goto, Threads, Nodes, Null
    <3>2. node[agent[c]] \in Cell(Started)
      BY <3>1, StartedNodes
    <3> QED
      BY <1>1, <3>2 DEF Cell
  <2> QED
    BY <1>2, <1>6, <2>1 DEF Serve, Goto, Threads
<1>7. ASSUME NEW c \in Conn, Close(c) PROVE Threads'
  BY <1>2, <1>7 DEF Close, Threads
<1>8. ASSUME NEW c \in Conn, Disconnect(c) PROVE Threads'
  BY <1>2, <1>8 DEF Disconnect, Goto, Threads
<1>9. ASSUME NEW c \in Conn, Remove(c) PROVE Threads'
  BY <1>2, <1>9 DEF Remove, Goto, Threads
<1>10. CASE Return
  BY <1>2, <1>10 DEF Return, Threads
<1>11. ASSUME NEW c \in Conn, Break(c) PROVE Threads'
  BY <1>2, <1>11 DEF Break, Goto, Threads
<1>12. CASE UNCHANGED <<init, argument, pc, agent, reading, closed>>
  BY <1>2, <1>12 DEF Threads
<1> QED
  BY <1>3, <1>4, <1>5, <1>6, <1>7, <1>8, <1>9, <1>10, <1>11, <1>12 DEF Next, vars

\* The query's variables, however late a thread is.
LEMMA AskingStep ==
  ASSUME Typed, [Next]_vars
  PROVE  Asking' /\ late' \in BOOLEAN
<1>1. /\ 0..Len(node) \subseteq 0..Len(node') /\ Null \in 0..Len(node) /\ head \in 0..Len(node)
      /\ asked \in Mac \cup {NoMac} /\ curr \in 0..Len(node)
  BY HeapGrows DEF Typed, Nodes, Linked, Null, Asking
<1>2. curr # Null => node[curr].next \in 0..Len(node)
  <2>1. curr # Null => curr \in DOMAIN node
    BY <1>1 DEF Typed, Nodes, Null
  <2> QED
    BY <2>1, StartedNodes DEF Typed
<1>3. seen' \in BOOLEAN
  <2>1. CASE QueryWaits
    BY <2>1, Zenon DEF QueryWaits
  <2>2. CASE Look \/ AnswerOff
    BY <2>2, Zenon DEF Look, AnswerOff, Asking, Typed
  <2>3. ASSUME NEW m \in Asked, Ask(m) PROVE seen' \in BOOLEAN
    <3>1. seen' = (m \in On)
      BY <2>3 DEF Ask
    <3>2. CASE m \in On
      <4>1. (m \in On) = TRUE
        BY <3>2
      <4> QED
        BY <3>1, <4>1, Zenon
    <3>3. CASE m \notin On
      <4>1. (m \in On) = FALSE
        BY <3>3
      <4> QED
        BY <3>1, <4>1, Zenon
    <3> QED
      BY <3>2, <3>3
  <2>4. CASE UNCHANGED vars
    BY <2>4 DEF vars, Typed, Asking
  <2> QED
    BY <2>1, <2>2, <2>3, <2>4 DEF Next
<1>4. asked' \in Mac \cup {NoMac} /\ curr' \in 0..Len(node)
  <2>1. CASE QueryWaits \/ UNCHANGED vars
    BY <1>1, <2>1 DEF QueryWaits, vars, query
  <2>2. CASE Look \/ AnswerOff
    BY <1>1, <1>2, <2>2 DEF Look, AnswerOff
  <2>3. ASSUME NEW m \in Asked, Ask(m) PROVE asked' \in Mac \cup {NoMac} /\ curr' \in 0..Len(node)
    BY <1>1, <2>3, ConnectionAssumption DEF Ask
  <2> QED
    BY <2>1, <2>2, <2>3 DEF Next
<1>5. curr' \in 0..Len(node')
  BY <1>1, <1>4
<1>6. Asking'
  BY <1>3, <1>4, <1>5, Zenon DEF Asking
<1>7. ASSUME Return PROVE late' \in BOOLEAN
  <2>1. late' = (late \/ pc[init] = "start")
    BY <1>7 DEF Return
  <2> QED
    BY <2>1, Zenon
<1>8. ASSUME UNCHANGED late PROVE late' \in BOOLEAN
  BY <1>8, Zenon DEF Typed
<1>9. Return \/ UNCHANGED late
  BY DEF Next, vars, Accept, Start, Add, Serve, Close, Disconnect, Remove, Break
<1> QED
  BY <1>6, <1>7, <1>8, <1>9

\* While nothing is listed or freed, what is fresh stays so.
LEMMA FreshStays ==
  ASSUME OnTime, [Next]_vars, \A c \in Conn : ~ Add(c), NEW p, Fresh(p)
  PROVE  /\ Fresh(p)'
         /\ (\E c \in Conn : Accept(c)) => p # argument'
<1> USE DEF OnTime
<1>1. p \in DOMAIN node /\ node[p].used /\ p \notin Listed /\ p \in DOMAIN node'
  BY HeapGrows DEF Fresh
<1>2. Listed' \subseteq Listed
  <2>1. CASE \E c \in Conn : Remove(c) /\ Matches(c) # {}
    BY <2>1, RemoveChain
  <2>2. CASE \E c \in Conn : Remove(c) /\ Matches(c) = {}
    <3>1. UNCHANGED <<list, node>>
      BY <2>2 DEF Remove
    <3>2. Nodes' /\ UNCHANGED head /\ \A q \in Listed : node'[q].next = node[q].next
      BY <3>1, NodesStep DEF list
    <3> QED
      BY <3>2, ChainKept
  <2>3. CASE \A c \in Conn : ~ Remove(c)
    BY <2>3, ListStays
  <2> QED
    BY <2>1, <2>2, <2>3
<1>3. ASSUME NEW c \in Conn, Accept(c) PROVE node'[p].used /\ p # argument'
  BY <1>1, <1>3, AcceptHeap
<1>4. ASSUME NEW c \in Conn, Serve(c) PROVE node'[p].used
  BY <1>1, <1>4, ServeHeap
<1>5. ASSUME NEW c \in Conn, Remove(c), Matches(c) # {} PROVE node'[p].used
  <2>1. FirstMatch(c) \in 0..(size - 1) /\ place[FirstMatch(c)] \in Listed
    BY <1>5, FirstMatchIsLeast, FirstMatchFound, SoundChain
  <2> QED
    BY <1>1, <1>5, <2>1, RemoveHeap
<1>6. ASSUME UNCHANGED node PROVE node'[p].used
  BY <1>1, <1>6
<1>7. node'[p].used
  BY <1>3, <1>4, <1>5, <1>6 DEF Next, vars, Start, Close, Disconnect, Return, Break, Remove
<1> QED
  BY <1>1, <1>2, <1>3, <1>7 DEF Fresh

\* Lateness is for good, and begins with the return of agent_thread_init.
LEMMA InTime ==
  ASSUME [Next]_vars, late \in BOOLEAN, ~ late'
  PROVE  ~ late /\ (Return => pc[init] # "start")
<1>1. Return => late' = (late \/ pc[init] = "start")
  BY DEF Return
<1>2. Return \/ UNCHANGED late
  BY DEF Next, vars, Accept, Start, Add, Serve, Close, Disconnect, Remove, Break
<1> QED
  BY <1>1, <1>2, Zenon

LEMMA OwnershipStep ==
  ASSUME OnTime, [Next]_vars, Return => pc[init] # "start"
  PROVE  Ownership'
<1> USE DEF OnTime
<1>1. ASSUME NEW c \in Conn, Add(c) PROVE Ownership'
  <2>1. agent' = agent /\ argument' = argument /\ init' = init
        /\ pc' = [pc EXCEPT ![c] = "serve"] /\ pc[c] = "add"
    BY <1>1 DEF Add, Goto
  <2>2. \A d \in Conn : pc'[d] \in {"add", "start"} => d # c /\ pc[d] = pc'[d]
    BY <2>1 DEF Threads
  <2>3. ASSUME NEW p, Fresh(p), p # agent[c] PROVE Fresh(p)'
    BY <1>1, <2>3, AddHeap, AddChain, HeapGrows DEF Fresh
  <2>4. \A d \in Conn : pc'[d] = "start" => d = init' /\ Fresh(argument')
    BY <1>1, <2>1, <2>2 DEF Ownership
  <2> QED
    BY <1>1, <2>1, <2>2, <2>3 DEF Ownership
<1>2. ASSUME NEW c \in Conn, Accept(c) PROVE Ownership'
  <2>1. agent' = agent /\ init = NoConn /\ init' = c
        /\ pc' = [pc EXCEPT ![c] = "start"] /\ pc[c] = "none"
    BY <1>2 DEF Accept, Goto
  <2>2. \A d \in Conn : pc[d] # "start"
    BY <2>1, ConnectionAssumption DEF Ownership
  <2>3. \A d \in Conn : pc'[d] = "start" => d = c
    BY <2>1, <2>2 DEF Threads
  <2>4. \A d \in Conn : pc'[d] = "add" => d # c /\ pc[d] = "add"
    BY <2>1 DEF Threads
  <2>5. ASSUME NEW p, Fresh(p) PROVE Fresh(p)' /\ p # argument'
    <3>1. \A d \in Conn : ~ Add(d)
      BY <2>1 DEF Add, Goto, Threads
    <3> QED
      BY <1>2, <2>5, <3>1, FreshStays
  <2>6. Fresh(argument)'
    <3>1. \A d \in Conn : ~ Add(d) /\ ~ Remove(d)
      BY <1>2, <2>1 DEF Add, Remove, Goto, Threads
    <3>2. Listed' = Listed
      BY <3>1, ListStays
    <3>3. \A q \in Listed : q \in DOMAIN node /\ node[q].used
      BY SoundChain, ListedNodes
    <3> QED
      BY <1>2, <3>2, <3>3, AcceptHeap DEF Fresh
  <2> QED
    BY <2>1, <2>3, <2>4, <2>5, <2>6 DEF Ownership
<1>3. ASSUME NEW c \in Conn, Start(c) PROVE Ownership'
  <2>1. agent' = [agent EXCEPT ![c] = argument] /\ argument' = argument /\ init' = init
        /\ pc' = [pc EXCEPT ![c] = "add"] /\ pc[c] = "start"
    BY <1>3 DEF Start, Goto
  <2>2. ASSUME NEW p PROVE Fresh(p)' <=> Fresh(p)
    <3>1. \A d \in Conn : ~ Add(d) /\ ~ Remove(d)
      BY <1>3 DEF Start, Add, Remove, Goto, Threads
    <3> QED
      BY <1>3, <3>1, ListStays DEF Fresh, Start
  <2>3. \A d \in Conn : pc'[d] # "start"
    BY <2>1 DEF Threads, Ownership
  <2>4. \A d \in Conn : pc'[d] = "add" => (d = c /\ agent'[d] = argument)
                                          \/ (d # c /\ pc[d] = "add" /\ agent'[d] = agent[d])
    BY <2>1 DEF Threads
  <2>5. \A d \in Conn : pc[d] = "add" => agent[d] # argument
    BY <2>1 DEF Ownership
  <2>6. Fresh(argument)
    BY <2>1 DEF Ownership
  <2> QED
    BY <2>2, <2>3, <2>4, <2>5, <2>6 DEF Ownership
<1>4. CASE Return
  <2>1. \A d \in Conn : pc[d] # "start"
    BY <1>4 DEF Return, Ownership
  <2>2. UNCHANGED <<pc, agent>>
    BY <1>4 DEF Return
  <2>3. ASSUME NEW p, Fresh(p) PROVE Fresh(p)'
    <3>1. \A d \in Conn : ~ Add(d)
      BY <2>2 DEF Add, Goto, Threads
    <3> QED
      BY <2>3, <3>1, FreshStays
  <2> QED
    BY <2>1, <2>2, <2>3 DEF Ownership
<1>5. CASE /\ UNCHANGED <<init, argument>>
           /\ \A d \in Conn : /\ pc'[d] \in {"start", "add"} => pc[d] = pc'[d] /\ agent'[d] = agent[d]
                              /\ ~ Add(d)
  <2>1. ASSUME NEW p, Fresh(p) PROVE Fresh(p)'
    BY <1>5, <2>1, FreshStays
  <2> QED
    BY <1>5, <2>1 DEF Ownership
<1>6. ASSUME NEW c \in Conn, Serve(c) \/ Close(c) \/ Disconnect(c) \/ Remove(c) \/ Break(c)
      PROVE  /\ UNCHANGED <<init, argument>>
             /\ \A d \in Conn : /\ pc'[d] \in {"start", "add"} => pc[d] = pc'[d] /\ agent'[d] = agent[d]
                                /\ ~ Add(d)
  <2>1. CASE Serve(c)
    BY <2>1 DEF Serve, Add, Goto, Threads
  <2>2. CASE Close(c)
    BY <2>2 DEF Close, Add, Goto, Threads
  <2>3. CASE Disconnect(c)
    BY <2>3 DEF Disconnect, Add, Goto, Threads
  <2>4. CASE Remove(c)
    BY <2>4 DEF Remove, Add, Goto, Threads
  <2>5. CASE Break(c)
    BY <2>5 DEF Break, Add, Goto, Threads
  <2> QED
    BY <1>6, <2>1, <2>2, <2>3, <2>4, <2>5
<1>7. CASE UNCHANGED <<init, argument, pc, agent>>
  BY <1>5, <1>7 DEF Add, Goto, Threads
<1> QED
  BY <1>1, <1>2, <1>3, <1>4, <1>5, <1>6, <1>7 DEF Next, vars

\* Who has the node at p: the list or a thread that is about to enter it.
Held(p) ==
  \/ p \in Listed
  \/ \E d \in Conn : pc[d] = "add" /\ agent[d] = p
  \/ \E d \in Conn : pc[d] = "start" /\ argument = p

Used(p) == p \in DOMAIN node /\ node[p].used

LEMMA AllHeldMeans == AllHeld <=> \A p : Used(p) <=> Held(p)
<1>1. {p \in DOMAIN node : node[p].used} = {p \in DOMAIN node : Used(p)}
  BY DEF Used
<1>2. ASSUME NEW p
      PROVE  p \in Listed \cup {agent[c] : c \in {d \in Conn : pc[d] = "add"}}
                          \cup {argument : c \in {d \in Conn : pc[d] = "start"}} <=> Held(p)
  BY DEF Held
<1> QED
  BY <1>1, <1>2 DEF AllHeld, Used

LEMMA AllHeldNext == AllHeld' <=> \A p : Used(p)' <=> Held(p)'
<1>1. (AllHeld <=> \A p : Used(p) <=> Held(p))'
  BY AllHeldMeans, PTL
<1> QED
  BY <1>1

LEMMA AllHeldStep ==
  ASSUME OnTime, [Next]_vars, Return => pc[init] # "start"
  PROVE  AllHeld'
<1> USE DEF OnTime
<1>1. \A p : Used(p) <=> Held(p)
  BY AllHeldMeans
<1>2. ASSUME NEW c \in Conn, Accept(c), NEW p PROVE Used(p)' <=> Held(p)'
  <2>1. agent' = agent /\ init = NoConn /\ pc' = [pc EXCEPT ![c] = "start"] /\ pc[c] = "none"
    BY <1>2 DEF Accept, Goto
  <2>2. \A d \in Conn : pc[d] # "start"
    BY <2>1, ConnectionAssumption DEF Ownership
  <2>3. \A d \in Conn : /\ pc'[d] = "start" <=> d = c
                        /\ pc'[d] = "add" <=> pc[d] = "add"
    BY <2>1, <2>2 DEF Threads
  <2>4. Listed' = Listed
    <3>1. \A d \in Conn : ~ Add(d) /\ ~ Remove(d)
      BY <2>1 DEF Add, Remove, Goto, Threads
    <3> QED
      BY <3>1, ListStays
  <2>5. Used(p)' <=> Used(p) \/ p = argument'
    BY <1>2, AcceptHeap DEF Used
  <2>6. Held(p)' <=> Held(p) \/ p = argument'
    BY <2>1, <2>2, <2>3, <2>4 DEF Held
  <2> QED
    BY <1>1, <2>5, <2>6
<1>3. ASSUME NEW c \in Conn, Add(c), NEW p PROVE Used(p)' <=> Held(p)'
  <2>1. agent' = agent /\ argument' = argument /\ pc' = [pc EXCEPT ![c] = "serve"] /\ pc[c] = "add"
    BY <1>3 DEF Add, Goto
  <2>2. \A d \in Conn : /\ pc'[d] = "start" <=> pc[d] = "start"
                        /\ pc'[d] = "add" <=> pc[d] = "add" /\ d # c
    BY <2>1 DEF Threads
  <2>3. Listed' = Listed \cup {agent[c]}
    BY <1>3, AddChain
  <2>4. Used(p)' <=> Used(p)
    BY <1>3, AddHeap DEF Used
  <2>5. Held(p)' <=> Held(p)
    BY <2>1, <2>2, <2>3 DEF Held
  <2> QED
    BY <1>1, <2>4, <2>5
<1>4. ASSUME NEW c \in Conn, Remove(c), Matches(c) # {}, NEW p PROVE Used(p)' <=> Held(p)'
  <2>1. PICK m : m = FirstMatch(c)
    OBVIOUS
  <2>2. place[m] \in Listed /\ place[m] \in DOMAIN node
    BY <1>4, <2>1, FirstMatchIsLeast, FirstMatchFound, SoundChain, ListedNodes
  <2>3. agent' = [agent EXCEPT ![c] = Null] /\ argument' = argument
        /\ pc' = [pc EXCEPT ![c] = "done"] /\ pc[c] = "remove"
    BY <1>4 DEF Remove, Goto
  <2>4. \A d \in Conn : /\ pc'[d] = "start" <=> pc[d] = "start"
                        /\ pc'[d] = "add" <=> pc[d] = "add"
                        /\ pc[d] = "add" => agent'[d] = agent[d]
    BY <2>3 DEF Threads
  <2>5. Used(p)' <=> Used(p) /\ p # place[m]
    BY <1>4, <2>1, <2>2, RemoveHeap DEF Used
  <2>6. Listed' = Listed \ {place[m]}
    BY <1>4, <2>1, RemoveChain
  <2>7. \A d \in Conn : /\ pc[d] = "add" => agent[d] # place[m]
                        /\ pc[d] = "start" => argument # place[m]
    BY <2>2 DEF Ownership, Fresh
  <2>8. Held(p)' <=> Held(p) /\ p # place[m]
    BY <2>3, <2>4, <2>6, <2>7 DEF Held
  <2> QED
    BY <1>1, <2>5, <2>8
<1>5. ASSUME UNCHANGED <<list, node>>, NEW p PROVE Listed' = Listed /\ (Used(p)' <=> Used(p))
  <2>1. Nodes' /\ UNCHANGED head /\ \A q \in Listed : node'[q].next = node[q].next
    BY <1>5, NodesStep DEF list
  <2> QED
    BY <1>5, <2>1, ChainKept DEF Used
<1>6. ASSUME NEW c \in Conn, Start(c), NEW p PROVE Used(p)' <=> Held(p)'
  <2>1. agent' = [agent EXCEPT ![c] = argument] /\ argument' = argument
        /\ pc' = [pc EXCEPT ![c] = "add"] /\ pc[c] = "start"
    BY <1>6 DEF Start, Goto
  <2>2. \A d \in Conn : /\ pc[d] = "start" <=> d = c
                        /\ pc'[d] # "start"
                        /\ pc'[d] = "add" <=> d = c \/ pc[d] = "add"
                        /\ d # c => agent'[d] = agent[d]
    BY <2>1 DEF Threads, Ownership
  <2>3. agent'[c] = argument /\ pc[c] # "add"
    BY <2>1 DEF Threads
  <2>4. Listed' = Listed /\ (Used(p)' <=> Used(p))
    BY <1>5, <1>6 DEF Start
  <2>5. Held(p)' <=> Held(p)
    BY <2>1, <2>2, <2>3, <2>4 DEF Held
  <2> QED
    BY <1>1, <2>4, <2>5
<1>7. ASSUME Return, NEW p PROVE Used(p)' <=> Held(p)'
  <2>1. \A d \in Conn : pc[d] # "start"
    BY <1>7 DEF Return, Ownership
  <2>2. Listed' = Listed /\ (Used(p)' <=> Used(p))
    BY <1>5, <1>7 DEF Return
  <2>3. Held(p)' <=> Held(p)
    BY <1>7, <2>1, <2>2 DEF Held, Return
  <2> QED
    BY <1>1, <2>2, <2>3
<1>8. ASSUME NEW c \in Conn, Serve(c), NEW p PROVE Used(p)' <=> Held(p)'
  <2>1. UNCHANGED <<agent, argument, pc>>
    BY <1>8 DEF Serve, Goto, Threads
  <2>2. Listed' = Listed
    <3>1. \A d \in Conn : ~ Add(d) /\ ~ Remove(d)
      BY <2>1 DEF Add, Remove, Goto, Threads
    <3> QED
      BY <3>1, ListStays
  <2>3. Used(p)' <=> Used(p)
    BY <1>8, ServeHeap DEF Used
  <2> QED
    BY <1>1, <2>1, <2>2, <2>3 DEF Held
<1>9. ASSUME NEW c \in Conn, Disconnect(c) \/ Break(c) \/ (Remove(c) /\ Matches(c) = {}), NEW p
      PROVE  Used(p)' <=> Held(p)'
  <2>1. UNCHANGED <<list, node>>
    BY <1>9 DEF Disconnect, Break, Remove
  <2>2. argument' = argument
        /\ \A d \in Conn : /\ pc'[d] = "start" <=> pc[d] = "start"
                           /\ pc'[d] = "add" <=> pc[d] = "add"
                           /\ pc[d] = "add" => agent'[d] = agent[d]
    BY <1>9 DEF Disconnect, Break, Remove, Goto, Threads
  <2>3. Held(p)' <=> Held(p)
    BY <1>5, <2>1, <2>2 DEF Held
  <2> QED
    BY <1>1, <1>5, <2>1, <2>3
<1>10. ASSUME UNCHANGED <<list, node, argument, pc, agent>>, NEW p PROVE Used(p)' <=> Held(p)'
  BY <1>1, <1>5, <1>10 DEF Held
<1>11. UNCHANGED <<list, node, argument, pc, agent>> \/ Return
       \/ \E c \in Conn : \/ Accept(c) \/ Add(c) \/ Start(c) \/ Serve(c) \/ Disconnect(c)
                          \/ Remove(c) \/ Break(c)
  BY DEF Next, vars, Close
<1>12. \A p : Used(p)' <=> Held(p)'
  BY <1>2, <1>3, <1>4, <1>6, <1>7, <1>8, <1>9, <1>10, <1>11
<1> QED
  BY <1>12, AllHeldNext

-----------------------------------------------------------------------------
(* The query *)

\* A step that writes no mac but one that is on, and no link that leads out
\* of the nodes the query can meet, leaves the query explained.
LEMMA QueryKept ==
  ASSUME OnTime, [Next]_vars, QueryWaits,
         NEW W \in SUBSET (DOMAIN node), asked # NoMac, curr \in W \cup {Null},
         NEW V \in SUBSET (DOMAIN node'), W \subseteq V,
         \A q \in V : node'[q].next \in V \cup {Null},
         \A q \in V : node'[q].mac = asked => (q \in W /\ node[q].mac = asked) \/ asked \in On',
         Explains(W)
  PROVE  Query'
<1> USE DEF OnTime
<1>1. asked' = asked /\ curr' = curr
  BY DEF QueryWaits, query
<1>2. seen' \in BOOLEAN
  BY Zenon DEF QueryWaits
<1>3. asked \in Mac \cup {NoMac} /\ curr' \in 0..Len(node')
  BY <1>1, HeapGrows DEF Query, Asking
<1>4. seen \/ asked \in On' => seen'
  BY Zenon DEF QueryWaits
<1>5. \A q \in V : node'[q].mac = asked' => seen'
  BY <1>1, <1>4 DEF Explains
<1>6. Explains(V)' /\ curr' \in V \cup {Null}
  BY <1>1, <1>5 DEF Explains
<1> QED
  BY <1>1, <1>2, <1>3, <1>6 DEF Query, Asking

\* A query that has not begun needs no explanation.
LEMMA NoQuery ==
  ASSUME OnTime, [Next]_vars, QueryWaits, asked = NoMac
  PROVE  Query'
<1> USE DEF OnTime
<1>1. asked' = asked /\ curr' = curr /\ seen' \in BOOLEAN
  BY Zenon DEF QueryWaits, query
<1>2. curr' \in 0..Len(node')
  BY <1>1, HeapGrows DEF Query, Asking
<1> QED
  BY <1>1, <1>2 DEF Query, Asking

LEMMA QueryStep ==
  ASSUME OnTime, [Next]_vars
  PROVE  Query'
<1> USE DEF OnTime
<1>1. ASSUME NEW m \in Asked, Ask(m), UNCHANGED <<list, node>> PROVE Query'
  <2>1. m \in Mac \cup {NoMac} /\ asked' = m /\ curr' = head
    BY <1>1, ConnectionAssumption DEF Ask
  <2>2. seen' \in BOOLEAN
    <3>1. seen' = (m \in On)
      BY <1>1 DEF Ask
    <3>2. CASE m \in On
      <4>1. (m \in On) = TRUE
        BY <3>2
      <4> QED
        BY <3>1, <4>1, Zenon
    <3>3. CASE m \notin On
      <4>1. (m \in On) = FALSE
        BY <3>3
      <4> QED
        BY <3>1, <4>1, Zenon
    <3> QED
      BY <3>2, <3>3
  <2>3. node' = node /\ curr' \in 0..Len(node)
    BY <1>1, <2>1 DEF Nodes, Linked
  <2>4. \A q \in Listed : node[q].next \in Listed \cup {Null}
    <3> SUFFICES ASSUME NEW q \in Listed PROVE node[q].next \in Listed \cup {Null}
      OBVIOUS
    <3>1. PICK n \in 0..(size - 1) : q = place[n]
      BY SoundChain
    <3>2. n + 1 \in 0..N /\ node[q].next = place[n + 1]
      BY <3>1, SoundChain
    <3> QED
      BY <3>2, ListedNodes
  <2>5. \A q \in Listed : node[q].mac = m => seen'
    <3>1. \A q \in Listed : node[q].mac = m => m \in On
      BY DEF On
    <3> QED
      BY <1>1, <3>1, Zenon DEF Ask
  <2>6. head \in Listed \cup {Null}
    <3>1. head = place[0] /\ 0 \in 0..N
      BY ChainFollows, Sizes DEF FollowsLinks
    <3> QED
      BY <3>1, ListedNodes
  <2>7. \E W \in SUBSET (DOMAIN node') : Explains(W)' /\ curr' \in W \cup {Null}
    <3>1. PICK W : W = Listed
      OBVIOUS
    <3>2. Explains(W)'
      BY <2>1, <2>3, <2>4, <2>5, <3>1 DEF Explains
    <3>3. W \in SUBSET (DOMAIN node')
      BY <2>3, <3>1, ListedNodes
    <3> QED
      BY <2>1, <2>6, <3>1, <3>2, <3>3
  <2> QED
    BY <2>1, <2>2, <2>3, <2>7 DEF Query, Asking
<1>2. CASE AnswerOff /\ UNCHANGED node
  <2>1. seen' \in BOOLEAN
    BY <1>2, Zenon DEF AnswerOff
  <2>2. asked' = NoMac /\ curr' \in 0..Len(node')
    BY <1>2, HeapGrows DEF AnswerOff, Nodes, Null
  <2> QED
    BY <2>1, <2>2 DEF Query, Asking
<1>3. CASE Look /\ UNCHANGED node
  <2>1. curr \in DOMAIN node /\ asked # NoMac
    BY <1>3 DEF Look, Query, Asking, Nodes, Null
  <2>2. CASE node[curr].mac = asked
    <3>1. seen' \in BOOLEAN
      BY <1>3, <2>2, Zenon DEF Look
    <3>2. asked' = NoMac /\ curr' \in 0..Len(node')
      BY <1>3, <2>2, HeapGrows DEF Look, Nodes, Null
    <3> QED
      BY <3>1, <3>2 DEF Query, Asking
  <2>3. CASE node[curr].mac # asked
    <3>1. asked' = asked /\ curr' = node[curr].next /\ seen' = seen /\ node' = node
      BY <1>3, <2>3 DEF Look
    <3>2. PICK W \in SUBSET (DOMAIN node) : Explains(W) /\ curr \in W \cup {Null}
      BY <2>1 DEF Query, Asking
    <3>3. curr' \in W \cup {Null}
      BY <1>3, <3>1, <3>2 DEF Explains, Look
    <3>4. Explains(W)'
      BY <3>1, <3>2 DEF Explains
    <3>5. curr' \in 0..Len(node')
      BY <2>1, <3>1, StartedNodes
    <3> QED
      BY <3>1, <3>2, <3>3, <3>4, <3>5 DEF Query, Asking
  <2> QED
    BY <2>2, <2>3
<1>4. ASSUME QueryWaits PROVE Query'
  <2>1. CASE asked = NoMac
    BY <1>4, <2>1, NoQuery
  <2>2. ASSUME asked # NoMac PROVE Query'
    <3>1. PICK W \in SUBSET (DOMAIN node) : Explains(W) /\ curr \in W \cup {Null}
      BY <2>2 DEF Query, Asking
    <3>2. W \in SUBSET (DOMAIN node') /\ \A q \in W : node[q].next \in W \cup {Null}
      BY <3>1, HeapGrows DEF Explains
    <3>3. ASSUME NEW c \in Conn, Accept(c) PROVE Query'
      <4>1. \A q \in W : node'[q].next \in W \cup {Null}
        BY <3>2, <3>3, AcceptHeap
      <4>2. \A q \in W : node'[q].mac = asked => q \in W /\ node[q].mac = asked
        BY <2>2, <3>3, AcceptHeap
      <4> QED
        BY <1>4, <2>2, <3>1, <3>2, <4>1, <4>2, QueryKept
    <3>4. ASSUME NEW c \in Conn, Add(c) PROVE Query'
      <4> DEFINE V == W \cup {agent[c]}
      <4>1. agent[c] \in DOMAIN node /\ V \in SUBSET (DOMAIN node')
        BY <3>2, <3>4, AddHeap DEF Fresh
      <4>2. \A q \in V : node'[q].next \in V \cup {Null}
        BY <3>2, <3>4, <4>1, AddHeap
      <4>3. \A q \in V : node'[q].mac = asked => (q \in W /\ node[q].mac = asked) \/ asked \in On'
        <5>1. agent[c] \in Listed'
          BY <3>4, AddChain
        <5>2. node'[agent[c]].mac \in On'
          BY <5>1 DEF On
        <5> QED
          BY <3>1, <3>4, <5>2, AddHeap
      <4> HIDE DEF V
      <4>4. W \subseteq V
        BY DEF V
      <4> QED
        BY <1>4, <2>2, <3>1, <4>1, <4>2, <4>3, <4>4, QueryKept
    <3>5. ASSUME NEW c \in Conn, Serve(c) PROVE Query'
      <4>1. \A q \in W : node'[q].next \in W \cup {Null}
        BY <3>2, <3>5, ServeHeap
      <4>2. MacOf[reading[c]] \in On'
        <5>1. reading[c] \in Conn /\ pc'[reading[c]] # "none" /\ reading[c] \notin closed'
          BY <3>5, ServeHeap, StartedGrows DEF Started, Serve
        <5> QED
          BY <5>1 DEF On, Connected
      <4>3. \A q \in W : node'[q].mac = asked => (q \in W /\ node[q].mac = asked) \/ asked \in On'
        BY <3>5, <4>2, ServeHeap
      <4> QED
        BY <1>4, <2>2, <3>1, <3>2, <4>1, <4>3, QueryKept
    <3>6. ASSUME NEW c \in Conn, Remove(c), Matches(c) # {} PROVE Query'
      <4>1. PICK m : m = FirstMatch(c)
        OBVIOUS
      <4>2. m \in 0..(size - 1) /\ node[place[m]].next = place[m + 1]
        BY <3>6, <4>1, FirstMatchIsLeast, FirstMatchFound, SoundChain
      <4>3. m > 0 => node[place[m - 1]].next = place[m] /\ place[m] # Null
        <5>1. m > 0 => m - 1 \in 0..(size - 1) /\ (m - 1) + 1 = m
          BY <4>2 DEF Sound
        <5>2. m > 0 => node[place[m - 1]].next = place[m]
          BY <5>1, SoundChain
        <5>3. place[m] # Null
          BY <4>2, SoundChain DEF Listed
        <5> QED
          BY <5>2, <5>3
      <4>4. \A q \in W : node'[q].next \in W \cup {Null}
        BY <3>2, <3>6, <4>1, <4>2, <4>3, RemoveHeap
      <4>5. \A q \in W : node'[q].mac = asked => q \in W /\ node[q].mac = asked
        BY <3>6, <4>1, RemoveHeap
      <4> QED
        BY <1>4, <2>2, <3>1, <3>2, <4>4, <4>5, QueryKept
    <3>7. CASE UNCHANGED node
      <4>1. /\ \A q \in W : node'[q].next \in W \cup {Null}
            /\ \A q \in W : node'[q].mac = asked => q \in W /\ node[q].mac = asked
        BY <3>2, <3>7
      <4> QED
        BY <1>4, <2>2, <3>1, <3>2, <4>1, QueryKept
    <3>8. (\E c \in Conn : Accept(c)) \/ (\E c \in Conn : Add(c)) \/ (\E c \in Conn : Serve(c))
          \/ (\E c \in Conn : Remove(c) /\ Matches(c) # {}) \/ UNCHANGED node
      BY DEF Next, vars, Start, Close, Disconnect, Return, Break, Remove
    <3> QED
      BY <3>3, <3>4, <3>5, <3>6, <3>7, <3>8
  <2> QED
    BY <2>1, <2>2
<1>5. CASE UNCHANGED vars
  BY <1>5 DEF vars, query, Query, Asking, Explains
<1> QED
  BY <1>1, <1>2, <1>3, <1>4, <1>5 DEF Next

-----------------------------------------------------------------------------
(* Theorems *)

\* The invariant holds in every state, whatever the threads, the agents and
\* the query do.
THEOREM ConnectionsInvariant == Spec => []ConnectionsInv
<1>1. Init => ConnectionsInv
  BY InitInv
<1>2. ConnectionsInv /\ [Next]_vars => ConnectionsInv'
  <2> SUFFICES ASSUME ConnectionsInv, [Next]_vars PROVE ConnectionsInv'
    OBVIOUS
  <2>1. Typed'
    BY NodesStep, ThreadsStep, AskingStep DEF ConnectionsInv, Typed
  <2>2. ASSUME ~ late' PROVE OnTime'
    <3>1. OnTime /\ (Return => pc[init] # "start")
      BY <2>2, InTime DEF ConnectionsInv, Typed
    <3>2. Nodes' /\ Threads'
      BY <2>1 DEF Typed
    <3> QED
      BY <3>1, <3>2, SoundStep, OwnershipStep, AllHeldStep, QueryStep DEF OnTime
  <2> QED
    BY <2>1, <2>2 DEF ConnectionsInv
<1> QED
  BY <1>1, <1>2, PTL DEF Spec

\* The variables of agentHandler.h and of the threads keep their types,
\* however late a thread is: no more agent_t are allocated than connections
\* were accepted, and no link, nor any pointer a thread or the query keeps,
\* leaves them.
THEOREM TypesHold == Spec => []TypeOK
<1>1. ConnectionsInv => TypeOK
  <2> SUFFICES ASSUME ConnectionsInv PROVE TypeOK
    OBVIOUS
  <2> USE DEF ConnectionsInv, Typed
  <2>1. /\ Len(node) \in Nat /\ Len(node) <= Cardinality(Conn) /\ Cardinality(Conn) \in Nat
        /\ DOMAIN node = 1..Len(node)
    BY StartedBounds, Sizes DEF Nodes, N
  <2>2. 0..Len(node) \subseteq Address \cup {Null}
    BY <2>1 DEF Address, Null
  <2>3. node \in Seq([used : BOOLEAN, next : Address \cup {Null},
                     mac : Mac \cup {NoMac}, con_fd : Conn \cup {NoConn}])
    <3>1. ASSUME NEW p \in DOMAIN node
          PROVE  node[p] \in [used : BOOLEAN, next : Address \cup {Null},
                              mac : Mac \cup {NoMac}, con_fd : Conn \cup {NoConn}]
      <4>1. node[p] \in Cell(Started) /\ node[p].next \in Address \cup {Null} /\ Started \subseteq Conn
        BY <2>2, StartedNodes DEF Started
      <4> QED
        BY <4>1 DEF Cell
    <3>2. node \in Seq(Cell(Started)) /\ node = [p \in DOMAIN node |-> node[p]]
      BY DEF Nodes
    <3> QED
      BY <3>1, <3>2, SequenceUpdated
  <2>4. size \in IF late THEN Int ELSE Nat
    <3>1. size \in Int
      BY DEF Nodes
    <3>2. ~ late => size \in Nat
      BY Sizes DEF OnTime, Sound
    <3> QED
      BY <3>1, <3>2
  <2>5. /\ head \in Address \cup {Null} /\ tail \in Address \cup {Null}
        /\ argument \in Address \cup {Null} /\ curr \in Address \cup {Null}
        /\ agent \in [Conn -> Address \cup {Null}]
    <3>1. head \in 0..Len(node) /\ tail \in 0..Len(node)
      BY DEF Nodes, Linked
    <3>2. argument \in 0..Len(node) /\ agent \in [Conn -> 0..Len(node)]
      BY DEF Threads
    <3>3. curr \in 0..Len(node)
      BY DEF Asking
    <3> HIDE DEF ConnectionsInv
    <3> QED
      BY <2>2, <3>1, <3>2, <3>3
  <2>6. reading \in [Conn -> Conn \cup {NoConn}]
    BY DEF Threads, Started
  <2> QED
    BY <2>1, <2>3, <2>4, <2>5, <2>6 DEF TypeOK, Threads, Asking
<1> QED
  BY <1>1, ConnectionsInvariant, PTL

\* Until a thread is late, add_new_agent_connection and
\* remove_agent_connection keep the chain, its ends and its counted size
\* consistent.
THEOREM ChainStaysSound == Spec => []ListIsSound
<1>1. ConnectionsInv => ListIsSound
  BY DEF ConnectionsInv, OnTime, Sound, ListIsSound
<1> QED
  BY <1>1, ConnectionsInvariant, PTL

\* Until a thread is late, every agent_t that is allocated is in the list or
\* with the thread that is about to enter it, although threads free each
\* other's.
THEOREM NoNodeIsLost == Spec => []NothingIsLost
<1>1. ConnectionsInv => NothingIsLost
  BY DEF ConnectionsInv, OnTime, NothingIsLost
<1> QED
  BY <1>1, ConnectionsInvariant, PTL

\* Only where a thread was late can a disconnect free a node twice or search
\* the chain for ever.
THEOREM RemovalsEnd == Spec => []OnlyLateThreadsBreak
<1>1. Init => OnlyLateThreadsBreak
  BY DEF Init, OnlyLateThreadsBreak
<1>2. ConnectionsInv /\ OnlyLateThreadsBreak /\ [Next]_vars => OnlyLateThreadsBreak'
  <2> SUFFICES ASSUME ConnectionsInv, OnlyLateThreadsBreak, [Next]_vars, ~ late',
                      NEW c \in Conn, pc'[c] = "broken"
               PROVE  FALSE
    BY DEF OnlyLateThreadsBreak
  <2>1. ~ late /\ OnTime /\ Threads
    BY InTime DEF ConnectionsInv, Typed
  <2>2. pc[c] # "broken"
    BY <2>1 DEF OnlyLateThreadsBreak
  <2>3. Break(c)
    BY <2>1, <2>2 DEF Next, vars, Accept, Start, Add, Serve, Close, Disconnect, Remove, Break,
                      Return, Goto, Threads
  <2>4. Nodes /\ Sound /\ Breaks(c)
    BY <2>1, <2>3 DEF OnTime, Break
  <2>5. CASE Matches(c) = {}
    <3>1. place[N] = Null
      BY <2>4, SoundChain, Sizes DEF Sound
    <3>2. N \in DOMAIN place
      BY <2>4, PlaceDomain, Sizes
    <3> QED
      BY <2>4, <2>5, <3>1, <3>2 DEF Breaks
  <2>6. CASE Matches(c) # {}
    <3>1. node[place[FirstMatch(c)]].used
      BY <2>4, <2>6, FirstMatchFound, SoundChain
    <3> QED
      BY <2>4, <2>6, <3>1 DEF Breaks
  <2> QED
    BY <2>5, <2>6
<1> QED
  BY <1>1, <1>2, ConnectionsInvariant, PTL DEF Spec

\* Until a thread is late, check_status, which walks the chain without its
\* lock, finds the mac it was asked about only if it was on at some moment of
\* the query.
THEOREM OnAnswersAreFounded == Spec => []OnIsFounded
<1>1. ConnectionsInv => OnIsFounded
  <2> SUFFICES ASSUME ConnectionsInv, ~ late, asked # NoMac, curr # Null, node[curr].mac = asked
               PROVE  seen
    BY DEF OnIsFounded
  <2>1. PICK W \in SUBSET (DOMAIN node) : Explains(W) /\ curr \in W \cup {Null}
    BY DEF ConnectionsInv, OnTime, Query
  <2> QED
    BY <2>1 DEF Explains
<1> QED
  BY <1>1, ConnectionsInvariant, PTL

\* As long as no thread was late, a disconnect takes the first node with the
\* agent's mac out of the list, at most that one, and leaves the others in
\* their order.
FirstNamesakeLeaves ==
  [][\A c \in Conn : ~ late /\ pc[c] = "remove" /\ pc'[c] = "done" =>
       \A n \in DOMAIN place :
         place'[n] = IF \A k \in Matches(c) : n < k
                     THEN place[n]
                     ELSE IF n + 1 \in DOMAIN place THEN place[n + 1] ELSE Null]_vars

\* remove_agent_connection takes the first node with the agent's mac out of
\* the chain, and no other, until a thread is late.
THEOREM OnlyFirstNamesakeLeaves == Spec => FirstNamesakeLeaves
<1> DEFINE After(c, n) == IF \A k \in Matches(c) : n < k
                          THEN place[n]
                          ELSE IF n + 1 \in DOMAIN place THEN place[n + 1] ELSE Null
           Leaves == \A c \in Conn : ~ late /\ pc[c] = "remove" /\ pc'[c] = "done" =>
                       \A n \in DOMAIN place : place'[n] = After(c, n)
<1>1. ConnectionsInv /\ [Next]_vars => Leaves
  <2> SUFFICES ASSUME ConnectionsInv, [Next]_vars, ~ late,
                      NEW c \in Conn, pc[c] = "remove", pc'[c] = "done",
                      NEW n \in DOMAIN place
               PROVE  place'[n] = After(c, n)
    OBVIOUS
  <2> USE DEF ConnectionsInv, OnTime
  <2>1. Remove(c)
    BY DEF Next, vars, Accept, Start, Add, Serve, Close, Disconnect, Remove, Break, Return, Goto,
           Threads
  <2>2. DOMAIN place = 0..N /\ N \in Nat /\ n \in 0..N
    BY PlaceDomain, Sizes
  <2>3. CASE Matches(c) = {}
    <3>1. UNCHANGED <<list, node>>
      BY <2>1, <2>3 DEF Remove
    <3>2. Nodes' /\ UNCHANGED head /\ \A q \in Listed : node'[q].next = node[q].next
      BY <3>1, NodesStep DEF list
    <3>3. place' = place
      BY <3>2, ChainKept
    <3> QED
      BY <2>3, <3>3
  <2>4. CASE Matches(c) # {}
    <3>1. PICK m : m = FirstMatch(c)
      OBVIOUS
    <3>2. m \in Matches(c) /\ m \in Nat /\ \A k \in Matches(c) : m <= k /\ k \in Nat
      <4>1. Matches(c) \subseteq Nat
        BY <2>4, FirstMatchIsLeast
      <4>2. m \in Matches(c) /\ \A k \in Matches(c) : m <= k
        BY <2>4, <3>1, FirstMatchIsLeast
      <4> QED
        BY <4>1, <4>2
    <3>3. (\A k \in Matches(c) : n < k) <=> n < m
      BY <2>2, <3>2
    <3>4. place'[n] = IF n < m THEN place[n] ELSE IF n < N THEN place[n + 1] ELSE Null
      BY <2>1, <2>2, <2>4, <3>1, RemoveChain
    <3> QED
      BY <2>2, <3>3, <3>4
  <2> QED
    BY <2>3, <2>4
<1>2. ConnectionsInv /\ [Next]_vars => [Leaves]_vars
  BY <1>1
<1> QED
  BY <1>2, ConnectionsInvariant, PTL DEF Spec, FirstNamesakeLeaves
=============================================================================
