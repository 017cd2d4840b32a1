----------------------------- MODULE AgentTable -----------------------------
(***************************************************************************)
(* The agent's table of beacons (list_t of btagent's blist.h): for each      *)
(* beacon heard, its strongest reading of the last tenth of a second, kept   *)
(* back until that tenth is over.  Constant-level: insert as a function of   *)
(* the table, with the message it makes.  Of the strength only the comparison *)
(* with the reading held is kept.                                            *)
(***************************************************************************)
EXTENDS Integers, Sequences

\* set_beacon.  due: more than 100 ms have passed since startime; flag: the
\* reading went into a message while another beacon was heard.
NewNode(mac) == [mac |-> mac, due |-> FALSE, flag |-> FALSE]

\* Whether insert puts the node into the message when mac is heard: any other
\* beacon's when it is due, sent before or not; its own unless it was sent.
Reported(node, mac) == node.due /\ (node.mac # mac \/ ~ node.flag)

\* Slip: the flag of a reading that was sent stays with the next one.
HeardKeepsFlag(node, late) == IF node.due THEN [node EXCEPT !.due = ~ late] ELSE node

\* The node of the beacon that is heard.  startime moves in steps of 100 s, so
\* a node that was due stays so, except after a silence of that length (late).
Heard(node, late) ==
  IF node.due THEN [node EXCEPT !.flag = FALSE, !.due = ~ late] ELSE node

\* Whether the reading held is replaced by the one heard.
Replaced(node, stronger) == node.due \/ stronger

\* The node of another beacon.
Passed(node) == IF node.due THEN [node EXCEPT !.flag = TRUE] ELSE node

\* insert: the table after mac was heard.
Inserted(table, mac, late) ==
  LET nodes == [n \in DOMAIN table |-> IF table[n].mac = mac
                                       THEN Heard(table[n], late)
                                       ELSE Passed(table[n])]
  IN  IF \E n \in DOMAIN table : table[n].mac = mac
      THEN nodes ELSE Append(nodes, NewNode(mac))

\* The beacons of the message insert makes.
MessageOf(table, mac) ==
  {table[n].mac : n \in {k \in DOMAIN table : Reported(table[k], mac)}}
=============================================================================
