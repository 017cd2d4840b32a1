----------------------------- MODULE ParamList -----------------------------
(***************************************************************************)
(* The list every parameter passes through: a chain with an iterator inside *)
(* that starts over after each full round.  The code has it three times, as *)
(* paramList_t (utils/configure.h) and as param_slist_t and param_s_t       *)
(* (utils/param_reader.h).  Constant-level: the operations are functions    *)
(* from a list to a list.  An index stands for a pointer into the chain.    *)
(***************************************************************************)
EXTENDS Naturals, Sequences

NullPosition == 0

EmptyList == [items |-> <<>>, size |-> 0, position |-> NullPosition, counter |-> 0]

\* The first item becomes the position; later ones leave it alone.
AddItem(l, item) ==
  [items |-> Append(l.items, item), size |-> l.size + 1,
   position |-> IF l.size = 0 THEN 1 ELSE l.position, counter |-> l.counter]

\* Slip: a round ends one item early.
HasNextShort(l) == l.position # NullPosition /\ l.counter + 1 # l.size

\* The next call of next_param (next_param_s, next_val) returns an item.
HasNext(l) == l.position # NullPosition /\ l.counter # l.size

NextItem(l) == l.items[l.position]

\* Slip: the items of the round are not counted.
AfterNextUncounted(l) ==
  IF HasNext(l) THEN [l EXCEPT !.position = IF @ = Len(l.items) THEN 1 ELSE @ + 1] ELSE l

\* The call's effect: the position moves on and past the tail returns to the
\* head; the call that finds the round complete returns NULL and only resets
\* the counter.
AfterNext(l) ==
  IF HasNext(l)
  THEN [l EXCEPT !.position = IF @ = Len(l.items) THEN 1 ELSE @ + 1,
                 !.counter  = @ + 1]
  ELSE IF l.position = NullPosition THEN l ELSE [l EXCEPT !.counter = 0]

\* A list that was filled with these items and not iterated over yet.
Filled(items) ==
  [items |-> items, size |-> Len(items),
   position |-> IF items = <<>> THEN NullPosition ELSE 1, counter |-> 0]
=============================================================================
