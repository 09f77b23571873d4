------------------------------- MODULE MCTransfer -------------------------------
(* One client and its copy; other clients with every range, and with every       *)
(* combination of validators for a few ranges.                                   *)
EXTENDS Transfer

Ask(head, range, ifRange, ifNoneMatch) ==
  [head |-> head, range |-> range, ifRange |-> ifRange, ifNoneMatch |-> ifNoneMatch]
Bounded(first, last) ==
  [unit |-> "bytes", several |-> FALSE, first |-> first, last |-> last]

MCTimes == {-1, 1, 2}
MCValidators ==
  {None, Garbage, Unreadable, [tag |-> <<0, 1>>], [tag |-> <<1, 2>>], [second |-> 1]}
MCOthers ==
  {Ask(FALSE, range, None, None) : range \in Specs \cup {None, Garbage}}
  \cup {Ask(head, range, ifRange, held) :
          head \in BOOLEAN, range \in {None, Bounded(1, Empty), Bounded(0, 0), Bounded(2, 2)},
          ifRange \in MCValidators, held \in {None, {AnyTag}, {<<0, 1>>, <<1, 2>>}}}
================================================================================
