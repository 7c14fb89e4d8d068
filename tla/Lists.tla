-------------------------------- MODULE Lists --------------------------------
(***************************************************************************)
(* The singly linked lists of threads/list.cc: first, last, and a cell for *)
(* each ListElement in use, by address.  List::Remove is SortedRemove.     *)
(***************************************************************************)
EXTENDS Integers, Sequences, FiniteSets

NULL == 0
NewList == [first |-> NULL, last |-> NULL, cell |-> <<>>]

IsEmpty(l) == l.first = NULL

\* The address that new ListElement gets.
NewElement(l) ==
  CHOOSE e \in 1 .. Cardinality(DOMAIN l.cell) + 1 :
    /\ e \notin DOMAIN l.cell
    /\ \A d \in 1 .. e - 1 : d \in DOMAIN l.cell

\* The cells with a new one at e, that p points to if it is an address.
Link(l, p, e, item, sortKey, next) ==
  [a \in DOMAIN l.cell \cup {e} |->
     IF a = e THEN [item |-> item, key |-> sortKey, next |-> next]
     ELSE IF a = p THEN [l.cell[a] EXCEPT !.next = e]
     ELSE l.cell[a]]

AtFront(l, item, sortKey) ==
  LET e == NewElement(l)
  IN  [first |-> e, last |-> IF IsEmpty(l) THEN e ELSE l.last,
       cell |-> Link(l, NULL, e, item, sortKey, l.first)]

AtEnd(l, item, sortKey) ==
  LET e == NewElement(l)
  IN  [first |-> IF IsEmpty(l) THEN e ELSE l.first, last |-> e,
       cell |-> Link(l, l.last, e, item, sortKey, NULL)]

ListAppend(l, item) == AtEnd(l, item, 0)

\* Fault: the element goes in front of the first bigger one, of which the
\* element before is not told.
SortedInsert_NoRelink(l, item, sortKey) ==
  LET place[p \in DOMAIN l.cell] ==
        IF l.cell[p].next = NULL \/ sortKey < l.cell[l.cell[p].next].key
        THEN p ELSE place[l.cell[p].next]
      at == place[l.first]
  IN  IF IsEmpty(l) \/ sortKey < l.cell[l.first].key THEN AtFront(l, item, sortKey)
      ELSE IF l.cell[at].next = NULL THEN AtEnd(l, item, sortKey)
      ELSE [l EXCEPT !.cell = Link(l, NULL, NewElement(l), item, sortKey,
                                   l.cell[at].next)]

\* Behind the elements with a key that is not bigger.
SortedInsert(l, item, sortKey) ==
  LET place[p \in DOMAIN l.cell] ==
        IF l.cell[p].next = NULL \/ sortKey < l.cell[l.cell[p].next].key
        THEN p ELSE place[l.cell[p].next]
      at == place[l.first]
  IN  IF IsEmpty(l) \/ sortKey < l.cell[l.first].key THEN AtFront(l, item, sortKey)
      ELSE IF l.cell[at].next = NULL THEN AtEnd(l, item, sortKey)
      ELSE [l EXCEPT !.cell = Link(l, at, NewElement(l), item, sortKey,
                                   l.cell[at].next)]

\* The list without its first element, which is not empty.
SortedRemove(l) ==
  LET rest == DOMAIN l.cell \ {l.first}
  IN  [first |-> IF l.first = l.last THEN NULL ELSE l.cell[l.first].next,
       last |-> IF l.first = l.last THEN NULL ELSE l.last,
       cell |-> [a \in rest |-> l.cell[a]]]

First(l) == l.cell[l.first]

\* The elements that Mapcar visits, in order.
Mapcar(l) ==
  LET from[n \in 0 .. Cardinality(DOMAIN l.cell)] ==
        IF n = 0 \/ IsEmpty(l) THEN <<>>
        ELSE IF n = 1 THEN <<l.first>>
        ELSE LET seen == from[n - 1]
                 next == l.cell[seen[Len(seen)]].next
             IN  IF next = NULL THEN seen ELSE Append(seen, next)
  IN  [k \in DOMAIN from[Cardinality(DOMAIN l.cell)] |->
         l.cell[from[Cardinality(DOMAIN l.cell)][k]]]

\* Every element is reached from first, once, and the last one reached is
\* the one that last points to.
WellLinked(l) ==
  LET n == Cardinality(DOMAIN l.cell)
  IN  /\ Len(Mapcar(l)) = n
      /\ n = 0 => l.first = NULL /\ l.last = NULL
      /\ n > 0 => /\ {l.first, l.last} \subseteq DOMAIN l.cell
                  /\ l.cell[l.last].next = NULL
                  /\ Mapcar(l)[n] = l.cell[l.last]
=============================================================================
