----------------------------- MODULE PostProofs -----------------------------
(***************************************************************************)
(* The machines that send mail keep their invariant PostInv, for any       *)
(* number of machines, any far machines and any number of lost packets.    *)
(* Threads and their permits come first, then where the mails are.         *)
(***************************************************************************)
EXTENDS Post, FiniteSetTheorems, TLAPS

\* A step goes to Zenon unless it names the SMT solver.
USE Zenon

-----------------------------------------------------------------------------
(* The inductive invariant.                                                *)

Threads == {"main", "postal"}

\* The lists of threads without repetitions, and what is in one.
Queues == {<<>>, <<"main">>, <<"postal">>, <<"main", "postal">>, <<"postal", "main">>}
Has(s, t) == s \in {<<t>>, <<"main", "postal">>, <<"postal", "main">>}

Sems(t) == [value : Nat, queue : {<<>>, <<t>>}]

\* The acknowledgement of the data of machine p.
AckOf(p) == [from |-> Far[p], to |-> p, box |-> 1, reply |-> 1, text |-> "ack"]

Mails == {Data(p) : p \in Machines} \cup {AckOf(p) : p \in Machines}

\* The cells of a list are those at the addresses a[1], ..., a[n], linked in
\* this order.
Linked(l, n, a) ==
  /\ \A j, k \in 1 .. n : a[j] = a[k] => j = k
  /\ DOMAIN l.cell = {a[k] : k \in 1 .. n}
  /\ l.first = IF n = 0 THEN NULL ELSE a[1]
  /\ l.last = IF n = 0 THEN NULL ELSE a[n]
  /\ \A k \in 1 .. n : l.cell[a[k]].next = IF k = n THEN NULL ELSE a[k + 1]

Cells == [item : Mails, key : {0}, next : Nat]

\* The lists of mails that are linked in some order.
MailLists ==
  {l \in [first : Nat, last : Nat, cell : UNION {[D -> Cells] : D \in SUBSET (Nat \ {0})}] :
     \E n \in Nat : \E a \in [1 .. n -> Nat \ {0}] : Linked(l, n, a)}

\* The cells of a list that hold x.
Holding(l, x) == {e \in DOMAIN l.cell : l.cell[e].item = x}

ThreadType ==
  /\ status \in [Machines -> {"run", "halted", "assert"}]
  /\ current \in [Machines -> Threads \cup {NoThread}]
  /\ ready \in [Machines -> Queues]
  /\ inP \in [Machines -> SUBSET Threads]
  /\ messageAvailable \in [Machines -> Sems("postal")]
  /\ messageSent \in [Machines -> Sems("main")]
  /\ sending \in [Machines -> Nat]

Awake(m, t) == current[m] = t \/ Has(ready[m], t)

\* A thread is in one place: it has the CPU, or it is ready, or it waits for
\* the semaphore with the queue q.
InOnePlace(m, t, q) ==
  /\ ~(current[m] = t /\ Has(ready[m], t))
  /\ Awake(m, t) => q = <<>>

OnePlaces(m) == /\ InOnePlace(m, "postal", messageAvailable[m].queue)
                /\ InOnePlace(m, "main", messageSent[m].queue)

Num(b) == IF b THEN 1 ELSE 0

\* PermitPerPacket, of one machine.
Permit(m) ==
  /\ messageAvailable[m].value + Num("postal" \notin inP[m]) = Num(inbox[m] # NoMail)
  /\ status[m] # "assert" =>
       messageSent[m].value + sending[m] = Num("main" \in inP[m])
  /\ messageAvailable[m].value > 0 => messageAvailable[m].queue = <<>>
  /\ messageSent[m].value > 0 => messageSent[m].queue = <<>>

ThreadInv == ThreadType /\ \A m \in Machines : OnePlaces(m) /\ Permit(m)

MailType ==
  /\ socket \in [Machines -> Seq(Mails)]
  /\ inbox \in [Machines -> Mails \cup {NoMail}]
  /\ buffer \in [Machines -> Mails \cup {NoMail}]
  /\ boxes \in [Machines -> [Boxes -> MailLists]]
  /\ in \in [Machines -> [Boxes -> Mails \cup {NoMail}]]
  /\ stage \in [Machines -> 1 .. 5]
  /\ lost \subseteq Mails

\* What MailTest has received, by its stage.
StageInv ==
  \A m \in Machines :
    /\ in[m][0] = NoMail <=> stage[m] <= 2
    /\ in[m][1] = NoMail <=> stage[m] <= 4
    /\ "main" \in inP[m] => stage[m] \in {1, 3}
    /\ status[m] = "halted" => stage[m] = 5

\* What comes to a machine is for it, and in the box that it is for.
NetHome(m) ==
  /\ \A k \in DOMAIN socket[m] : socket[m][k].to = m
  /\ inbox[m] # NoMail => inbox[m].to = m

BoxHome(m) ==
  \A b \in Boxes :
    /\ \A e \in DOMAIN boxes[m][b].cell :
         boxes[m][b].cell[e].item.to = m /\ boxes[m][b].cell[e].item.box = b
    /\ in[m][b] # NoMail => in[m][b].to = m /\ in[m][b].box = b

HomeInv == \A m \in Machines : NetHome(m) /\ BoxHome(m)

\* The mail x of Mails is sent: data at stage 1, and an acknowledgement of
\* the data that was received at stage 3.
IsSent(x) ==
  IF x.text = "data" THEN Did(x.from, 1)
  ELSE Did(x.from, 3) /\ in[x.from][0] = Data(x.to)

\* A mail is nowhere before it is sent, and in one place from then on,
\* unless it is lost.
CountInv ==
  \A x \in Mails :
    /\ Places(x) = IF IsSent(x) /\ x \notin lost THEN 1 ELSE 0
    /\ x \in lost => IsSent(x)

MailInv == MailType /\ StageInv /\ HomeInv /\ CountInv

PostInv == ThreadInv /\ MailInv

-----------------------------------------------------------------------------
(* Sequences.                                                              *)

\* A new element at the end of a sequence.
LEMMA AppendSeq ==
  ASSUME NEW S, NEW s \in Seq(S), NEW x \in S
  PROVE  /\ Append(s, x) \in Seq(S) /\ Len(Append(s, x)) = Len(s) + 1
         /\ Append(s, x)[Len(s) + 1] = x
         /\ \A i \in 1 .. Len(s) : Append(s, x)[i] = s[i]
         /\ s \o <<x>> = Append(s, x)
<1>1. s \o <<x>> = Append(s, x)
  BY SMT
<1>2. /\ Append(s, x) \in Seq(S) /\ Len(Append(s, x)) = Len(s) + 1
      /\ Append(s, x)[Len(s) + 1] = x
  BY SMT
<1>3. \A i \in 1 .. Len(s) : Append(s, x)[i] = s[i]
  BY SMT
<1> QED BY <1>1, <1>2, <1>3

\* Two elements, one after the other.
LEMMA PairSeq ==
  ASSUME NEW S, NEW x \in S, NEW y \in S
  PROVE  Append(<<x>>, y) = <<x, y>> /\ <<x>> \o <<y>> = <<x, y>>
<1> DEFINE s == <<x>>
           a == Append(s, y)
           b == <<x, y>>
<1>1. s \in Seq(S) /\ Len(s) = 1 /\ s[1] = x
  BY SMT
<1>2. b \in Seq(S) /\ Len(b) = 2 /\ b[1] = x /\ b[2] = y
  BY SMT
<1> HIDE DEF s
<1>3. /\ a \in Seq(S) /\ Len(a) = Len(s) + 1 /\ a[Len(s) + 1] = y
      /\ \A i \in 1 .. Len(s) : a[i] = s[i]
      /\ s \o <<y>> = a
  <2>1. \A z \in Seq(S) :
          /\ Append(z, y) \in Seq(S) /\ Len(Append(z, y)) = Len(z) + 1
          /\ Append(z, y)[Len(z) + 1] = y
          /\ \A i \in 1 .. Len(z) : Append(z, y)[i] = z[i]
          /\ z \o <<y>> = Append(z, y)
    BY AppendSeq
  <2> QED BY <1>1, <2>1
<1> HIDE DEF a, b
<1>4. Len(a) = 2 /\ a[1] = x /\ a[2] = y
  BY <1>1, <1>3, SMT
<1>5. a = b
  BY <1>2, <1>3, <1>4, SMT
<1> QED BY <1>3, <1>5 DEF a, b, s

-----------------------------------------------------------------------------
(* Lists of threads.                                                       *)

\* The first thread leaves a list, or a new one joins it.
LEMMA QueueFacts ==
  /\ <<>> \in Queues
  /\ \A t \in Threads : ~Has(<<>>, t)
  /\ \A s \in Queues : s # <<>> =>
       /\ Head(s) \in Threads
       /\ Tail(s) \in Queues
       /\ Has(s, Head(s))
       /\ \A t \in Threads : Has(Tail(s), t) <=> Has(s, t) /\ t # Head(s)
  /\ \A s \in Queues, t \in Threads : ~Has(s, t) =>
       /\ s \o <<t>> \in Queues /\ Append(s, t) = s \o <<t>>
       /\ \A u \in Threads : Has(s \o <<t>>, u) <=> Has(s, u) \/ u = t
  /\ \A s \in Queues : s \o <<>> = s
<1> DEFINE M == "main"
           P == "postal"
<1>1. /\ Threads = {M, P} /\ M # P
      /\ Queues = {<<>>, <<M>>, <<P>>, <<M, P>>, <<P, M>>}
      /\ \A s, t : Has(s, t) <=> s \in {<<t>>, <<M, P>>, <<P, M>>}
  BY DEF Threads, Queues, Has
<1> HIDE DEF M, P
<1>10. /\ Head(<<M>>) = M /\ Tail(<<M>>) = <<>>
       /\ Head(<<P>>) = P /\ Tail(<<P>>) = <<>>
       /\ Head(<<M, P>>) = M /\ Tail(<<M, P>>) = <<P>>
       /\ Head(<<P, M>>) = P /\ Tail(<<P, M>>) = <<M>>
  BY SMT
<1>11. /\ <<>> \o <<M>> = <<M>> /\ <<>> \o <<P>> = <<P>>
       /\ <<M>> \o <<P>> = <<M, P>> /\ <<P>> \o <<M>> = <<P, M>>
       /\ Append(<<>>, M) = <<M>> /\ Append(<<>>, P) = <<P>>
       /\ Append(<<M>>, P) = <<M, P>> /\ Append(<<P>>, M) = <<P, M>>
  <2>1. \A x : <<>> \o <<x>> = <<x>> /\ Append(<<>>, x) = <<x>>
    BY SMT
  <2>2. M \in Threads /\ P \in Threads
    BY <1>1
  <2> QED BY <2>1, <2>2, PairSeq
<1>12. /\ \A t \in Threads : ~Has(<<>>, t)
       /\ Has(<<M>>, M) /\ Has(<<P>>, P) /\ ~Has(<<M>>, P) /\ ~Has(<<P>>, M)
       /\ \A t \in Threads : Has(<<M, P>>, t) /\ Has(<<P, M>>, t)
  BY <1>1, SMT
<1>2. ASSUME NEW s \in Queues, s # <<>>
      PROVE  /\ Head(s) \in Threads
             /\ Tail(s) \in Queues
             /\ Has(s, Head(s))
             /\ \A t \in Threads : Has(Tail(s), t) <=> Has(s, t) /\ t # Head(s)
  <2>1. CASE s = <<M>>
    <3>1. Head(s) = M /\ Tail(s) = <<>> /\ Has(s, M) /\ ~Has(s, P) /\ M \in Threads /\ <<>> \in Queues
      BY <1>1, <1>10, <1>12, <2>1
    <3> QED BY <1>1, <1>12, <3>1
  <2>2. CASE s = <<P>>
    <3>1. Head(s) = P /\ Tail(s) = <<>> /\ Has(s, P) /\ ~Has(s, M) /\ P \in Threads /\ <<>> \in Queues
      BY <1>1, <1>10, <1>12, <2>2
    <3> QED BY <1>1, <1>12, <3>1
  <2>3. CASE s = <<M, P>>
    BY <1>1, <1>10, <1>12, <2>3
  <2>4. CASE s = <<P, M>>
    BY <1>1, <1>10, <1>12, <2>4
  <2> QED BY <1>1, <1>2, <2>1, <2>2, <2>3, <2>4
<1>3. ASSUME NEW s \in Queues, NEW t \in Threads, ~Has(s, t)
      PROVE  /\ s \o <<t>> \in Queues /\ Append(s, t) = s \o <<t>>
             /\ \A u \in Threads : Has(s \o <<t>>, u) <=> Has(s, u) \/ u = t
  <2>1. CASE s = <<>>
    <3>1. CASE t = M
      BY <1>1, <1>11, <1>12, <2>1, <3>1
    <3>2. CASE t = P
      BY <1>1, <1>11, <1>12, <2>1, <3>2
    <3> QED BY <1>1, <3>1, <3>2
  <2>2. CASE s = <<M>>
    <3>1. t = P
      BY <1>1, <1>3, <1>12, <2>2
    <3> QED BY <1>1, <1>11, <1>12, <2>2, <3>1
  <2>3. CASE s = <<P>>
    <3>1. t = M
      BY <1>1, <1>3, <1>12, <2>3
    <3> QED BY <1>1, <1>11, <1>12, <2>3, <3>1
  <2>4. s \notin {<<M, P>>, <<P, M>>}
    BY <1>3, <1>12
  <2> QED BY <1>1, <2>1, <2>2, <2>3, <2>4
<1>4. /\ <<>> \in Queues
      /\ \A t \in Threads : ~Has(<<>>, t)
  BY <1>1, SMT
<1>5. \A s \in Queues : s \o <<>> = s
  BY <1>1, SMT
<1> QED BY <1>2, <1>3, <1>4, <1>5

-----------------------------------------------------------------------------
(* Lists of mails.                                                         *)

\* new ListElement finds an address that is free.
LEMMA FreeAddress ==
  ASSUME NEW l, IsFiniteSet(DOMAIN l.cell)
  PROVE  NewElement(l) \in Nat \ {0} /\ NewElement(l) \notin DOMAIN l.cell
<1> DEFINE D == DOMAIN l.cell
           n == Cardinality(D)
           T == {e \in 1 .. n + 1 : e \notin D}
<1>1. n \in Nat /\ IsFiniteSet(D)
  BY FS_CardinalityType
<1>2. T # {}
  <2>1. SUFFICES ASSUME 1 .. n + 1 \subseteq D PROVE FALSE
    OBVIOUS
  <2>2. Cardinality(1 .. n + 1) <= n
    BY <1>1, <2>1, FS_Subset
  <2>3. 1 \in Int /\ n + 1 \in Int
    BY <1>1, SMT
  <2> HIDE DEF n
  <2>4. \A b \in Int : Cardinality(1 .. b) = IF 1 > b THEN 0 ELSE b - 1 + 1
    BY <2>3, FS_Interval
  <2>5. Cardinality(1 .. n + 1) = n + 1
    BY <1>1, <2>4, SMT
  <2> QED BY <1>1, <2>2, <2>5, SMT
<1> HIDE DEF n
<1>3. T \subseteq Nat
  BY <1>1, SMT
<1>4. PICK e \in T : \A d \in T : ~(<<d, e>> \in OpToRel(<, Nat))
  BY <1>2, <1>3, WFMin, NatLessThanWellFounded
<1>5. ASSUME NEW d \in 1 .. e - 1 PROVE d \in D
  <2>0. e \in 1 .. n + 1
    BY <1>4
  <2>1. d \in 1 .. n + 1 /\ d \in Nat /\ e \in Nat /\ d < e
    BY <1>1, <2>0, SMT
  <2>2. <<d, e>> \in OpToRel(<, Nat)
    BY <2>1 DEF OpToRel
  <2> QED BY <1>4, <2>1, <2>2
<1>6. NewElement(l) \in 1 .. n + 1 /\ NewElement(l) \notin D
  BY <1>4, <1>5 DEF NewElement, n
<1>7. \A d \in 1 .. n + 1 : d \in Nat \ {0}
  BY <1>1, SMT
<1> QED BY <1>6, <1>7

\* What a list of mails is made of.
LEMMA ListFacts ==
  ASSUME NEW l \in MailLists
  PROVE  /\ DOMAIN l.cell \subseteq Nat \ {0} /\ IsFiniteSet(DOMAIN l.cell)
         /\ \A e \in DOMAIN l.cell : l.cell[e] \in Cells
         /\ IsEmpty(l) <=> DOMAIN l.cell = {}
         /\ ~IsEmpty(l) => l.first \in DOMAIN l.cell
<1>1. PICK n \in Nat : \E a \in [1 .. n -> Nat \ {0}] : Linked(l, n, a)
  BY DEF MailLists
<1>2. PICK a \in [1 .. n -> Nat \ {0}] : Linked(l, n, a)
  BY <1>1
<1>3. DOMAIN l.cell = {a[k] : k \in 1 .. n}
  BY <1>2 DEF Linked
<1>4. l.cell \in UNION {[D -> Cells] : D \in SUBSET (Nat \ {0})}
  BY SMT DEF MailLists
<1>5. PICK D \in SUBSET (Nat \ {0}) : l.cell \in [D -> Cells]
  BY <1>4
<1>6. IsFiniteSet(DOMAIN l.cell)
  <2>1. a \in Surjection(1 .. n, DOMAIN l.cell)
    BY <1>2, <1>3, SMT DEF Surjection
  <2>2. IsFiniteSet(1 .. n)
    BY FS_Interval, SMT
  <2> QED BY <2>1, <2>2, FS_Surjection
<1>7. CASE n = 0
  <2>1. 1 .. n = {}
    BY <1>7, SMT
  <2>2. l.first = NULL
    BY <1>2, <1>7 DEF Linked
  <2> QED BY <1>3, <1>5, <1>6, <2>1, <2>2 DEF IsEmpty
<1>8. CASE n # 0
  <2>1. 1 \in 1 .. n
    BY <1>8, SMT
  <2>2. l.first = a[1] /\ a[1] \in Nat \ {0}
    BY <1>2, <1>8, <2>1 DEF Linked
  <2>3. l.first \in DOMAIN l.cell /\ l.first # NULL
    BY <1>3, <2>1, <2>2 DEF NULL
  <2> QED BY <1>5, <1>6, <2>3 DEF IsEmpty
<1> QED BY <1>7, <1>8

\* List::Append puts the mail into a new cell and changes no other mail.
LEMMA AppendList ==
  ASSUME NEW l \in MailLists, NEW x \in Mails
  PROVE  /\ ListAppend(l, x) \in MailLists
         /\ NewElement(l) \notin DOMAIN l.cell
         /\ DOMAIN ListAppend(l, x).cell = DOMAIN l.cell \cup {NewElement(l)}
         /\ ListAppend(l, x).cell[NewElement(l)].item = x
         /\ \A d \in DOMAIN l.cell : ListAppend(l, x).cell[d].item = l.cell[d].item
<1> DEFINE e == NewElement(l)
           new == ListAppend(l, x)
           D == DOMAIN l.cell
<1>1. /\ D \subseteq Nat \ {0} /\ IsFiniteSet(D) /\ \A d \in D : l.cell[d] \in Cells
      /\ IsEmpty(l) <=> D = {}
  BY ListFacts
<1>2. e \in Nat \ {0} /\ e \notin D
  BY <1>1, FreeAddress
<1>3. PICK n \in Nat : \E a \in [1 .. n -> Nat \ {0}] : Linked(l, n, a)
  BY DEF MailLists
<1>4. PICK a \in [1 .. n -> Nat \ {0}] : Linked(l, n, a)
  BY <1>3
<1>5. /\ \A j, k \in 1 .. n : a[j] = a[k] => j = k
      /\ D = {a[k] : k \in 1 .. n}
      /\ l.first = IF n = 0 THEN NULL ELSE a[1]
      /\ l.last = IF n = 0 THEN NULL ELSE a[n]
      /\ \A k \in 1 .. n : l.cell[a[k]].next = IF k = n THEN NULL ELSE a[k + 1]
  BY <1>4 DEF Linked
<1>50. /\ \A j, k \in 1 .. n : a[j] = a[k] => j = k
       /\ \A k \in 1 .. n : a[k] \in D
       /\ \A d \in D : \E k \in 1 .. n : d = a[k]
  BY <1>5
<1>6. /\ new.first = IF IsEmpty(l) THEN e ELSE l.first
      /\ new.last = e
      /\ new.cell = [d \in D \cup {e} |->
                       IF d = e THEN [item |-> x, key |-> 0, next |-> NULL]
                       ELSE IF d = l.last THEN [l.cell[d] EXCEPT !.next = e]
                       ELSE l.cell[d]]
      /\ new = [first |-> new.first, last |-> new.last, cell |-> new.cell]
  BY DEF ListAppend, AtEnd, Link
<1> HIDE DEF new, e, D
<1>7. /\ DOMAIN new.cell = D \cup {e}
      /\ new.cell[e] = [item |-> x, key |-> 0, next |-> NULL]
      /\ \A d \in D : new.cell[d] = IF d = l.last THEN [l.cell[d] EXCEPT !.next = e]
                                    ELSE l.cell[d]
  BY <1>2, <1>6
<1>8. \A d \in D : /\ new.cell[d] \in Cells
                   /\ new.cell[d].item = l.cell[d].item
                   /\ new.cell[d].next = IF d = l.last THEN e ELSE l.cell[d].next
  <2>1. ASSUME NEW c \in Cells
        PROVE  /\ [c EXCEPT !.next = e] \in Cells
               /\ [c EXCEPT !.next = e].item = c.item
               /\ [c EXCEPT !.next = e].next = e
    BY <1>2, SMT DEF Cells
  <2>2. ASSUME NEW d \in D
        PROVE  /\ new.cell[d] \in Cells
               /\ new.cell[d].item = l.cell[d].item
               /\ new.cell[d].next = IF d = l.last THEN e ELSE l.cell[d].next
    <3>1. CASE d = l.last
      <4>1. new.cell[d] = [l.cell[d] EXCEPT !.next = e] /\ l.cell[d] \in Cells
        BY <1>1, <1>7, <3>1
      <4> QED BY <2>1, <3>1, <4>1
    <3>2. CASE d # l.last
      BY <1>1, <1>7, <3>2
    <3> QED BY <3>1, <3>2
  <2> QED BY <2>2
<1>9. new.cell[e] \in Cells /\ new.cell[e].item = x /\ new.cell[e].next = NULL
  BY <1>7, SMT DEF Cells, NULL
<1> DEFINE b == [k \in 1 .. n + 1 |-> IF k = n + 1 THEN e ELSE a[k]]
<1>10. /\ n + 1 \in Nat /\ b \in [1 .. n + 1 -> Nat \ {0}]
       /\ b[n + 1] = e /\ \A k \in 1 .. n : b[k] = a[k]
       /\ \A k \in 1 .. n + 1 : k \in 1 .. n \/ k = n + 1
       /\ \A k \in 1 .. n : k \in 1 .. n + 1 /\ k # n + 1
       /\ n + 1 \in 1 .. n + 1
  BY <1>2, SMT
<1> HIDE DEF b
<1>11. Linked(new, n + 1, b)
  <2>1. \A j, k \in 1 .. n + 1 : b[j] = b[k] => j = k
    <3>1. \A k \in 1 .. n : a[k] # e
      BY <1>2, <1>50
    <3>2. ASSUME NEW j \in 1 .. n, NEW k \in 1 .. n, b[j] = b[k] PROVE j = k
      BY <1>50, <1>10, <3>2
    <3> QED BY <1>10, <3>1, <3>2
  <2>2. DOMAIN new.cell = {b[k] : k \in 1 .. n + 1}
    <3>1. ASSUME NEW d \in DOMAIN new.cell PROVE \E k \in 1 .. n + 1 : d = b[k]
      <4>1. CASE d = e
        BY <1>10, <4>1
      <4>2. CASE d \in D
        <5>1. PICK k \in 1 .. n : d = a[k]
          BY <1>50, <4>2
        <5> QED BY <1>10, <5>1
      <4> QED BY <1>7, <3>1, <4>1, <4>2
    <3>2. ASSUME NEW k \in 1 .. n + 1 PROVE b[k] \in DOMAIN new.cell
      <4>1. CASE k = n + 1
        BY <1>7, <1>10, <4>1
      <4>2. CASE k \in 1 .. n
        BY <1>7, <1>10, <1>50, <4>2
      <4> QED BY <1>10, <4>1, <4>2
    <3> QED BY <3>1, <3>2
  <2>3. new.first = b[1]
    <3>1. CASE n = 0
      <4>1. 1 .. n = {} /\ n + 1 = 1
        BY <3>1, SMT
      <4>2. D = {}
        BY <1>50, <4>1
      <4> QED BY <1>1, <1>6, <1>10, <4>1, <4>2
    <3>2. CASE n # 0
      <4>1. 1 \in 1 .. n
        BY <3>2, SMT
      <4>2. D # {}
        BY <1>50, <4>1
      <4> QED BY <1>1, <1>5, <1>6, <1>10, <3>2, <4>1, <4>2
    <3> QED BY <3>1, <3>2
  <2>4. ASSUME NEW k \in 1 .. n
        PROVE  new.cell[b[k]].next = b[k + 1] /\ k + 1 \in 1 .. n + 1
    <3>1. a[k] \in D /\ b[k] = a[k] /\ n \in 1 .. n
      <4>1. n \in 1 .. n
        BY SMT
      <4> QED BY <1>50, <1>10, <4>1
    <3>2. CASE k = n
      <4>1. a[k] = l.last
        <5>1. n # 0
          BY <3>2, SMT
        <5> QED BY <1>5, <3>2, <5>1
      <4>2. k + 1 = n + 1
        BY <3>2
      <4> QED BY <1>8, <1>10, <3>1, <4>1, <4>2
    <3>3. CASE k # n
      <4>1. k + 1 \in 1 .. n /\ n # 0
        BY <3>3, SMT
      <4>2. a[k] # l.last
        <5>1. l.last = a[n] /\ \A j \in 1 .. n : a[k] = a[j] => k = j
          BY <1>5, <4>1
        <5> QED BY <3>1, <3>3, <5>1
      <4>3. l.cell[a[k]].next = a[k + 1]
        BY <1>5, <3>3
      <4>4. k + 1 \in 1 .. n + 1 /\ b[k + 1] = a[k + 1]
        BY <1>10, <4>1
      <4> QED BY <1>8, <3>1, <4>2, <4>3, <4>4
    <3> QED BY <3>2, <3>3
  <2>5. ASSUME NEW k \in 1 .. n + 1
        PROVE  new.cell[b[k]].next = IF k = n + 1 THEN NULL ELSE b[k + 1]
    <3>1. CASE k = n + 1
      BY <1>9, <1>10, <3>1
    <3>2. CASE k # n + 1
      BY <1>10, <2>4, <3>2
    <3> QED BY <3>1, <3>2
  <2>6. n + 1 # 0
    BY SMT
  <2> QED BY <1>6, <1>10, <2>1, <2>2, <2>3, <2>5, <2>6 DEF Linked
<1>12. new \in MailLists
  <2>1. new.cell \in [D \cup {e} -> Cells] /\ D \cup {e} \in SUBSET (Nat \ {0})
    BY <1>1, <1>2, <1>6, <1>7, <1>8, <1>9
  <2>2. new.first \in Nat /\ new.last \in Nat
    <3>1. l.first \in Nat
      BY SMT DEF MailLists
    <3> QED BY <1>2, <1>6, <3>1
  <2>3. new \in [first : Nat, last : Nat, cell : UNION {[S -> Cells] : S \in SUBSET (Nat \ {0})}]
    <3>1. new.cell \in UNION {[S -> Cells] : S \in SUBSET (Nat \ {0})}
      BY <2>1
    <3> QED BY <1>6, <2>2, <3>1
  <2> QED BY <1>10, <1>11, <2>3 DEF MailLists
<1> QED BY <1>2, <1>7, <1>8, <1>9, <1>12 DEF new, e, D

\* List::Remove takes the first cell out and changes no mail of the others.
LEMMA RemoveList ==
  ASSUME NEW l \in MailLists, ~IsEmpty(l)
  PROVE  /\ SortedRemove(l) \in MailLists
         /\ l.first \in DOMAIN l.cell
         /\ DOMAIN SortedRemove(l).cell = DOMAIN l.cell \ {l.first}
         /\ \A d \in DOMAIN l.cell \ {l.first} : SortedRemove(l).cell[d] = l.cell[d]
<1> DEFINE new == SortedRemove(l)
           D == DOMAIN l.cell
           R == D \ {l.first}
<1>1. /\ D \subseteq Nat \ {0} /\ \A d \in D : l.cell[d] \in Cells
      /\ l.first \in D
  BY ListFacts
<1>2. PICK n \in Nat : \E a \in [1 .. n -> Nat \ {0}] : Linked(l, n, a)
  BY DEF MailLists
<1>3. PICK a \in [1 .. n -> Nat \ {0}] : Linked(l, n, a)
  BY <1>2
<1>4. /\ \A k \in 1 .. n : a[k] \in D
      /\ \A d \in D : \E k \in 1 .. n : d = a[k]
  BY <1>3 DEF Linked
<1>5. n # 0 /\ 1 \in 1 .. n /\ n \in 1 .. n
  <2>1. n # 0
    <3>1. 1 .. 0 = {}
      BY SMT
    <3> QED BY <1>1, <1>4, <3>1
  <2> QED BY <2>1, SMT
<1>6. /\ \A j, k \in 1 .. n : a[j] = a[k] => j = k
      /\ l.first = a[1] /\ l.last = a[n]
      /\ \A k \in 1 .. n : l.cell[a[k]].next = IF k = n THEN NULL ELSE a[k + 1]
  BY <1>3, <1>5 DEF Linked
<1>7. /\ new.first = IF l.first = l.last THEN NULL ELSE l.cell[l.first].next
      /\ new.last = IF l.first = l.last THEN NULL ELSE l.last
      /\ new.cell = [d \in R |-> l.cell[d]]
      /\ new = [first |-> new.first, last |-> new.last, cell |-> new.cell]
  BY DEF SortedRemove
<1> HIDE DEF new, D
<1>8. DOMAIN new.cell = R /\ \A d \in R : new.cell[d] = l.cell[d]
  BY <1>7
<1>9. l.first = l.last <=> n = 1
  BY <1>5, <1>6
<1> DEFINE b == [k \in 1 .. n - 1 |-> a[k + 1]]
<1>10. /\ n - 1 \in Nat /\ b \in [1 .. n - 1 -> Nat \ {0}]
       /\ \A k \in 1 .. n - 1 : k + 1 \in 1 .. n /\ k + 1 # 1 /\ b[k] = a[k + 1]
       /\ \A j, k \in 1 .. n - 1 : j + 1 = k + 1 => j = k
       /\ \A k \in 1 .. n : k # 1 => k - 1 \in 1 .. n - 1 /\ (k - 1) + 1 = k
       /\ \A k \in 1 .. n - 1 : k = n - 1 <=> k + 1 = n
       /\ n - 1 = 0 <=> n = 1
       /\ n # 1 => n - 1 \in 1 .. n - 1 /\ 1 \in 1 .. n - 1 /\ (n - 1) + 1 = n
       /\ \A k \in 1 .. n - 1 : k # n - 1 => k + 1 \in 1 .. n - 1
  BY <1>5, SMT
<1> HIDE DEF b
<1>11. Linked(new, n - 1, b)
  <2>1. \A j, k \in 1 .. n - 1 : b[j] = b[k] => j = k
    <3>1. ASSUME NEW j \in 1 .. n - 1, NEW k \in 1 .. n - 1, b[j] = b[k] PROVE j = k
      <4>1. j + 1 \in 1 .. n /\ k + 1 \in 1 .. n /\ a[j + 1] = a[k + 1]
        BY <1>10, <3>1
      <4>2. j + 1 = k + 1
        BY <1>6, <4>1
      <4> QED BY <1>10, <4>2
    <3> QED BY <3>1
  <2>2. DOMAIN new.cell = {b[k] : k \in 1 .. n - 1}
    <3>1. ASSUME NEW d \in R PROVE \E k \in 1 .. n - 1 : d = b[k]
      <4>1. PICK k \in 1 .. n : d = a[k]
        BY <1>4, <3>1
      <4>2. k # 1
        BY <1>6, <3>1, <4>1
      <4>3. k - 1 \in 1 .. n - 1 /\ (k - 1) + 1 = k
        BY <1>10, <4>2
      <4>4. b[k - 1] = a[(k - 1) + 1]
        BY <1>10, <4>3
      <4> QED BY <4>1, <4>3, <4>4
    <3>2. ASSUME NEW k \in 1 .. n - 1 PROVE b[k] \in R
      <4>1. k + 1 \in 1 .. n /\ k + 1 # 1 /\ b[k] = a[k + 1]
        BY <1>10
      <4> QED BY <1>4, <1>5, <1>6, <4>1
    <3>3. DOMAIN new.cell = R
      BY <1>8
    <3> HIDE DEF R
    <3> QED BY <3>1, <3>2, <3>3
  <2>3. new.first = IF n - 1 = 0 THEN NULL ELSE b[1]
    <3>1. CASE n = 1
      BY <1>7, <1>9, <1>10, <3>1
    <3>2. CASE n # 1
      <4>1. l.cell[l.first].next = a[1 + 1]
        BY <1>5, <1>6, <3>2
      <4>2. b[1] = a[1 + 1]
        BY <1>10, <3>2
      <4> QED BY <1>7, <1>9, <1>10, <3>2, <4>1, <4>2
    <3> QED BY <3>1, <3>2
  <2>4. new.last = IF n - 1 = 0 THEN NULL ELSE b[n - 1]
    <3>1. CASE n = 1
      BY <1>7, <1>9, <1>10, <3>1
    <3>2. CASE n # 1
      <4>1. b[n - 1] = a[n]
        BY <1>10, <3>2
      <4> QED BY <1>6, <1>7, <1>9, <1>10, <3>2, <4>1
    <3> QED BY <3>1, <3>2
  <2>5. ASSUME NEW k \in 1 .. n - 1
        PROVE  new.cell[b[k]].next = IF k = n - 1 THEN NULL ELSE b[k + 1]
    <3>1. k + 1 \in 1 .. n /\ b[k] = a[k + 1] /\ a[k + 1] \in R
      <4>1. k + 1 \in 1 .. n /\ k + 1 # 1 /\ b[k] = a[k + 1]
        BY <1>10
      <4> QED BY <1>4, <1>5, <1>6, <4>1
    <3>2. new.cell[b[k]].next = IF k + 1 = n THEN NULL ELSE a[k + 1 + 1]
      <4>1. l.cell[a[k + 1]].next = IF k + 1 = n THEN NULL ELSE a[k + 1 + 1]
        BY <1>6, <3>1
      <4>2. new.cell[b[k]] = l.cell[a[k + 1]]
        BY <1>8, <3>1
      <4> QED BY <4>1, <4>2
    <3>3. k # n - 1 => b[k + 1] = a[k + 1 + 1]
      BY <1>10
    <3> QED BY <1>10, <3>2, <3>3
  <2> QED BY <2>1, <2>2, <2>3, <2>4, <2>5 DEF Linked
<1>12. new \in MailLists
  <2>1. R \in SUBSET (Nat \ {0}) /\ new.cell \in [R -> Cells]
    BY <1>1, <1>7
  <2>2. new.first \in Nat /\ new.last \in Nat
    <3>1. l.first \in Nat /\ l.last \in Nat /\ NULL \in Nat
      BY SMT DEF MailLists, NULL
    <3>2. l.cell[l.first].next \in Nat
      <4>1. l.cell[l.first] \in Cells
        BY <1>1
      <4> QED BY <4>1, SMT DEF Cells
    <3> QED BY <1>7, <3>1, <3>2
  <2>3. new \in [first : Nat, last : Nat, cell : UNION {[S -> Cells] : S \in SUBSET (Nat \ {0})}]
    BY <1>7, <2>1, <2>2
  <2> QED BY <1>10, <1>11, <2>3 DEF MailLists
<1> QED BY <1>1, <1>8, <1>12 DEF new, D

-----------------------------------------------------------------------------
(* Counting the places of a mail.                                          *)

Copies(s, x) == Cardinality({k \in DOMAIN s : s[k] = x})

\* A sequence has finitely many copies of x, and none that is not counted.
LEMMA CopiesFacts ==
  ASSUME NEW S, NEW s \in Seq(S), NEW x
  PROVE  /\ IsFiniteSet({k \in DOMAIN s : s[k] = x})
         /\ Copies(s, x) \in Nat
         /\ Copies(s, x) = 0 => \A k \in DOMAIN s : s[k] # x
<1> DEFINE C == {k \in DOMAIN s : s[k] = x}
<1>1. IsFiniteSet(DOMAIN s)
  <2>1. DOMAIN s = 1 .. Len(s) /\ 1 \in Int /\ Len(s) \in Int
    BY SMT
  <2> QED BY <2>1, FS_Interval
<1>2. IsFiniteSet(C)
  <2>1. C \in SUBSET DOMAIN s
    OBVIOUS
  <2> HIDE DEF C
  <2> QED BY <1>1, <2>1, FS_Subset
<1>3. Cardinality(C) \in Nat
  BY <1>2, FS_CardinalityType
<1>4. Cardinality(C) = 0 => C = {}
  BY <1>2, FS_EmptySet
<1> QED BY <1>2, <1>3, <1>4 DEF Copies

\* One more at the end.
LEMMA CopiesAppend ==
  ASSUME NEW S, NEW s \in Seq(S), NEW y \in S, NEW x
  PROVE  Copies(Append(s, y), x) = Copies(s, x) + Num(y = x)
<1> DEFINE a == Append(s, y)
           C == {k \in DOMAIN s : s[k] = x}
           A == {k \in DOMAIN a : a[k] = x}
<1>1. /\ DOMAIN s = 1 .. Len(s) /\ Len(s) + 1 \notin DOMAIN s
      /\ DOMAIN a = DOMAIN s \cup {Len(s) + 1}
      /\ a[Len(s) + 1] = y /\ \A k \in DOMAIN s : a[k] = s[k]
  BY SMT
<1>2. IsFiniteSet(C) /\ Cardinality(C) \in Nat
  BY CopiesFacts, FS_CardinalityType
<1> HIDE DEF a
<1>3. CASE y = x
  <2>1. A = C \cup {Len(s) + 1} /\ Len(s) + 1 \notin C
    BY <1>1, <1>3
  <2>2. Cardinality(C \cup {Len(s) + 1}) =
          IF Len(s) + 1 \in C THEN Cardinality(C) ELSE Cardinality(C) + 1
    BY <1>2, FS_AddElement
  <2>3. Cardinality(A) = Cardinality(C) + 1
    BY <2>1, <2>2
  <2> QED BY <1>3, <2>3 DEF Copies, Num, a
<1>4. CASE y # x
  <2>1. A = C
    BY <1>1, <1>4
  <2> HIDE DEF A, C
  <2>2. Cardinality(A) = Cardinality(C) + 0
    BY <1>2, <2>1, SMT
  <2> QED BY <1>4, <2>2 DEF Copies, Num, a, A, C
<1> QED BY <1>3, <1>4

\* One less at the front.
LEMMA CopiesTail ==
  ASSUME NEW S, NEW s \in Seq(S), s # <<>>, NEW x
  PROVE  Copies(s, x) = Copies(Tail(s), x) + Num(Head(s) = x)
<1> DEFINE t == Tail(s)
           C == {k \in DOMAIN s : s[k] = x}
           T == {k \in DOMAIN t : t[k] = x}
           f == [k \in T |-> k + 1]
<1>1. /\ t \in Seq(S) /\ Head(s) = s[1] /\ 1 \in DOMAIN s
      /\ \A k \in DOMAIN t : k + 1 \in DOMAIN s /\ t[k] = s[k + 1] /\ k + 1 # 1
      /\ \A j, k \in DOMAIN t : j + 1 = k + 1 => j = k
      /\ \A k \in DOMAIN s : k # 1 => k - 1 \in DOMAIN t /\ (k - 1) + 1 = k
  BY SMT
<1>2. IsFiniteSet(C) /\ IsFiniteSet(T) /\ Cardinality(C) \in Nat /\ Cardinality(T) \in Nat
  <2>1. IsFiniteSet(C) /\ IsFiniteSet(T)
    <3>1. IsFiniteSet(C)
      BY CopiesFacts
    <3> HIDE DEF t
    <3>2. t \in Seq(S)
      BY <1>1
    <3>3. IsFiniteSet(T)
      BY <3>2, CopiesFacts
    <3> QED BY <3>1, <3>3
  <2> HIDE DEF C, T
  <2> QED BY <2>1, FS_CardinalityType
<1> HIDE DEF t
<1>3. f \in Bijection(T, C \ {1})
  <2>1. \A k \in T : f[k] = k + 1
    OBVIOUS
  <2>2. f \in [T -> C \ {1}]
    BY <1>1
  <2> HIDE DEF f
  <2>3. \A j, k \in T : f[j] = f[k] => j = k
    <3>1. ASSUME NEW j \in T, NEW k \in T, f[j] = f[k] PROVE j = k
      <4>1. j + 1 = k + 1
        BY <2>1, <3>1
      <4> QED BY <1>1, <4>1
    <3> QED BY <3>1
  <2>4. ASSUME NEW c \in C \ {1} PROVE \E k \in T : f[k] = c
    <3>1. c - 1 \in DOMAIN t /\ (c - 1) + 1 = c
      BY <1>1
    <3>2. c - 1 \in T
      BY <1>1, <3>1
    <3> QED BY <2>1, <3>1, <3>2
  <2> QED BY <2>2, <2>3, <2>4 DEF Bijection, Injection, Surjection, IsInjective
<1>4. Cardinality(C \ {1}) = Cardinality(T)
  BY <1>2, <1>3, FS_Bijection DEF ExistsBijection
<1>5. Cardinality(C \ {1}) = IF 1 \in C THEN Cardinality(C) - 1 ELSE Cardinality(C)
  BY <1>2, FS_RemoveElement
<1>6. 1 \in C <=> Head(s) = x
  BY <1>1
<1> HIDE DEF C, T
<1>7. Cardinality(C) = Cardinality(T) + Num(Head(s) = x)
  <2>1. CASE Head(s) = x
    <3>1. Num(Head(s) = x) = 1
      BY <2>1 DEF Num
    <3>2. Cardinality(T) = Cardinality(C) - 1
      BY <1>4, <1>5, <1>6, <2>1
    <3> QED BY <1>2, <3>1, <3>2, SMT
  <2>2. CASE Head(s) # x
    <3>1. Num(Head(s) = x) = 0
      BY <2>2 DEF Num
    <3>2. Cardinality(T) = Cardinality(C)
      BY <1>4, <1>5, <1>6, <2>2
    <3> QED BY <1>2, <3>1, <3>2, SMT
  <2> QED BY <2>1, <2>2
<1> QED BY <1>7 DEF Copies, C, T, t

\* A list of mails has finitely many cells with x, and none that is not
\* counted.
LEMMA HoldingFacts ==
  ASSUME NEW l \in MailLists, NEW x
  PROVE  /\ IsFiniteSet(Holding(l, x))
         /\ Cardinality(Holding(l, x)) \in Nat
         /\ Cardinality(Holding(l, x)) = 0 => Holding(l, x) = {}
<1>1. Holding(l, x) \in SUBSET DOMAIN l.cell
  BY DEF Holding
<1>2. IsFiniteSet(Holding(l, x))
  BY <1>1, ListFacts, FS_Subset
<1> QED BY <1>2, FS_CardinalityType, FS_EmptySet

\* List::Append adds a cell with the new mail.
LEMMA HoldingAppend ==
  ASSUME NEW l \in MailLists, NEW y \in Mails, NEW x
  PROVE  Cardinality(Holding(ListAppend(l, y), x)) = Cardinality(Holding(l, x)) + Num(y = x)
<1> DEFINE new == ListAppend(l, y)
           e == NewElement(l)
<1>1. /\ e \notin DOMAIN l.cell
      /\ DOMAIN new.cell = DOMAIN l.cell \cup {e}
      /\ new.cell[e].item = y
      /\ \A d \in DOMAIN l.cell : new.cell[d].item = l.cell[d].item
  BY AppendList
<1>2. IsFiniteSet(Holding(l, x)) /\ Cardinality(Holding(l, x)) \in Nat
  BY HoldingFacts
<1> HIDE DEF new, e
<1>3. CASE y = x
  <2>1. Holding(new, x) = Holding(l, x) \cup {e} /\ e \notin Holding(l, x)
    BY <1>1, <1>3 DEF Holding
  <2>2. Cardinality(Holding(l, x) \cup {e}) = Cardinality(Holding(l, x)) + 1
    BY <1>2, <2>1, FS_AddElement
  <2> QED BY <1>3, <2>1, <2>2 DEF Num, new
<1>4. CASE y # x
  <2>1. Holding(new, x) = Holding(l, x)
    BY <1>1, <1>4 DEF Holding
  <2>2. Cardinality(Holding(new, x)) = Cardinality(Holding(l, x)) + 0
    BY <1>2, <2>1, SMT
  <2> QED BY <1>4, <2>2 DEF Num, new
<1> QED BY <1>3, <1>4

\* List::Remove takes the cell with the first mail.
LEMMA HoldingRemove ==
  ASSUME NEW l \in MailLists, ~IsEmpty(l), NEW x
  PROVE  Cardinality(Holding(l, x))
           = Cardinality(Holding(SortedRemove(l), x)) + Num(First(l).item = x)
<1> DEFINE new == SortedRemove(l)
           e == l.first
<1>1. /\ new \in MailLists /\ e \in DOMAIN l.cell
      /\ DOMAIN new.cell = DOMAIN l.cell \ {e}
      /\ \A d \in DOMAIN l.cell \ {e} : new.cell[d] = l.cell[d]
  BY RemoveList
<1> HIDE DEF new
<1>2. /\ IsFiniteSet(Holding(l, x)) /\ Cardinality(Holding(l, x)) \in Nat
      /\ Cardinality(Holding(new, x)) \in Nat
  BY <1>1, HoldingFacts
<1>3. Holding(new, x) = Holding(l, x) \ {e}
  BY <1>1 DEF Holding
<1>4. Cardinality(Holding(l, x) \ {e}) =
        IF e \in Holding(l, x) THEN Cardinality(Holding(l, x)) - 1
        ELSE Cardinality(Holding(l, x))
  BY <1>2, FS_RemoveElement
<1>5. e \in Holding(l, x) <=> First(l).item = x
  BY <1>1 DEF Holding, First
<1>6. CASE First(l).item = x
  <2>1. Num(First(l).item = x) = 1 /\ Cardinality(Holding(new, x)) = Cardinality(Holding(l, x)) - 1
    BY <1>3, <1>4, <1>5, <1>6 DEF Num
  <2>2. Cardinality(Holding(l, x)) = Cardinality(Holding(new, x)) + Num(First(l).item = x)
    BY <1>2, <2>1, SMT
  <2> QED BY <2>2 DEF new
<1>7. CASE First(l).item # x
  <2>1. Num(First(l).item = x) = 0 /\ Cardinality(Holding(new, x)) = Cardinality(Holding(l, x))
    BY <1>3, <1>4, <1>5, <1>7 DEF Num
  <2>2. Cardinality(Holding(l, x)) = Cardinality(Holding(new, x)) + Num(First(l).item = x)
    BY <1>2, <2>1, SMT
  <2> QED BY <2>2 DEF new
<1> QED BY <1>6, <1>7

\* The boxes in which f has x.
BoxesWith(f, x) == {b \in Boxes : f[b] = x}

\* There are two boxes.
LEMMA BoxesCount ==
  ASSUME NEW f, NEW x
  PROVE  Cardinality(BoxesWith(f, x)) = Num(f[0] = x) + Num(f[1] = x)
<1> DEFINE C == BoxesWith(f, x)
<1>1. Boxes = {0, 1} /\ 0 # 1
  BY SMT DEF Boxes
<1>2. Cardinality({}) = 0 /\ Cardinality({0}) = 1 /\ Cardinality({1}) = 1 /\ IsFiniteSet({0})
  BY FS_EmptySet, FS_Singleton
<1>3. Cardinality({0, 1}) = 2
  <2>1. Cardinality({0} \cup {1}) = Cardinality({0}) + 1
    BY <1>1, <1>2, FS_AddElement
  <2>2. {0, 1} = {0} \cup {1}
    OBVIOUS
  <2> QED BY <1>2, <2>1, <2>2, SMT
<1>4. CASE f[0] = x /\ f[1] = x
  <2>1. C = {0, 1}
    BY <1>1, <1>4 DEF BoxesWith
  <2>2. Num(f[0] = x) = 1 /\ Num(f[1] = x) = 1 /\ Cardinality(C) = 2
    BY <1>3, <1>4, <2>1 DEF Num
  <2> QED BY <2>2, SMT
<1>5. CASE f[0] = x /\ f[1] # x
  <2>1. C = {0}
    BY <1>1, <1>5 DEF BoxesWith
  <2>2. Num(f[0] = x) = 1 /\ Num(f[1] = x) = 0 /\ Cardinality(C) = 1
    BY <1>2, <1>5, <2>1 DEF Num
  <2> QED BY <2>2, SMT
<1>6. CASE f[0] # x /\ f[1] = x
  <2>1. C = {1}
    BY <1>1, <1>6 DEF BoxesWith
  <2>2. Num(f[0] = x) = 0 /\ Num(f[1] = x) = 1 /\ Cardinality(C) = 1
    BY <1>2, <1>6, <2>1 DEF Num
  <2> QED BY <2>2, SMT
<1>7. CASE f[0] # x /\ f[1] # x
  <2>1. C = {}
    BY <1>1, <1>7 DEF BoxesWith
  <2>2. Num(f[0] = x) = 0 /\ Num(f[1] = x) = 0 /\ Cardinality(C) = 0
    BY <1>2, <1>7, <2>1 DEF Num
  <2> QED BY <2>2, SMT
<1> QED BY <1>4, <1>5, <1>6, <1>7

-----------------------------------------------------------------------------
(* The CPU of a machine.                                                   *)

\* Only the CPU of machine m is given away, or its ready list changed.
CPUOf(m) ==
  /\ current' \in [Machines -> Threads \cup {NoThread}]
  /\ ready' \in [Machines -> Queues]
  /\ \A n \in Machines : n # m => current'[n] = current[n] /\ ready'[n] = ready[n]
  /\ \A t \in Threads : ~(current'[m] = t /\ Has(ready'[m], t))

\* The CPU goes to the first ready thread.
LEMMA SleepsFacts ==
  ASSUME ThreadType, NEW m \in Machines, Sleeps(m)
  PROVE  CPUOf(m) /\ \A t \in Threads : Awake(m, t)' <=> Has(ready[m], t)
<1>1. /\ current \in [Machines -> Threads \cup {NoThread}]
      /\ ready \in [Machines -> Queues] /\ ready[m] \in Queues
      /\ \A t \in Threads : t # NoThread
  BY DEF ThreadType, Threads, NoThread
<1>2. CASE ready[m] = <<>>
  <2>1. current' = [current EXCEPT ![m] = NoThread] /\ ready' = ready
    BY <1>2 DEF Sleeps
  <2>2. current' \in [Machines -> Threads \cup {NoThread}] /\ current'[m] = NoThread
        /\ \A n \in Machines : n # m => current'[n] = current[n]
    BY <1>1, <2>1
  <2> QED BY <1>1, <1>2, <2>1, <2>2, QueueFacts DEF CPUOf, Awake
<1>3. CASE ready[m] # <<>>
  <2>1. /\ current' = [current EXCEPT ![m] = Head(ready[m])]
        /\ ready' = [ready EXCEPT ![m] = Tail(ready[m])]
    BY <1>3 DEF Sleeps
  <2>2. /\ Head(ready[m]) \in Threads /\ Tail(ready[m]) \in Queues
        /\ Has(ready[m], Head(ready[m]))
        /\ \A t \in Threads : Has(Tail(ready[m]), t) <=> Has(ready[m], t) /\ t # Head(ready[m])
    BY <1>1, <1>3, QueueFacts
  <2>3. current' \in [Machines -> Threads \cup {NoThread}] /\ current'[m] = Head(ready[m])
        /\ \A n \in Machines : n # m => current'[n] = current[n]
    BY <1>1, <2>1, <2>2
  <2>4. ready' \in [Machines -> Queues] /\ ready'[m] = Tail(ready[m])
        /\ \A n \in Machines : n # m => ready'[n] = ready[n]
    BY <1>1, <2>1, <2>2
  <2> QED BY <2>2, <2>3, <2>4 DEF CPUOf, Awake
<1> QED BY <1>2, <1>3

\* The timer puts the running thread behind the others.
LEMMA PreemptFacts ==
  ASSUME ThreadType, NEW m \in Machines, Preempt(m), ~Has(ready[m], current[m])
  PROVE  CPUOf(m) /\ \A t \in Threads : Awake(m, t)' <=> Awake(m, t)
<1> DEFINE h == Head(ready[m])
           r == Tail(ready[m])
           c == current[m]
<1>1. /\ current \in [Machines -> Threads \cup {NoThread}] /\ c \in Threads
      /\ ready \in [Machines -> Queues] /\ ready[m] \in Queues /\ ready[m] # <<>>
  BY DEF ThreadType, Preempt
<1>2. /\ current' = [current EXCEPT ![m] = h]
      /\ ready' = [ready EXCEPT ![m] = Append(r, c)]
  BY DEF Preempt
<1>3. /\ h \in Threads /\ r \in Queues /\ Has(ready[m], h)
      /\ \A t \in Threads : Has(r, t) <=> Has(ready[m], t) /\ t # h
  BY <1>1, QueueFacts
<1>4. ~Has(r, c) /\ h # c
  BY <1>1, <1>3
<1> HIDE DEF h, r
<1>5. /\ Append(r, c) \in Queues
      /\ \A t \in Threads : Has(Append(r, c), t) <=> Has(r, t) \/ t = c
  <2>1. \A s \in Queues : ~Has(s, c) =>
          /\ s \o <<c>> \in Queues /\ Append(s, c) = s \o <<c>>
          /\ \A u \in Threads : Has(s \o <<c>>, u) <=> Has(s, u) \/ u = c
    BY <1>1, QueueFacts
  <2>2. r \in Queues /\ ~Has(r, c)
    BY <1>3, <1>4
  <2>3. /\ r \o <<c>> \in Queues /\ Append(r, c) = r \o <<c>>
        /\ \A u \in Threads : Has(r \o <<c>>, u) <=> Has(r, u) \/ u = c
    BY <2>1, <2>2
  <2> QED BY <2>3
<1>6. current' \in [Machines -> Threads \cup {NoThread}] /\ current'[m] = h
      /\ \A n \in Machines : n # m => current'[n] = current[n]
  BY <1>1, <1>2, <1>3
<1>7. ready' \in [Machines -> Queues] /\ ready'[m] = Append(r, c)
      /\ \A n \in Machines : n # m => ready'[n] = ready[n]
  BY <1>1, <1>2, <1>5
<1>8. ASSUME NEW t \in Threads
      PROVE  /\ ~(current'[m] = t /\ Has(ready'[m], t))
             /\ Awake(m, t)' <=> Awake(m, t)
  BY <1>3, <1>4, <1>5, <1>6, <1>7 DEF Awake
<1> QED BY <1>6, <1>7, <1>8 DEF CPUOf

\* V() on a semaphore s of thread t wakes it if it waits; the value goes up.
LEMMA SignalFacts ==
  ASSUME ThreadType, NEW m \in Machines, NEW t \in Threads, NEW s \in Sems(t),
         InOnePlace(m, t, s.queue), NEW u \in Threads, ~(current[m] = u /\ Has(ready[m], u)),
         ready' = [ready EXCEPT ![m] = @ \o Sched(m)!VWoken(s)], current' = current
  PROVE  /\ Sched(m)!VSignal(s) = [value |-> s.value + 1, queue |-> <<>>]
         /\ Sched(m)!VSignal(s) \in Sems(t)
         /\ ready' \in [Machines -> Queues]
         /\ \A n \in Machines : n # m => ready'[n] = ready[n]
         /\ ~(current'[m] = u /\ Has(ready'[m], u))
         /\ u # t => (Awake(m, u)' <=> Awake(m, u))
<1>1. s.value \in Nat /\ s.queue \in {<<>>, <<t>>}
  BY SMT DEF Sems
<1>2. Sched(m)!VSignal(s) = [value |-> s.value + 1, queue |-> <<>>]
  <2>1. Tail(<<t>>) = <<>>
    BY SMT
  <2> QED BY <1>1, <2>1 DEF Sched!VSignal
<1>3. Sched(m)!VSignal(s) \in Sems(t)
  <2>1. s.value + 1 \in Nat
    BY <1>1, SMT
  <2> QED BY <1>2, <2>1, SMT DEF Sems
<1>4. ready \in [Machines -> Queues] /\ ready[m] \in Queues
  BY DEF ThreadType
<1>5. CASE s.queue = <<>>
  <2>1. Sched(m)!VWoken(s) = <<>>
    BY <1>5 DEF Sched!VWoken
  <2>2. ready' = ready
    <3>1. ready[m] \o <<>> = ready[m]
      BY <1>4, QueueFacts
    <3>2. ready' = [ready EXCEPT ![m] = ready[m]]
      BY <2>1, <3>1
    <3> QED BY <1>4, <3>2
  <2> QED BY <1>2, <1>3, <1>4, <2>2 DEF Awake
<1>6. CASE s.queue = <<t>>
  <2>1. <<t>> # <<>> /\ Head(<<t>>) = t
    BY SMT
  <2>2. Sched(m)!VWoken(s) = <<t>>
    BY <1>6, <2>1 DEF Sched!VWoken
  <2>3. ~Has(ready[m], t) /\ current[m] # t
    BY <1>6, <2>1 DEF InOnePlace, Awake
  <2>4. /\ ready[m] \o <<t>> \in Queues
        /\ \A v \in Threads : Has(ready[m] \o <<t>>, v) <=> Has(ready[m], v) \/ v = t
    BY <1>4, <2>3, QueueFacts
  <2>5. ready' \in [Machines -> Queues] /\ ready'[m] = ready[m] \o <<t>>
        /\ \A n \in Machines : n # m => ready'[n] = ready[n]
    BY <1>4, <2>2, <2>4
  <2> QED BY <1>2, <1>3, <2>3, <2>4, <2>5 DEF Awake
<1> QED BY <1>1, <1>5, <1>6

-----------------------------------------------------------------------------
(* P() and V().                                                            *)

\* P() on a semaphore: it takes a permit, or the thread queues.
LEMMA PFacts ==
  ASSUME NEW m, NEW t, NEW s \in Sems(t)
  PROVE  /\ s.value > 0 => /\ Sched(m)!PTake(s) \in Sems(t)
                           /\ Sched(m)!PTake(s).value = s.value - 1
                           /\ Sched(m)!PTake(s).queue = s.queue
         /\ s.queue = <<>> => /\ Sched(m)!PQueue(s, t) \in Sems(t)
                              /\ Sched(m)!PQueue(s, t).value = s.value
                              /\ Sched(m)!PQueue(s, t).queue = <<t>>
<1>1. s.value \in Nat /\ s.queue \in {<<>>, <<t>>}
      /\ s = [value |-> s.value, queue |-> s.queue]
  BY SMT DEF Sems
<1>2. ASSUME s.value > 0
      PROVE  /\ Sched(m)!PTake(s) \in Sems(t)
             /\ Sched(m)!PTake(s).value = s.value - 1
             /\ Sched(m)!PTake(s).queue = s.queue
  <2>1. Sched(m)!PTake(s) = [value |-> s.value - 1, queue |-> s.queue]
    BY SMT DEF Sched!PTake, Sems
  <2>2. s.value - 1 \in Nat
    BY <1>1, <1>2, SMT
  <2> QED BY <1>1, <2>1, <2>2, SMT DEF Sems
<1>3. ASSUME s.queue = <<>>
      PROVE  /\ Sched(m)!PQueue(s, t) \in Sems(t)
             /\ Sched(m)!PQueue(s, t).value = s.value
             /\ Sched(m)!PQueue(s, t).queue = <<t>>
  <2>1. Append(s.queue, t) = <<t>>
    BY <1>3, SMT
  <2>2. Sched(m)!PQueue(s, t) = [s EXCEPT !.queue = <<t>>]
    BY <2>1 DEF Sched!PQueue
  <2>3. Sched(m)!PQueue(s, t) = [value |-> s.value, queue |-> <<t>>]
    BY <2>2, SMT DEF Sems
  <2> QED BY <1>1, <2>3, SMT DEF Sems
<1> QED BY <1>2, <1>3

\* A step of the threads of machine m that keeps each of them in one place.
ThreadStep(m) ==
  /\ current' \in [Machines -> Threads \cup {NoThread}]
  /\ ready' \in [Machines -> Queues]
  /\ inP' \in [Machines -> SUBSET Threads]
  /\ messageAvailable' \in [Machines -> Sems("postal")]
  /\ messageSent' \in [Machines -> Sems("main")]
  /\ \A n \in Machines : n # m =>
       /\ current'[n] = current[n] /\ ready'[n] = ready[n] /\ inP'[n] = inP[n]
       /\ messageAvailable'[n] = messageAvailable[n] /\ messageSent'[n] = messageSent[n]
  /\ OnePlaces(m)'

\* A turn of P() by the postal worker.
LEMMA AwaitMessageFacts ==
  ASSUME ThreadType, NEW m \in Machines, OnePlaces(m), current[m] = "postal",
         AwaitMessage(m)
  PROVE  /\ ThreadStep(m) /\ UNCHANGED <<messageSent, stage>>
         /\ "main" \in inP'[m] <=> "main" \in inP[m]
         /\ messageAvailable[m].value > 0 =>
              /\ messageAvailable'[m].value = messageAvailable[m].value - 1
              /\ messageAvailable'[m].queue = messageAvailable[m].queue
              /\ "postal" \notin inP'[m]
         /\ ~(messageAvailable[m].value > 0) =>
              /\ messageAvailable'[m].value = messageAvailable[m].value
              /\ "postal" \in inP'[m]
<1> DEFINE s == messageAvailable[m]
<1>1. /\ messageAvailable \in [Machines -> Sems("postal")] /\ s \in Sems("postal")
      /\ inP \in [Machines -> SUBSET Threads] /\ messageSent \in [Machines -> Sems("main")]
      /\ current \in [Machines -> Threads \cup {NoThread}] /\ ready \in [Machines -> Queues]
      /\ "postal" \in Threads /\ "main" \in Threads /\ "main" # "postal"
  BY DEF ThreadType, Threads
<1>2. s.queue = <<>> /\ ~Has(ready[m], "postal")
  BY DEF OnePlaces, InOnePlace, Awake
<1>3. CASE s.value > 0
  <2> DEFINE r == Sched(m)!PTake(s)
  <2>1. /\ messageAvailable' = [messageAvailable EXCEPT ![m] = r]
        /\ inP' = [inP EXCEPT ![m] = inP[m] \ {"postal"}]
        /\ UNCHANGED <<current, ready, messageSent, stage>>
    BY <1>3 DEF AwaitMessage
  <2>2. r \in Sems("postal") /\ r.value = s.value - 1 /\ r.queue = s.queue
    <3>1. s \in Sems("postal")
      BY <1>1
    <3> HIDE DEF s
    <3> QED BY <1>3, <3>1, PFacts
  <2> HIDE DEF r
  <2>3. /\ messageAvailable' \in [Machines -> Sems("postal")] /\ messageAvailable'[m] = r
        /\ \A n \in Machines : n # m => messageAvailable'[n] = messageAvailable[n]
    BY <1>1, <2>1, <2>2
  <2>4. /\ inP' \in [Machines -> SUBSET Threads] /\ inP'[m] = inP[m] \ {"postal"}
        /\ \A n \in Machines : n # m => inP'[n] = inP[n]
    BY <1>1, <2>1
  <2>5. InOnePlace(m, "postal", messageAvailable[m].queue)'
        /\ InOnePlace(m, "main", messageSent[m].queue)'
    BY <2>1, <2>2, <2>3 DEF OnePlaces, InOnePlace, Awake
  <2>6. ThreadStep(m)
    BY <1>1, <2>1, <2>3, <2>4, <2>5 DEF ThreadStep, OnePlaces
  <2> QED BY <1>1, <1>3, <2>1, <2>2, <2>3, <2>4, <2>6
<1>4. CASE ~(s.value > 0)
  <2> DEFINE r == Sched(m)!PQueue(s, "postal")
  <2>1. /\ messageAvailable' = [messageAvailable EXCEPT ![m] = r]
        /\ inP' = [inP EXCEPT ![m] = inP[m] \cup {"postal"}]
        /\ UNCHANGED <<messageSent, stage>>
        /\ Sleeps(m)
    BY <1>4 DEF AwaitMessage
  <2>2. r \in Sems("postal") /\ r.value = s.value /\ r.queue = <<"postal">>
    <3>1. s \in Sems("postal") /\ s.queue = <<>>
      BY <1>1, <1>2
    <3> HIDE DEF s
    <3> QED BY <3>1, PFacts, SMT
  <2> HIDE DEF r
  <2>3. /\ messageAvailable' \in [Machines -> Sems("postal")] /\ messageAvailable'[m] = r
        /\ \A n \in Machines : n # m => messageAvailable'[n] = messageAvailable[n]
    BY <1>1, <2>1, <2>2
  <2>4. /\ inP' \in [Machines -> SUBSET Threads] /\ inP'[m] = inP[m] \cup {"postal"}
        /\ \A n \in Machines : n # m => inP'[n] = inP[n]
    BY <1>1, <2>1
  <2>5. CPUOf(m) /\ \A t \in Threads : Awake(m, t)' <=> Has(ready[m], t)
    BY <2>1, SleepsFacts
  <2>6. InOnePlace(m, "postal", messageAvailable[m].queue)'
    BY <1>1, <1>2, <2>5 DEF CPUOf, InOnePlace
  <2>7. InOnePlace(m, "main", messageSent[m].queue)'
    BY <1>1, <2>1, <2>5 DEF CPUOf, OnePlaces, InOnePlace, Awake
  <2>8. ThreadStep(m)
    BY <1>1, <2>1, <2>3, <2>4, <2>5, <2>6, <2>7 DEF ThreadStep, CPUOf, OnePlaces
  <2> QED BY <1>1, <1>4, <2>1, <2>2, <2>3, <2>4, <2>8
<1> QED BY <1>3, <1>4

\* A turn of P() by main in Send.
LEMMA AwaitSentFacts ==
  ASSUME ThreadType, NEW m \in Machines, OnePlaces(m), current[m] = "main",
         AwaitSent(m)
  PROVE  /\ ThreadStep(m) /\ UNCHANGED messageAvailable
         /\ "postal" \in inP'[m] <=> "postal" \in inP[m]
         /\ messageSent[m].value > 0 =>
              /\ messageSent'[m].value = messageSent[m].value - 1
              /\ messageSent'[m].queue = messageSent[m].queue
              /\ "main" \notin inP'[m]
              /\ stage' = [stage EXCEPT ![m] = stage[m] + 1]
         /\ ~(messageSent[m].value > 0) =>
              /\ messageSent'[m].value = messageSent[m].value
              /\ "main" \in inP'[m]
              /\ stage' = stage
<1> DEFINE s == messageSent[m]
<1>1. /\ messageSent \in [Machines -> Sems("main")] /\ s \in Sems("main")
      /\ inP \in [Machines -> SUBSET Threads] /\ messageAvailable \in [Machines -> Sems("postal")]
      /\ current \in [Machines -> Threads \cup {NoThread}] /\ ready \in [Machines -> Queues]
      /\ "main" \in Threads /\ "postal" \in Threads /\ "postal" # "main"
  BY DEF ThreadType, Threads
<1>2. s.queue = <<>> /\ ~Has(ready[m], "main")
  BY DEF OnePlaces, InOnePlace, Awake
<1>3. CASE s.value > 0
  <2> DEFINE r == Sched(m)!PTake(s)
  <2>1. /\ messageSent' = [messageSent EXCEPT ![m] = r]
        /\ inP' = [inP EXCEPT ![m] = inP[m] \ {"main"}]
        /\ UNCHANGED <<current, ready, messageAvailable>>
        /\ stage' = [stage EXCEPT ![m] = stage[m] + 1]
    BY <1>3 DEF AwaitSent
  <2>2. r \in Sems("main") /\ r.value = s.value - 1 /\ r.queue = s.queue
    <3>1. s \in Sems("main")
      BY <1>1
    <3> HIDE DEF s
    <3> QED BY <1>3, <3>1, PFacts
  <2> HIDE DEF r
  <2>3. /\ messageSent' \in [Machines -> Sems("main")] /\ messageSent'[m] = r
        /\ \A n \in Machines : n # m => messageSent'[n] = messageSent[n]
    BY <1>1, <2>1, <2>2
  <2>4. /\ inP' \in [Machines -> SUBSET Threads] /\ inP'[m] = inP[m] \ {"main"}
        /\ \A n \in Machines : n # m => inP'[n] = inP[n]
    BY <1>1, <2>1
  <2>5. InOnePlace(m, "main", messageSent[m].queue)'
        /\ InOnePlace(m, "postal", messageAvailable[m].queue)'
    BY <2>1, <2>2, <2>3 DEF OnePlaces, InOnePlace, Awake
  <2>6. ThreadStep(m)
    BY <1>1, <2>1, <2>3, <2>4, <2>5 DEF ThreadStep, OnePlaces
  <2> QED BY <1>1, <1>3, <2>1, <2>2, <2>3, <2>4, <2>6
<1>4. CASE ~(s.value > 0)
  <2> DEFINE r == Sched(m)!PQueue(s, "main")
  <2>1. /\ messageSent' = [messageSent EXCEPT ![m] = r]
        /\ inP' = [inP EXCEPT ![m] = inP[m] \cup {"main"}]
        /\ UNCHANGED messageAvailable /\ stage' = stage
        /\ Sleeps(m)
    BY <1>4 DEF AwaitSent
  <2>2. r \in Sems("main") /\ r.value = s.value /\ r.queue = <<"main">>
    <3>1. s \in Sems("main") /\ s.queue = <<>>
      BY <1>1, <1>2
    <3> HIDE DEF s
    <3> QED BY <3>1, PFacts, SMT
  <2> HIDE DEF r
  <2>3. /\ messageSent' \in [Machines -> Sems("main")] /\ messageSent'[m] = r
        /\ \A n \in Machines : n # m => messageSent'[n] = messageSent[n]
    BY <1>1, <2>1, <2>2
  <2>4. /\ inP' \in [Machines -> SUBSET Threads] /\ inP'[m] = inP[m] \cup {"main"}
        /\ \A n \in Machines : n # m => inP'[n] = inP[n]
    BY <1>1, <2>1
  <2>5. CPUOf(m) /\ \A t \in Threads : Awake(m, t)' <=> Has(ready[m], t)
    BY <2>1, SleepsFacts
  <2>6. InOnePlace(m, "main", messageSent[m].queue)'
    BY <1>1, <1>2, <2>5 DEF CPUOf, InOnePlace
  <2>7. InOnePlace(m, "postal", messageAvailable[m].queue)'
    BY <1>1, <2>1, <2>5 DEF CPUOf, OnePlaces, InOnePlace, Awake
  <2>8. ThreadStep(m)
    BY <1>1, <2>1, <2>3, <2>4, <2>5, <2>6, <2>7 DEF ThreadStep, CPUOf, OnePlaces
  <2> QED BY <1>1, <1>4, <2>1, <2>2, <2>3, <2>4, <2>8
<1> QED BY <1>3, <1>4

-----------------------------------------------------------------------------
(* The steps of the threads keep ThreadInv.                                *)

\* A step of machine m.
LEMMA ThreadOne ==
  ASSUME ThreadInv, NEW m \in Machines, ThreadStep(m),
         status' \in [Machines -> {"run", "halted", "assert"}],
         sending' \in [Machines -> Nat],
         \A n \in Machines : n # m => /\ status'[n] = status[n] /\ sending'[n] = sending[n]
                                      /\ inbox'[n] = inbox[n],
         Permit(m)'
  PROVE  ThreadInv'
<1>1. ThreadType'
  BY DEF ThreadStep, ThreadType
<1>2. ASSUME NEW n \in Machines PROVE OnePlaces(n)' /\ Permit(n)'
  <2>1. CASE n = m
    BY <2>1 DEF ThreadStep
  <2>2. CASE n # m
    <3>1. /\ current'[n] = current[n] /\ ready'[n] = ready[n] /\ inP'[n] = inP[n]
          /\ messageAvailable'[n] = messageAvailable[n] /\ messageSent'[n] = messageSent[n]
          /\ status'[n] = status[n] /\ sending'[n] = sending[n] /\ inbox'[n] = inbox[n]
      BY <2>2 DEF ThreadStep
    <3>2. OnePlaces(n) /\ Permit(n)
      BY DEF ThreadInv
    <3>3. OnePlaces(n)'
      BY <3>1, <3>2 DEF OnePlaces, InOnePlace, Awake
    <3>4. Permit(n)'
      BY <3>1, <3>2 DEF Permit
    <3> QED BY <3>3, <3>4
  <2> QED BY <2>1, <2>2
<1> QED BY <1>1, <1>2 DEF ThreadInv

\* The types of the counters of machine m.
LEMMA CounterTypes ==
  ASSUME ThreadType, NEW m \in Machines
  PROVE  /\ messageAvailable[m].value \in Nat /\ messageSent[m].value \in Nat
         /\ sending[m] \in Nat /\ \A b : Num(b) \in {0, 1}
<1>1. messageAvailable[m] \in Sems("postal") /\ messageSent[m] \in Sems("main") /\ sending[m] \in Nat
  BY DEF ThreadType
<1> QED BY <1>1, SMT DEF Sems, Num

LEMMA RetryThreads ==
  ASSUME ThreadInv, NEW m \in Machines, Retry(m)
  PROVE  ThreadInv'
<1>1. /\ status[m] = "run" /\ current[m] \in inP[m]
      /\ UNCHANGED <<status, sending, inbox>>
  BY DEF Retry, netVars
<1>2. ThreadType /\ OnePlaces(m) /\ Permit(m)
  BY DEF ThreadInv
<1>3. /\ messageAvailable[m].value \in Nat /\ messageSent[m].value \in Nat
      /\ sending[m] \in Nat
  BY <1>2, CounterTypes
<1>4. /\ status' \in [Machines -> {"run", "halted", "assert"}] /\ sending' \in [Machines -> Nat]
      /\ \A n \in Machines : n # m => /\ status'[n] = status[n] /\ sending'[n] = sending[n]
                                      /\ inbox'[n] = inbox[n]
  BY <1>1, <1>2 DEF ThreadType
<1>5. CASE current[m] = "main"
  <2> DEFINE v == messageSent[m].value
  <2>1. AwaitSent(m)
    BY <1>5 DEF Retry
  <2>2. /\ ThreadStep(m) /\ UNCHANGED messageAvailable
        /\ "postal" \in inP'[m] <=> "postal" \in inP[m]
        /\ v > 0 => /\ messageSent'[m].value = v - 1
                    /\ messageSent'[m].queue = messageSent[m].queue
                    /\ "main" \notin inP'[m]
        /\ ~(v > 0) => messageSent'[m].value = v /\ "main" \in inP'[m]
    BY <1>2, <1>5, <2>1, AwaitSentFacts
  <2>3. v + sending[m] = 1
    BY <1>1, <1>2, <1>5 DEF Permit, Num
  <2>4. messageSent'[m].value + sending'[m] = Num("main" \in inP'[m])
        /\ (messageSent'[m].value > 0 => messageSent'[m].queue = <<>>)
    <3>1. CASE v > 0
      <4>1. v = 1 /\ sending[m] = 0 /\ v - 1 = 0
        BY <1>3, <2>3, <3>1, SMT
      <4>2. messageSent'[m].value = 0 /\ sending'[m] = 0 /\ "main" \notin inP'[m]
        BY <1>1, <2>2, <3>1, <4>1
      <4> QED BY <4>2, SMT DEF Num
    <3>2. CASE ~(v > 0)
      BY <1>1, <2>2, <2>3, <3>2 DEF Num
    <3> QED BY <3>1, <3>2
  <2>5. Permit(m)'
    BY <1>1, <1>2, <2>2, <2>4 DEF Permit, Num
  <2> QED BY <1>4, <2>2, <2>5, ThreadOne
<1>6. CASE current[m] # "main"
  <2> DEFINE v == messageAvailable[m].value
  <2>1. current[m] = "postal" /\ AwaitMessage(m)
    BY <1>1, <1>2, <1>6 DEF Retry, ThreadType, Threads
  <2>2. /\ ThreadStep(m) /\ UNCHANGED messageSent
        /\ "main" \in inP'[m] <=> "main" \in inP[m]
        /\ v > 0 => /\ messageAvailable'[m].value = v - 1
                    /\ messageAvailable'[m].queue = messageAvailable[m].queue
                    /\ "postal" \notin inP'[m]
        /\ ~(v > 0) => messageAvailable'[m].value = v /\ "postal" \in inP'[m]
    BY <1>2, <2>1, AwaitMessageFacts
  <2>3. v + 0 = Num(inbox[m] # NoMail)
    BY <1>1, <1>2, <2>1 DEF Permit, Num
  <2>4. messageAvailable'[m].value + Num("postal" \notin inP'[m]) = Num(inbox'[m] # NoMail)
        /\ (messageAvailable'[m].value > 0 => messageAvailable'[m].queue = <<>>)
    <3>1. CASE v > 0
      <4>1. v = 1 /\ v - 1 = 0 /\ Num(inbox[m] # NoMail) = 1
        BY <1>3, <2>3, <3>1, SMT DEF Num
      <4>2. messageAvailable'[m].value = 0 /\ Num(inbox'[m] # NoMail) = 1
            /\ Num("postal" \notin inP'[m]) = 1
        BY <1>1, <2>2, <3>1, <4>1 DEF Num
      <4> QED BY <4>2, SMT
    <3>2. CASE ~(v > 0)
      <4>1. messageAvailable'[m].value = v /\ Num("postal" \notin inP'[m]) = 0
            /\ inbox'[m] = inbox[m] /\ ~(messageAvailable'[m].value > 0)
        BY <1>1, <2>2, <3>2 DEF Num
      <4> QED BY <2>3, <4>1
    <3> QED BY <3>1, <3>2
  <2>5. Permit(m)'
    BY <1>1, <1>2, <2>2, <2>4 DEF Permit, Num
  <2> QED BY <1>4, <2>2, <2>5, ThreadOne
<1> QED BY <1>5, <1>6

\* PostalDelivery has the permit of the packet that is buffered, and no
\* other; it takes the packet and waits for the next one.
LEMMA DeliveryThreads ==
  ASSUME ThreadInv, NEW m \in Machines, PostalDelivery(m),
         inbox \in [Machines -> Mails \cup {NoMail}]
  PROVE  /\ ThreadInv' /\ inbox[m] # NoMail
         /\ "main" \in inP'[m] <=> "main" \in inP[m]
         /\ \A n \in Machines : n # m => inP'[n] = inP[n]
<1>1. /\ current[m] = "postal" /\ "postal" \notin inP[m] /\ AwaitMessage(m)
      /\ inbox' = [inbox EXCEPT ![m] = NoMail] /\ UNCHANGED <<status, sending>>
  BY DEF PostalDelivery, Running, NetworkReceive
<1>2. ThreadType /\ OnePlaces(m) /\ Permit(m)
  BY DEF ThreadInv
<1>3. messageAvailable[m].value = 0 /\ inbox[m] # NoMail
  <2>1. messageAvailable[m].value \in Nat /\ messageAvailable[m].value + 1 = Num(inbox[m] # NoMail)
    BY <1>1, <1>2, CounterTypes DEF Permit, Num
  <2> QED BY <2>1, SMT DEF Num
<1>4. ~(messageAvailable[m].value > 0)
  BY <1>3, SMT
<1>5. /\ ThreadStep(m) /\ UNCHANGED messageSent
      /\ "main" \in inP'[m] <=> "main" \in inP[m]
      /\ messageAvailable'[m].value = messageAvailable[m].value /\ "postal" \in inP'[m]
  BY <1>1, <1>2, <1>4, AwaitMessageFacts
<1>6. inbox'[m] = NoMail /\ \A n \in Machines : n # m => inbox'[n] = inbox[n]
  BY <1>1
<1>7. Permit(m)'
  <2>1. messageAvailable'[m].value + Num("postal" \notin inP'[m]) = Num(inbox'[m] # NoMail)
    <3>1. /\ messageAvailable'[m].value = 0 /\ Num("postal" \notin inP'[m]) = 0
          /\ Num(inbox'[m] # NoMail) = 0
      BY <1>3, <1>5, <1>6 DEF Num
    <3> QED BY <3>1, SMT
  <2> QED BY <1>1, <1>2, <1>4, <1>5, <2>1 DEF Permit, Num
<1>8. status' \in [Machines -> {"run", "halted", "assert"}] /\ sending' \in [Machines -> Nat]
  BY <1>1, <1>2 DEF ThreadType
<1>9. ThreadInv'
  BY <1>1, <1>5, <1>6, <1>7, <1>8, ThreadOne
<1> QED BY <1>3, <1>5, <1>9 DEF ThreadStep

\* Send waits for the permit of its own packet, or its machine stops.
LEMMA SendThreads ==
  ASSUME ThreadInv, NEW m \in Machines, NEW mail, Running(m, "main"), Send(m, mail)
  PROVE  /\ ThreadInv' /\ status' \in {status, [status EXCEPT ![m] = "assert"]}
         /\ \A n \in Machines : n # m => inP'[n] = inP[n]
         /\ stage' = stage
         /\ status'[m] = "run" => "main" \in inP'[m]
         /\ status'[m] # "run" => inP' = inP
<1>1. /\ status[m] = "run" /\ current[m] = "main" /\ "main" \notin inP[m]
      /\ sending' = [sending EXCEPT ![m] = sending[m] + 1] /\ UNCHANGED inbox
      /\ status' = status \/ status' = [status EXCEPT ![m] = "assert"]
  BY DEF Running, Send, NetworkSend, SendToSocket
<1>2. ThreadType /\ OnePlaces(m) /\ Permit(m)
  BY DEF ThreadInv
<1>3. messageSent[m].value = 0 /\ sending[m] = 0
  <2>1. messageSent[m].value \in Nat /\ sending[m] \in Nat /\ messageSent[m].value + sending[m] = 0
    BY <1>1, <1>2, CounterTypes DEF Permit, Num
  <2> QED BY <2>1, SMT
<1>4. /\ sending' \in [Machines -> Nat] /\ sending'[m] = 1
      /\ \A n \in Machines : n # m => sending'[n] = sending[n]
  <2>1. sending \in [Machines -> Nat] /\ sending[m] + 1 = 1
    BY <1>2, <1>3, SMT DEF ThreadType
  <2> QED BY <1>1, <2>1, SMT
<1>5. /\ status' \in [Machines -> {"run", "halted", "assert"}]
      /\ status'[m] \in {"run", "assert"}
      /\ \A n \in Machines : n # m => status'[n] = status[n]
  BY <1>1, <1>2 DEF ThreadType
<1>6. CASE status'[m] = "run"
  <2>1. AwaitSent(m) /\ ~(messageSent[m].value > 0)
    <3>1. AwaitSent(m)
      BY <1>6 DEF Send
    <3> QED BY <1>3, <3>1, SMT
  <2>2. /\ ThreadStep(m) /\ UNCHANGED messageAvailable
        /\ "postal" \in inP'[m] <=> "postal" \in inP[m]
        /\ messageSent'[m].value = messageSent[m].value /\ "main" \in inP'[m]
        /\ stage' = stage
    BY <1>1, <1>2, <2>1, AwaitSentFacts
  <2>3. Permit(m)'
    <3>1. messageSent'[m].value + sending'[m] = Num("main" \in inP'[m])
      <4>1. messageSent'[m].value = 0 /\ Num("main" \in inP'[m]) = 1
        BY <1>3, <2>2 DEF Num
      <4> QED BY <1>4, <4>1, SMT
    <3> QED BY <1>1, <1>2, <2>1, <2>2, <3>1 DEF Permit, Num
  <2>4. ThreadInv'
    BY <1>1, <1>4, <1>5, <2>2, <2>3, ThreadOne
  <2> QED BY <1>1, <1>6, <2>2, <2>4 DEF ThreadStep
<1>7. CASE status'[m] # "run"
  <2>1. UNCHANGED <<current, ready, inP, messageAvailable, messageSent, stage>>
    BY <1>7 DEF Send, semVars
  <2>2. ThreadStep(m)
    BY <1>2, <2>1 DEF ThreadStep, ThreadType, OnePlaces, InOnePlace, Awake
  <2>3. Permit(m)'
    BY <1>1, <1>2, <1>5, <1>7, <2>1 DEF Permit, Num
  <2>4. ThreadInv'
    BY <1>1, <1>4, <1>5, <2>2, <2>3, ThreadOne
  <2> QED BY <1>1, <1>7, <2>1, <2>4
<1> QED BY <1>6, <1>7

\* Receive and the end of MailTest change no thread; the machine may stop.
LEMMA StopThreads ==
  ASSUME ThreadInv, NEW m \in Machines, status[m] = "run",
         UNCHANGED <<current, ready, inP, messageAvailable, messageSent, sending, inbox>>,
         NEW w \in {"halted", "assert"},
         status' = status \/ status' = [status EXCEPT ![m] = w]
  PROVE  ThreadInv'
<1>1. ThreadType /\ OnePlaces(m) /\ Permit(m)
  BY DEF ThreadInv
<1>2. ThreadStep(m)
  BY <1>1 DEF ThreadStep, ThreadType, OnePlaces, InOnePlace, Awake
<1>3. /\ status' \in [Machines -> {"run", "halted", "assert"}]
      /\ \A n \in Machines : n # m => status'[n] = status[n]
      /\ sending' \in [Machines -> Nat]
  BY <1>1 DEF ThreadType
<1>4. Permit(m)'
  BY <1>1 DEF Permit, Num
<1> QED BY <1>2, <1>3, <1>4, ThreadOne

\* The handler of a sent packet gives main its permit.
LEMMA SendDoneThreads ==
  ASSUME ThreadInv, NEW m \in Machines, SendDone(m)
  PROVE  ThreadInv'
<1> DEFINE s == messageSent[m]
           r == Sched(m)!VSignal(s)
<1>1. /\ status[m] = "run" /\ sending[m] > 0
      /\ sending' = [sending EXCEPT ![m] = sending[m] - 1]
      /\ messageSent' = [messageSent EXCEPT ![m] = r]
      /\ ready' = [ready EXCEPT ![m] = @ \o Sched(m)!VWoken(s)]
      /\ UNCHANGED <<status, current, inP, messageAvailable, inbox>>
  BY DEF SendDone, PacketSent, InterruptsOn
<1>2. ThreadType /\ OnePlaces(m) /\ Permit(m)
  BY DEF ThreadInv
<1>3. /\ messageSent \in [Machines -> Sems("main")] /\ s \in Sems("main")
      /\ sending \in [Machines -> Nat] /\ sending[m] \in Nat /\ s.value \in Nat
      /\ "main" \in Threads /\ "postal" \in Threads /\ "main" # "postal"
  BY <1>2, CounterTypes DEF ThreadType, Threads
<1>4. /\ InOnePlace(m, "main", s.queue)
      /\ ~(current[m] = "main" /\ Has(ready[m], "main"))
      /\ ~(current[m] = "postal" /\ Has(ready[m], "postal"))
  BY <1>2 DEF OnePlaces, InOnePlace
<1>5. /\ r = [value |-> s.value + 1, queue |-> <<>>] /\ r \in Sems("main")
      /\ ready' \in [Machines -> Queues]
      /\ \A n \in Machines : n # m => ready'[n] = ready[n]
      /\ ~(current'[m] = "main" /\ Has(ready'[m], "main"))
  BY <1>1, <1>2, <1>3, <1>4, SignalFacts
<1>6. /\ ~(current'[m] = "postal" /\ Has(ready'[m], "postal"))
      /\ Awake(m, "postal")' <=> Awake(m, "postal")
  BY <1>1, <1>2, <1>3, <1>4, SignalFacts
<1> HIDE DEF r
<1>7. /\ messageSent' \in [Machines -> Sems("main")] /\ messageSent'[m] = r
      /\ \A n \in Machines : n # m => messageSent'[n] = messageSent[n]
  BY <1>1, <1>3, <1>5
<1>8. messageSent'[m].value = s.value + 1 /\ messageSent'[m].queue = <<>>
  <2>1. r.value = s.value + 1 /\ r.queue = <<>>
    BY <1>5, SMT
  <2> QED BY <1>7, <2>1
<1>9. /\ sending' \in [Machines -> Nat] /\ sending'[m] = sending[m] - 1
      /\ \A n \in Machines : n # m => sending'[n] = sending[n]
  <2>1. sending[m] - 1 \in Nat
    BY <1>1, <1>3, SMT
  <2> QED BY <1>1, <1>3, <2>1
<1>10. ThreadStep(m)
  <2>1. OnePlaces(m)'
    BY <1>1, <1>2, <1>5, <1>6, <1>8 DEF OnePlaces, InOnePlace
  <2> QED BY <1>1, <1>2, <1>5, <1>7, <2>1 DEF ThreadStep, ThreadType
<1>11. Permit(m)'
  <2>1. messageSent'[m].value + sending'[m] = s.value + sending[m]
    <3>1. (s.value + 1) + (sending[m] - 1) = s.value + sending[m]
      BY <1>3, SMT
    <3> QED BY <1>8, <1>9, <3>1
  <2> QED BY <1>1, <1>2, <1>8, <2>1 DEF Permit, Num
<1>12. status' \in [Machines -> {"run", "halted", "assert"}]
  BY <1>1, <1>2 DEF ThreadType
<1> QED BY <1>1, <1>9, <1>10, <1>11, <1>12, ThreadOne

\* No mail is NoMail.
LEMMA MailFacts ==
  /\ NoMail \notin Mails
  /\ \A p \in Machines : /\ Data(p) \in Mails /\ AckOf(p) \in Mails
                         /\ Data(p).from = p /\ Data(p).to = Far[p] /\ Data(p).box = 0
                         /\ Data(p).text = "data" /\ Data(p).reply = 1
                         /\ AckOf(p).from = Far[p] /\ AckOf(p).to = p /\ AckOf(p).box = 1
                         /\ AckOf(p).text = "ack"
                         /\ Far[p] \in Machines
  /\ \A x \in Mails : \/ \E p \in Machines : x = Data(p)
                      \/ \E p \in Machines : x = AckOf(p)
  /\ \A x \in Mails : x.to \in Machines /\ x.from \in Machines /\ x.box \in Boxes
<1>1. \A p \in Machines : Far[p] \in Machines
  BY PostAssumption
<1>2. \A p \in Machines : /\ Data(p) \in Mails /\ AckOf(p) \in Mails
                          /\ Data(p).from = p /\ Data(p).to = Far[p] /\ Data(p).box = 0
                          /\ Data(p).text = "data" /\ Data(p).reply = 1
                          /\ AckOf(p).from = Far[p] /\ AckOf(p).to = p /\ AckOf(p).box = 1
                          /\ AckOf(p).text = "ack"
  BY DEF Mails, Data, AckOf
<1>3. \A x \in Mails : (\E p \in Machines : x = Data(p)) \/ (\E p \in Machines : x = AckOf(p))
  BY DEF Mails
<1>4. NoMail.text = "none"
  BY DEF NoMail
<1>5. 0 \in Boxes /\ 1 \in Boxes
  BY SMT DEF Boxes
<1>6. ASSUME NEW x \in Mails
      PROVE  x.to \in Machines /\ x.from \in Machines /\ x.box \in Boxes /\ x.text # "none"
  <2>1. CASE \E p \in Machines : x = Data(p)
    <3>1. PICK p \in Machines : x = Data(p)
      BY <2>1
    <3> QED BY <1>1, <1>2, <1>5, <3>1
  <2>2. CASE \E p \in Machines : x = AckOf(p)
    <3>1. PICK p \in Machines : x = AckOf(p)
      BY <2>2
    <3> QED BY <1>1, <1>2, <1>5, <3>1
  <2> QED BY <1>3, <2>1, <2>2
<1>7. NoMail \notin Mails
  BY <1>4, <1>6
<1> QED BY <1>1, <1>2, <1>3, <1>6, <1>7

\* A mail is not the mail that stands for none.
LEMMA NotNoMail ==
  ASSUME NEW x \in Mails
  PROVE  NoMail # x
BY MailFacts

\* Its machines and its box are there.
LEMMA MailEnds ==
  ASSUME NEW x \in Mails
  PROVE  x.to \in Machines /\ x.from \in Machines /\ x.box \in Boxes
BY MailFacts

\* The handler of an incoming packet gives the postal worker its permit.
LEMMA ArrivalThreads ==
  ASSUME ThreadInv, NEW m \in Machines, CheckPktAvail(m), MailType
  PROVE  ThreadInv'
<1> DEFINE s == messageAvailable[m]
           r == Sched(m)!VSignal(s)
<1>1. /\ status[m] = "run" /\ inbox[m] = NoMail /\ socket[m] # <<>>
      /\ inbox' = [inbox EXCEPT ![m] = Head(socket[m])]
      /\ messageAvailable' = [messageAvailable EXCEPT ![m] = r]
      /\ ready' = [ready EXCEPT ![m] = @ \o Sched(m)!VWoken(s)]
      /\ UNCHANGED <<status, current, inP, messageSent, sending>>
  BY DEF CheckPktAvail, MayRead, PollSocket, IncomingPacket, InterruptsOn, ReadFromSocket
<1>2. ThreadType /\ OnePlaces(m) /\ Permit(m)
  BY DEF ThreadInv
<1>3. /\ messageAvailable \in [Machines -> Sems("postal")] /\ s \in Sems("postal")
      /\ s.value \in Nat
      /\ "main" \in Threads /\ "postal" \in Threads /\ "main" # "postal"
  BY <1>2, CounterTypes DEF ThreadType, Threads
<1>4. /\ InOnePlace(m, "postal", s.queue)
      /\ ~(current[m] = "main" /\ Has(ready[m], "main"))
      /\ ~(current[m] = "postal" /\ Has(ready[m], "postal"))
  BY <1>2 DEF OnePlaces, InOnePlace
<1>5. /\ r = [value |-> s.value + 1, queue |-> <<>>] /\ r \in Sems("postal")
      /\ ready' \in [Machines -> Queues]
      /\ \A n \in Machines : n # m => ready'[n] = ready[n]
      /\ ~(current'[m] = "postal" /\ Has(ready'[m], "postal"))
  BY <1>1, <1>2, <1>3, <1>4, SignalFacts
<1>6. /\ ~(current'[m] = "main" /\ Has(ready'[m], "main"))
      /\ Awake(m, "main")' <=> Awake(m, "main")
  BY <1>1, <1>2, <1>3, <1>4, SignalFacts
<1> HIDE DEF r
<1>7. /\ messageAvailable' \in [Machines -> Sems("postal")] /\ messageAvailable'[m] = r
      /\ \A n \in Machines : n # m => messageAvailable'[n] = messageAvailable[n]
  BY <1>1, <1>3, <1>5
<1>8. messageAvailable'[m].value = s.value + 1 /\ messageAvailable'[m].queue = <<>>
  <2>1. r.value = s.value + 1 /\ r.queue = <<>>
    BY <1>5, SMT
  <2> QED BY <1>7, <2>1
<1>9. /\ inbox'[m] # NoMail
      /\ \A n \in Machines : n # m => inbox'[n] = inbox[n]
  <2>1. Head(socket[m]) \in Mails
    <3>1. socket[m] \in Seq(Mails)
      BY DEF MailType
    <3> QED BY <1>1, <3>1, SMT
  <2>2. inbox \in [Machines -> Mails \cup {NoMail}]
    BY DEF MailType
  <2> QED BY <1>1, <2>1, <2>2, MailFacts
<1>10. ThreadStep(m)
  <2>1. OnePlaces(m)'
    BY <1>1, <1>2, <1>5, <1>6, <1>8 DEF OnePlaces, InOnePlace
  <2> QED BY <1>1, <1>2, <1>5, <1>7, <2>1 DEF ThreadStep, ThreadType
<1>11. Permit(m)'
  <2>1. s.value + Num("postal" \notin inP[m]) = 0
    BY <1>1, <1>2 DEF Permit, Num
  <2>2. s.value = 0 /\ Num("postal" \notin inP[m]) = 0
    BY <1>3, <2>1, SMT DEF Num
  <2>3. messageAvailable'[m].value + Num("postal" \notin inP'[m]) = Num(inbox'[m] # NoMail)
    <3>1. Num("postal" \notin inP'[m]) = 0 /\ Num(inbox'[m] # NoMail) = 1
      BY <1>1, <1>9, <2>2 DEF Num
    <3> QED BY <1>8, <2>2, <3>1, SMT
  <2> QED BY <1>1, <1>2, <1>8, <2>3 DEF Permit, Num
<1>12. status' \in [Machines -> {"run", "halted", "assert"}] /\ sending' \in [Machines -> Nat]
  BY <1>1, <1>2 DEF ThreadType
<1> QED BY <1>1, <1>9, <1>10, <1>11, <1>12, ThreadOne

\* Dispatch and the timer move the CPU.
LEMMA CPUThreads ==
  ASSUME ThreadInv, NEW m \in Machines, Dispatch(m) \/ Preempt(m)
  PROVE  ThreadInv'
<1>1. UNCHANGED <<status, inP, messageAvailable, messageSent, sending, inbox>>
  BY DEF Dispatch, Preempt, semVars, netVars
<1>2. ThreadType /\ OnePlaces(m) /\ Permit(m)
  BY DEF ThreadInv
<1>3. CPUOf(m) /\ \A t \in Threads : Awake(m, t)' <=> Awake(m, t)
  <2>1. CASE Dispatch(m)
    <3>1. Sleeps(m) /\ current[m] = NoThread
      BY <2>1 DEF Dispatch
    <3>2. \A t \in Threads : t # NoThread
      BY DEF Threads, NoThread
    <3> QED BY <1>2, <3>1, <3>2, SleepsFacts DEF Awake
  <2>2. CASE Preempt(m)
    <3>1. current[m] \in Threads /\ current[m] # NoThread
      BY <1>2, <2>2 DEF Preempt, ThreadType
    <3>2. ~Has(ready[m], current[m])
      BY <1>2, <3>1 DEF OnePlaces, InOnePlace, Threads
    <3> QED BY <1>2, <2>2, <3>2, PreemptFacts
  <2> QED BY <2>1, <2>2
<1>4. OnePlaces(m)'
  <2>1. "main" \in Threads /\ "postal" \in Threads
    BY DEF Threads
  <2> QED BY <1>1, <1>2, <1>3, <2>1 DEF OnePlaces, InOnePlace, CPUOf
<1>5. ThreadStep(m)
  BY <1>1, <1>2, <1>3, <1>4 DEF ThreadStep, ThreadType, CPUOf
<1>6. Permit(m)'
  BY <1>1, <1>2 DEF Permit, Num
<1>7. status' \in [Machines -> {"run", "halted", "assert"}] /\ sending' \in [Machines -> Nat]
  BY <1>1, <1>2 DEF ThreadType
<1> QED BY <1>1, <1>5, <1>6, <1>7, ThreadOne

-----------------------------------------------------------------------------
(* Where a mail is, and whether it is sent.                                *)

AtSocket(x) == Copies(socket[x.to], x)
AtInbox(x) == Num(inbox[x.to] = x)
AtBox(b, x) == Cardinality(Holding(boxes[x.to][b], x))
InHand(b, x) == Num(in[x.to][b] = x)

\* The places of a mail, before and after a step.
LEMMA PlacesSum ==
  ASSUME NEW CONSTANT x
  PROVE  /\ Places(x) = AtSocket(x) + AtInbox(x) + AtBox(0, x) + AtBox(1, x)
                          + (InHand(0, x) + InHand(1, x))
         /\ Places(x)' = AtSocket(x)' + AtInbox(x)' + AtBox(0, x)' + AtBox(1, x)'
                           + (InHand(0, x)' + InHand(1, x)')
<1>1. Cardinality(BoxesWith(in[x.to], x)) = InHand(0, x) + InHand(1, x)
  BY BoxesCount DEF InHand, Num
<1>2. Cardinality(BoxesWith(in'[x.to], x)) = InHand(0, x)' + InHand(1, x)'
  BY BoxesCount DEF InHand, Num
<1> QED BY <1>1, <1>2 DEF BoxesWith, Places, AtSocket, AtInbox, AtBox, Copies, Holding, InBox, Num

\* Each of the places is counted.
LEMMA PlaceTypes ==
  ASSUME MailType, NEW CONSTANT x \in Mails
  PROVE  /\ AtSocket(x) \in Nat /\ AtInbox(x) \in {0, 1}
         /\ AtBox(0, x) \in Nat /\ AtBox(1, x) \in Nat
         /\ InHand(0, x) \in {0, 1} /\ InHand(1, x) \in {0, 1}
<1>1. x.to \in Machines /\ 0 \in Boxes /\ 1 \in Boxes
  <2>1. 0 \in Boxes /\ 1 \in Boxes
    BY SMT DEF Boxes
  <2> QED BY <2>1, MailEnds
<1>2. socket[x.to] \in Seq(Mails) /\ boxes[x.to][0] \in MailLists /\ boxes[x.to][1] \in MailLists
  BY <1>1 DEF MailType
<1>3. AtSocket(x) \in Nat
  BY <1>2, CopiesFacts DEF AtSocket
<1>4. AtBox(0, x) \in Nat /\ AtBox(1, x) \in Nat
  BY <1>2, HoldingFacts DEF AtBox
<1> QED BY <1>3, <1>4 DEF AtInbox, InHand, Num

\* One entry of a table of tables changes.
LEMMA NestedExcept ==
  ASSUME NEW A, NEW B, NEW C, NEW f \in [A -> [B -> C]], NEW a \in A, NEW b \in B, NEW v \in C
  PROVE  /\ [f EXCEPT ![a][b] = v] \in [A -> [B -> C]]
         /\ [f EXCEPT ![a][b] = v][a][b] = v
         /\ \A c \in A, d \in B : c # a \/ d # b => [f EXCEPT ![a][b] = v][c][d] = f[c][d]
<1> DEFINE h == [f[a] EXCEPT ![b] = v]
           g == [f EXCEPT ![a] = h]
<1>1. f[a] \in [B -> C]
  OBVIOUS
<1>2. h \in [B -> C] /\ h[b] = v /\ \A d \in B : d # b => h[d] = f[a][d]
  BY <1>1
<1>3. [f EXCEPT ![a][b] = v] = g
  OBVIOUS
<1> HIDE DEF h
<1>4. g \in [A -> [B -> C]] /\ g[a] = h /\ \A c \in A : c # a => g[c] = f[c]
  BY <1>2
<1> HIDE DEF g
<1> QED BY <1>2, <1>3, <1>4

\* What is sent depends only on the stages and on what was received.
LEMMA SentKept ==
  ASSUME NEW CONSTANT x \in Mails,
         \A n \in Machines : /\ Did(n, 1)' <=> Did(n, 1)
                             /\ Did(n, 3)' <=> Did(n, 3)
                             /\ Did(n, 3) => in'[n][0] = in[n][0]
  PROVE  IsSent(x)' <=> IsSent(x)
<1>1. x.from \in Machines
  BY MailEnds
<1> QED BY <1>1 DEF IsSent, Data

\* What is at home stays there when nothing moves.
LEMMA HomeKept ==
  ASSUME HomeInv, UNCHANGED <<socket, inbox, boxes, in>>
  PROVE  HomeInv'
<1>1. ASSUME NEW n \in Machines
      PROVE  NetHome(n)'
  <2>1. NetHome(n)
    BY DEF HomeInv
  <2> QED BY <2>1 DEF NetHome
<1>2. ASSUME NEW n \in Machines
      PROVE  BoxHome(n)'
  <2>1. BoxHome(n)
    BY DEF HomeInv
  <2> QED BY <2>1 DEF BoxHome
<1> QED BY <1>1, <1>2 DEF HomeInv

\* A step that moves no mail.
LEMMA MailKept ==
  ASSUME MailInv, UNCHANGED <<socket, inbox, buffer, boxes, in, lost>>,
         stage' \in [Machines -> 1 .. 5], StageInv',
         \A n \in Machines : (Did(n, 1)' <=> Did(n, 1)) /\ (Did(n, 3)' <=> Did(n, 3))
  PROVE  MailInv'
<1>1. MailType'
  BY DEF MailInv, MailType
<1>2. HomeInv'
  BY HomeKept DEF MailInv
<1>3. CountInv'
  <2>1. ASSUME NEW CONSTANT x \in Mails
        PROVE  /\ Places(x)' = Places(x) /\ (IsSent(x)' <=> IsSent(x))
    <3>1. IsSent(x)' <=> IsSent(x)
      BY SentKept
    <3>2. Places(x)' = Places(x)
      BY DEF Places, InBox
    <3> QED BY <3>1, <3>2
  <2> QED BY <2>1 DEF MailInv, CountInv
<1> QED BY <1>1, <1>2, <1>3 DEF MailInv

\* A step that moves mails from place to place.
LEMMA MailMoved ==
  ASSUME MailInv, MailType', StageInv', HomeInv', lost' = lost,
         \A x \in Mails : Places(x)' = Places(x) /\ (IsSent(x)' <=> IsSent(x))
  PROVE  MailInv'
<1>1. CountInv'
  BY DEF MailInv, CountInv
<1> QED BY <1>1 DEF MailInv

-----------------------------------------------------------------------------
(* The steps keep what is known of the mails.                              *)

\* MailTest of a machine is where it was.
LEMMA DidKept ==
  ASSUME NEW CONSTANT n \in Machines, stage'[n] = stage[n],
         "main" \in inP'[n] <=> "main" \in inP[n]
  PROVE  (Did(n, 1)' <=> Did(n, 1)) /\ (Did(n, 3)' <=> Did(n, 3))
BY DEF Did

\* MailTest of every machine is where it was, or halts at its end.
LEMMA StageKept ==
  ASSUME StageInv, UNCHANGED <<in, stage>>,
         \A n \in Machines : /\ "main" \in inP'[n] => "main" \in inP[n] \/ stage[n] \in {1, 3}
                             /\ status'[n] = "halted" => status[n] = "halted" \/ stage[n] = 5
  PROVE  StageInv'
BY DEF StageInv

\* A step that moves no mail and leaves MailTest where it was.
LEMMA QuietMail ==
  ASSUME MailInv, UNCHANGED <<socket, inbox, buffer, boxes, in, lost, stage>>,
         \A n \in Machines : /\ "main" \in inP'[n] <=> "main" \in inP[n]
                             /\ status'[n] = "halted" => status[n] = "halted" \/ stage[n] = 5
  PROVE  MailInv'
<1>1. StageInv'
  <2>1. StageInv
    BY DEF MailInv
  <2> QED BY <2>1, StageKept
<1>2. \A n \in Machines : (Did(n, 1)' <=> Did(n, 1)) /\ (Did(n, 3)' <=> Did(n, 3))
  BY DidKept
<1>3. stage' \in [Machines -> 1 .. 5]
  BY DEF MailInv, MailType
<1> QED BY <1>1, <1>2, <1>3, MailKept

\* The end of P() in Send is the next stage of MailTest.
LEMMA RetryMail ==
  ASSUME ThreadInv, MailInv, NEW m \in Machines, Retry(m)
  PROVE  MailInv'
<1>1. /\ status[m] = "run" /\ current[m] \in inP[m]
      /\ UNCHANGED <<status, socket, inbox, buffer, boxes, in, lost>>
  BY DEF Retry, netVars
<1>2. ThreadType /\ OnePlaces(m)
  BY DEF ThreadInv
<1>3. CASE current[m] = "main" /\ messageSent[m].value > 0
  <2>1. AwaitSent(m)
    BY <1>3 DEF Retry
  <2>2. /\ "main" \notin inP'[m] /\ stage' = [stage EXCEPT ![m] = stage[m] + 1]
        /\ \A n \in Machines : n # m => inP'[n] = inP[n]
    BY <1>2, <1>3, <2>1, AwaitSentFacts DEF ThreadStep
  <2>3. "main" \in inP[m] /\ stage[m] \in {1, 3} /\ stage \in [Machines -> 1 .. 5] /\ StageInv
    BY <1>1, <1>3 DEF MailInv, StageInv, MailType
  <2>4. stage[m] + 1 \in 1 .. 5
    BY <2>3, SMT
  <2>5. /\ stage' \in [Machines -> 1 .. 5] /\ stage'[m] = stage[m] + 1
        /\ \A n \in Machines : n # m => stage'[n] = stage[n]
    BY <2>2, <2>3, <2>4
  <2>6. /\ stage'[m] <= 2 <=> stage[m] <= 2
        /\ stage'[m] <= 4 <=> stage[m] <= 4
        /\ (Did(m, 1)' <=> Did(m, 1)) /\ (Did(m, 3)' <=> Did(m, 3))
    <3>1. CASE stage[m] = 1
      <4>1. stage'[m] = 2
        BY <2>5, <3>1, SMT
      <4>2. /\ 2 <= 2 /\ 1 <= 2 /\ 2 <= 4 /\ 1 <= 4
            /\ 2 > 1 /\ ~(1 > 3) /\ ~(2 > 3) /\ 1 # 3 /\ 2 # 3
        BY SMT
      <4> QED BY <2>2, <2>3, <3>1, <4>1, <4>2 DEF Did
    <3>2. CASE stage[m] = 3
      <4>1. stage'[m] = 4
        BY <2>5, <3>2, SMT
      <4>2. ~(4 <= 2) /\ ~(3 <= 2) /\ 4 <= 4 /\ 3 <= 4 /\ 4 > 1 /\ 3 > 1 /\ 4 > 3
        BY SMT
      <4> QED BY <2>2, <2>3, <3>2, <4>1, <4>2 DEF Did
    <3> QED BY <2>3, <3>1, <3>2
  <2>7. \A n \in Machines : (Did(n, 1)' <=> Did(n, 1)) /\ (Did(n, 3)' <=> Did(n, 3))
    BY <2>2, <2>5, <2>6, DidKept
  <2>8. StageInv'
    <3>1. ASSUME NEW n \in Machines
          PROVE  /\ in'[n][0] = NoMail <=> stage'[n] <= 2
                 /\ in'[n][1] = NoMail <=> stage'[n] <= 4
                 /\ "main" \in inP'[n] => stage'[n] \in {1, 3}
                 /\ status'[n] = "halted" => stage'[n] = 5
      <4>1. CASE n = m
        <5>1. (in[m][0] = NoMail <=> stage[m] <= 2) /\ (in[m][1] = NoMail <=> stage[m] <= 4)
          BY <2>3 DEF StageInv
        <5> QED BY <1>1, <2>2, <2>6, <4>1, <5>1
      <4>2. CASE n # m
        BY <1>1, <2>2, <2>3, <2>5, <4>2 DEF StageInv
      <4> QED BY <4>1, <4>2
    <3> QED BY <3>1 DEF StageInv
  <2> QED BY <1>1, <2>5, <2>7, <2>8, MailKept
<1>4. CASE ~(current[m] = "main" /\ messageSent[m].value > 0)
  <2>1. ("main" \in inP'[m] <=> "main" \in inP[m]) /\ stage' = stage
        /\ \A n \in Machines : n # m => inP'[n] = inP[n]
    <3>1. CASE current[m] = "main"
      BY <1>1, <1>2, <1>4, <3>1, AwaitSentFacts DEF Retry, ThreadStep
    <3>2. CASE current[m] # "main"
      <4>1. current[m] = "postal" /\ AwaitMessage(m)
        BY <1>1, <1>2, <3>2 DEF Retry, ThreadType, Threads
      <4> QED BY <1>2, <4>1, AwaitMessageFacts DEF ThreadStep
    <3> QED BY <3>1, <3>2
  <2>2. \A n \in Machines : "main" \in inP'[n] <=> "main" \in inP[n]
    BY <2>1
  <2> QED BY <1>1, <2>1, <2>2, QuietMail
<1> QED BY <1>3, <1>4

\* What is in the tail of a sequence, and in a longer one.
LEMMA SeqElements ==
  ASSUME NEW S, NEW s \in Seq(S)
  PROVE  /\ s # <<>> => /\ Head(s) \in S /\ Tail(s) \in Seq(S)
                        /\ \E j \in DOMAIN s : Head(s) = s[j]
                        /\ \A k \in DOMAIN Tail(s) : \E j \in DOMAIN s : Tail(s)[k] = s[j]
         /\ \A y \in S : \A k \in DOMAIN Append(s, y) :
              Append(s, y)[k] = y \/ (k \in DOMAIN s /\ Append(s, y)[k] = s[k])
<1>1. ASSUME s # <<>>
      PROVE  /\ Head(s) \in S /\ Tail(s) \in Seq(S)
             /\ \E j \in DOMAIN s : Head(s) = s[j]
             /\ \A k \in DOMAIN Tail(s) : \E j \in DOMAIN s : Tail(s)[k] = s[j]
  <2>1. Head(s) \in S /\ Tail(s) \in Seq(S) /\ Head(s) = s[1] /\ 1 \in DOMAIN s
    BY <1>1, SMT
  <2>2. \A k \in DOMAIN Tail(s) : k + 1 \in DOMAIN s /\ Tail(s)[k] = s[k + 1]
    BY <1>1, SMT
  <2> QED BY <2>1, <2>2
<1>2. ASSUME NEW y \in S, NEW k \in DOMAIN Append(s, y)
      PROVE  Append(s, y)[k] = y \/ (k \in DOMAIN s /\ Append(s, y)[k] = s[k])
  BY SMT
<1> QED BY <1>1, <1>2

\* A mail for another machine stays where it is.
LEMMA OthersPlaces ==
  ASSUME NEW CONSTANT x,
         /\ socket'[x.to] = socket[x.to] /\ inbox'[x.to] = inbox[x.to]
         /\ \A b \in Boxes : boxes'[x.to][b] = boxes[x.to][b]
         /\ \A b \in Boxes : in'[x.to][b] = in[x.to][b]
  PROVE  Places(x)' = Places(x)
<1>1. 0 \in Boxes /\ 1 \in Boxes
  BY SMT DEF Boxes
<1>2. BoxesWith(in'[x.to], x) = BoxesWith(in[x.to], x)
  BY DEF BoxesWith
<1>3. boxes'[x.to][0] = boxes[x.to][0] /\ boxes'[x.to][1] = boxes[x.to][1]
  BY <1>1
<1> QED BY <1>2, <1>3 DEF Places, InBox, BoxesWith

\* A packet comes from the socket to the buffer.
LEMMA ArrivalMail ==
  ASSUME MailInv, NEW m \in Machines, CheckPktAvail(m)
  PROVE  MailInv'
<1> DEFINE y == Head(socket[m])
<1>1. /\ inbox[m] = NoMail /\ socket[m] # <<>>
      /\ inbox' = [inbox EXCEPT ![m] = y] /\ socket' = [socket EXCEPT ![m] = Tail(socket[m])]
      /\ UNCHANGED <<status, inP, buffer, boxes, stage, in, lost>>
  BY DEF CheckPktAvail, MayRead, PollSocket, ReadFromSocket
<1>2. MailType /\ StageInv /\ HomeInv
  BY DEF MailInv
<1>3. socket \in [Machines -> Seq(Mails)] /\ inbox \in [Machines -> Mails \cup {NoMail}]
  BY <1>2 DEF MailType
<1>4. /\ y \in Mails /\ Tail(socket[m]) \in Seq(Mails)
      /\ \E j \in DOMAIN socket[m] : y = socket[m][j]
      /\ \A k \in DOMAIN Tail(socket[m]) : \E j \in DOMAIN socket[m] : Tail(socket[m])[k] = socket[m][j]
  <2>1. socket[m] \in Seq(Mails)
    BY <1>3
  <2> QED BY <1>1, <2>1, SeqElements
<1> HIDE DEF y
<1>5. /\ socket' \in [Machines -> Seq(Mails)] /\ inbox' \in [Machines -> Mails \cup {NoMail}]
      /\ socket'[m] = Tail(socket[m]) /\ inbox'[m] = y
      /\ \A n \in Machines : n # m => socket'[n] = socket[n] /\ inbox'[n] = inbox[n]
  BY <1>1, <1>3, <1>4
<1>6. MailType'
  BY <1>1, <1>2, <1>5 DEF MailType
<1>7. StageInv'
  BY <1>1, <1>2, StageKept
<1>8. HomeInv'
  <2>1. ASSUME NEW n \in Machines
        PROVE  NetHome(n)'
    <3>1. NetHome(n)
      BY <1>2 DEF HomeInv
    <3>2. CASE n = m
      <4>1. y.to = m
        BY <1>4, <3>1, <3>2 DEF NetHome
      <4>2. \A k \in DOMAIN Tail(socket[m]) : Tail(socket[m])[k].to = m
        BY <1>4, <3>1, <3>2 DEF NetHome
      <4> QED BY <1>5, <3>2, <4>1, <4>2 DEF NetHome
    <3>3. CASE n # m
      BY <1>5, <3>1, <3>3 DEF NetHome
    <3> QED BY <3>2, <3>3
  <2>2. ASSUME NEW n \in Machines
        PROVE  BoxHome(n)'
    <3>1. BoxHome(n)
      BY <1>2 DEF HomeInv
    <3> QED BY <1>1, <3>1 DEF BoxHome
  <2> QED BY <2>1, <2>2 DEF HomeInv
<1>9. ASSUME NEW CONSTANT x \in Mails
      PROVE  Places(x)' = Places(x) /\ (IsSent(x)' <=> IsSent(x))
  <2>1. IsSent(x)' <=> IsSent(x)
    <3>1. \A n \in Machines : (Did(n, 1)' <=> Did(n, 1)) /\ (Did(n, 3)' <=> Did(n, 3))
      BY <1>1, DidKept
    <3> QED BY <1>1, <3>1, SentKept
  <2>2. CASE x.to # m
    <3>1. x.to \in Machines
      BY MailEnds
    <3>2. socket'[x.to] = socket[x.to] /\ inbox'[x.to] = inbox[x.to]
      BY <1>5, <2>2, <3>1
    <3> QED BY <1>1, <2>1, <3>2, OthersPlaces
  <2>3. CASE x.to = m
    <3>1. AtSocket(x) = AtSocket(x)' + Num(y = x)
      <4>1. socket[m] \in Seq(Mails)
        BY <1>3
      <4>2. Copies(socket[m], x) = Copies(Tail(socket[m]), x) + Num(y = x)
        BY <1>1, <4>1, CopiesTail DEF y, Num
      <4> QED BY <1>5, <2>3, <4>2 DEF AtSocket
    <3>2. AtInbox(x) = 0 /\ AtInbox(x)' = Num(y = x)
      <4>1. NoMail # x
        BY NotNoMail
      <4> QED BY <1>1, <1>5, <2>3, <4>1 DEF AtInbox, Num
    <3>3. /\ AtBox(0, x)' = AtBox(0, x) /\ AtBox(1, x)' = AtBox(1, x)
          /\ InHand(0, x)' = InHand(0, x) /\ InHand(1, x)' = InHand(1, x)
      BY <1>1 DEF AtBox, InHand
    <3>4. Places(x)' = Places(x)
      <4>1. /\ AtSocket(x)' \in Nat /\ Num(y = x) \in Nat
            /\ AtBox(0, x) \in Nat /\ AtBox(1, x) \in Nat
            /\ InHand(0, x) \in Nat /\ InHand(1, x) \in Nat
        <5>1. AtSocket(x)' \in Nat
          BY <1>4, <1>5, <2>3, CopiesFacts DEF AtSocket
        <5>2. 0 \in Nat /\ 1 \in Nat
          BY SMT
        <5> QED BY <1>2, <5>1, <5>2, PlaceTypes DEF Num
      <4> QED BY <3>1, <3>2, <3>3, <4>1, PlacesSum, SMT
    <3> QED BY <2>1, <3>4
  <2> QED BY <2>2, <2>3
<1> QED BY <1>1, <1>6, <1>7, <1>8, <1>9, MailMoved

\* The postal worker puts the packet that is buffered into its box.
LEMMA DeliveryMail ==
  ASSUME ThreadInv, MailInv, NEW m \in Machines, PostalDelivery(m)
  PROVE  MailInv'
<1> DEFINE y == inbox[m]
           q == ListAppend(boxes[m][y.box], y)
<1>1. MailType /\ StageInv /\ HomeInv
  BY DEF MailInv
<1>2. /\ inbox \in [Machines -> Mails \cup {NoMail}]
      /\ buffer \in [Machines -> Mails \cup {NoMail}]
      /\ boxes \in [Machines -> [Boxes -> MailLists]]
  BY <1>1 DEF MailType
<1>3. /\ y # NoMail
      /\ "main" \in inP'[m] <=> "main" \in inP[m]
      /\ \A n \in Machines : n # m => inP'[n] = inP[n]
  BY <1>2, DeliveryThreads
<1>4. /\ inbox' = [inbox EXCEPT ![m] = NoMail] /\ buffer' = [buffer EXCEPT ![m] = y]
      /\ boxes' = [boxes EXCEPT ![m][buffer'[m].box] = ListAppend(@, buffer'[m])]
      /\ UNCHANGED <<status, socket, stage, in, lost>>
  BY <1>3 DEF PostalDelivery, NetworkReceive, Put, SynchAppend, AwaitMessage
<1>5. /\ y \in Mails /\ y.to = m /\ y.box \in Boxes
  <2>1. y \in Mails
    BY <1>2, <1>3
  <2>2. y.to = m
    BY <1>1, <1>3 DEF HomeInv, NetHome
  <2> QED BY <2>1, <2>2, MailEnds
<1>6. /\ buffer' \in [Machines -> Mails \cup {NoMail}] /\ buffer'[m] = y
      /\ inbox' \in [Machines -> Mails \cup {NoMail}] /\ inbox'[m] = NoMail
      /\ \A n \in Machines : n # m => inbox'[n] = inbox[n]
  BY <1>2, <1>4, <1>5
<1> HIDE DEF y
<1>7. /\ boxes[m][y.box] \in MailLists /\ q \in MailLists
      /\ boxes' = [boxes EXCEPT ![m][y.box] = q]
  <2>1. boxes[m][y.box] \in MailLists
    BY <1>2, <1>5
  <2>2. q \in MailLists
    BY <1>5, <2>1, AppendList
  <2> QED BY <1>4, <1>6, <2>1, <2>2
<1> HIDE DEF q
<1>8. /\ boxes' \in [Machines -> [Boxes -> MailLists]] /\ boxes'[m][y.box] = q
      /\ \A n \in Machines, b \in Boxes : n # m \/ b # y.box => boxes'[n][b] = boxes[n][b]
  <2> DEFINE g == [boxes EXCEPT ![m][y.box] = q]
  <2>1. q \in MailLists /\ y.box \in Boxes /\ boxes \in [Machines -> [Boxes -> MailLists]]
    BY <1>2, <1>5, <1>7
  <2>2. /\ g \in [Machines -> [Boxes -> MailLists]] /\ g[m][y.box] = q
        /\ \A n \in Machines, b \in Boxes : n # m \/ b # y.box => g[n][b] = boxes[n][b]
    BY <2>1, NestedExcept, SMT
  <2>3. boxes' = g
    BY <1>7
  <2> HIDE DEF g
  <2> QED BY <2>2, <2>3
<1>9. MailType'
  BY <1>1, <1>4, <1>6, <1>8 DEF MailType
<1>10. StageInv'
  BY <1>1, <1>3, <1>4, StageKept
<1>11. HomeInv'
  <2>1. ASSUME NEW n \in Machines
        PROVE  NetHome(n)' /\ BoxHome(n)'
    <3>1. NetHome(n) /\ BoxHome(n)
      BY <1>1 DEF HomeInv
    <3>2. NetHome(n)'
      BY <1>4, <1>6, <3>1 DEF NetHome
    <3>3. ASSUME NEW b \in Boxes, NEW e \in DOMAIN boxes'[n][b].cell
          PROVE  boxes'[n][b].cell[e].item.to = n /\ boxes'[n][b].cell[e].item.box = b
      <4>1. CASE n = m /\ b = y.box
        <5> DEFINE l == boxes[m][y.box]
        <5>1. \A d \in DOMAIN l.cell : l.cell[d].item.to = n /\ l.cell[d].item.box = b
          BY <3>1, <4>1 DEF BoxHome
        <5>2. l \in MailLists /\ y \in Mails
          BY <1>5, <1>7
        <5>3. q = ListAppend(l, y)
          BY DEF q
        <5> HIDE DEF l
        <5>4. /\ DOMAIN q.cell = DOMAIN l.cell \cup {NewElement(l)}
              /\ q.cell[NewElement(l)].item = y
              /\ \A d \in DOMAIN l.cell : q.cell[d].item = l.cell[d].item
          BY <5>2, <5>3, AppendList, SMT
        <5>5. e \in DOMAIN q.cell /\ boxes'[n][b] = q
          BY <1>8, <3>3, <4>1
        <5>6. q.cell[e].item.to = n /\ q.cell[e].item.box = b
          BY <1>5, <4>1, <5>1, <5>4, <5>5
        <5> QED BY <5>5, <5>6
      <4>2. CASE ~(n = m /\ b = y.box)
        <5>1. boxes'[n][b] = boxes[n][b]
          BY <1>8, <4>2
        <5>2. \A d \in DOMAIN boxes[n][b].cell :
                boxes[n][b].cell[d].item.to = n /\ boxes[n][b].cell[d].item.box = b
          BY <3>1 DEF BoxHome
        <5> QED BY <3>3, <5>1, <5>2
      <4> QED BY <4>1, <4>2
    <3>4. BoxHome(n)'
      BY <1>4, <3>1, <3>3 DEF BoxHome
    <3> QED BY <3>2, <3>4
  <2> QED BY <2>1 DEF HomeInv
<1>12. ASSUME NEW CONSTANT x \in Mails
      PROVE  Places(x)' = Places(x) /\ (IsSent(x)' <=> IsSent(x))
  <2>1. IsSent(x)' <=> IsSent(x)
    <3>1. \A n \in Machines : (Did(n, 1)' <=> Did(n, 1)) /\ (Did(n, 3)' <=> Did(n, 3))
      BY <1>3, <1>4, DidKept
    <3> QED BY <1>4, <3>1, SentKept
  <2>2. CASE x.to # m
    <3>1. x.to \in Machines
      BY MailEnds
    <3>2. /\ inbox'[x.to] = inbox[x.to]
          /\ \A b \in Boxes : boxes'[x.to][b] = boxes[x.to][b]
      BY <1>6, <1>8, <2>2, <3>1
    <3> QED BY <1>4, <2>1, <3>2, OthersPlaces
  <2>3. CASE x.to = m
    <3> DEFINE k == Num(y = x)
    <3>1. Cardinality(Holding(q, x)) = Cardinality(Holding(boxes[m][y.box], x)) + k
      <4>1. boxes[m][y.box] \in MailLists /\ y \in Mails
        BY <1>5, <1>7
      <4> QED BY <4>1, HoldingAppend DEF q, Num
    <3>2. AtInbox(x)' = 0 /\ AtInbox(x) = k
      <4>1. NoMail # x
        BY NotNoMail
      <4> QED BY <1>6, <2>3, <4>1 DEF AtInbox, Num, y
    <3>3. /\ AtSocket(x)' = AtSocket(x)
          /\ InHand(0, x)' = InHand(0, x) /\ InHand(1, x)' = InHand(1, x)
      BY <1>4 DEF AtSocket, InHand
    <3>4. 0 \in Boxes /\ 1 \in Boxes /\ (y.box = 0 \/ y.box = 1) /\ 0 # 1
      BY <1>5, SMT DEF Boxes
    <3>5. \/ AtBox(0, x)' = AtBox(0, x) + k /\ AtBox(1, x)' = AtBox(1, x)
          \/ AtBox(0, x)' = AtBox(0, x) /\ AtBox(1, x)' = AtBox(1, x) + k
      <4> HIDE DEF k
      <4>1. CASE y.box = 0
        BY <1>8, <2>3, <3>1, <3>4, <4>1 DEF AtBox
      <4>2. CASE y.box = 1
        BY <1>8, <2>3, <3>1, <3>4, <4>2 DEF AtBox
      <4> QED BY <3>4, <4>1, <4>2
    <3>6. Places(x)' = Places(x)
      <4>1. /\ AtSocket(x) \in Nat /\ k \in Nat
            /\ AtBox(0, x) \in Nat /\ AtBox(1, x) \in Nat
            /\ InHand(0, x) \in Nat /\ InHand(1, x) \in Nat
        <5>1. 0 \in Nat /\ 1 \in Nat
          BY SMT
        <5> QED BY <1>1, <5>1, PlaceTypes DEF Num
      <4> HIDE DEF k
      <4> QED BY <3>2, <3>3, <3>5, <4>1, PlacesSum, SMT
    <3> QED BY <2>1, <3>6
  <2> QED BY <2>2, <2>3
<1> QED BY <1>4, <1>9, <1>10, <1>11, <1>12, MailMoved

\* A mail in the hands of the program is in one box more.
LEMMA TakenPlaces ==
  ASSUME MailType, NEW m \in Machines, NEW b \in Boxes, NEW CONSTANT x \in Mails, x.to = m,
         ~IsEmpty(boxes[m][b]), in[m][b] = NoMail,
         /\ boxes'[m][b] = SortedRemove(boxes[m][b]) /\ in'[m][b] = First(boxes[m][b]).item
         /\ \A c \in Boxes : c # b => boxes'[m][c] = boxes[m][c] /\ in'[m][c] = in[m][c],
         UNCHANGED <<socket, inbox>>
  PROVE  Places(x)' = Places(x)
<1> DEFINE l == boxes[m][b]
           k == Num(First(l).item = x)
<1>1. Cardinality(Holding(l, x)) = Cardinality(Holding(boxes'[m][b], x)) + k
  <2>1. l \in MailLists
    BY DEF MailType
  <2> QED BY <2>1, HoldingRemove DEF Num
<1>2. NoMail # x
  BY NotNoMail
<1>3. AtSocket(x)' = AtSocket(x) /\ AtInbox(x)' = AtInbox(x)
  BY DEF AtSocket, AtInbox
<1>4. 0 \in Boxes /\ 1 \in Boxes /\ (b = 0 \/ b = 1) /\ 0 # 1
  BY SMT DEF Boxes
<1>5. /\ AtSocket(x) \in Nat /\ AtInbox(x) \in Nat /\ k \in Nat
      /\ AtBox(0, x) \in Nat /\ AtBox(1, x) \in Nat
      /\ InHand(0, x) \in Nat /\ InHand(1, x) \in Nat
  <2>1. 0 \in Nat /\ 1 \in Nat
    BY SMT
  <2> QED BY <2>1, PlaceTypes DEF Num
<1>6. Num(in[m][b] = x) = 0 /\ Num(in'[m][b] = x) = k
  BY <1>2 DEF Num
<1>7. Cardinality(Holding(boxes'[m][b], x)) \in Nat
  <2>1. boxes'[m][b] \in MailLists
    <3>1. l \in MailLists
      BY DEF MailType
    <3> QED BY <3>1, RemoveList
  <2> QED BY <2>1, HoldingFacts
<1> HIDE DEF k, l
<1>8. CASE b = 0
  <2>1. AtBox(0, x) = AtBox(0, x)' + k /\ AtBox(0, x)' \in Nat
    BY <1>1, <1>7, <1>8 DEF AtBox, l
  <2>2. InHand(0, x) = 0 /\ InHand(0, x)' = k
    BY <1>6, <1>8 DEF InHand
  <2>3. AtBox(1, x)' = AtBox(1, x) /\ InHand(1, x)' = InHand(1, x)
    BY <1>4, <1>8 DEF AtBox, InHand
  <2> QED BY <1>3, <1>5, <2>1, <2>2, <2>3, PlacesSum, SMT
<1>9. CASE b = 1
  <2>1. AtBox(1, x) = AtBox(1, x)' + k /\ AtBox(1, x)' \in Nat
    BY <1>1, <1>7, <1>9 DEF AtBox, l
  <2>2. InHand(1, x) = 0 /\ InHand(1, x)' = k
    BY <1>6, <1>9 DEF InHand
  <2>3. AtBox(0, x)' = AtBox(0, x) /\ InHand(0, x)' = InHand(0, x)
    BY <1>4, <1>9 DEF AtBox, InHand
  <2> QED BY <1>3, <1>5, <2>1, <2>2, <2>3, PlacesSum, SMT
<1> QED BY <1>4, <1>8, <1>9

\* The stage after a Receive.
LEMMA ReceiveStage ==
  ASSUME MailType, StageInv, NEW m \in Machines, NEW b \in Boxes,
         (b = 0 /\ stage[m] = 2) \/ (b = 1 /\ stage[m] = 4),
         status[m] = "run", "main" \notin inP[m], in'[m][b] # NoMail,
         \A n \in Machines, c \in Boxes : n # m \/ c # b => in'[n][c] = in[n][c],
         stage' = [stage EXCEPT ![m] = stage[m] + 1], UNCHANGED <<status, inP>>
  PROVE  /\ stage' \in [Machines -> 1 .. 5] /\ StageInv' /\ in[m][b] = NoMail
         /\ \A n \in Machines : /\ Did(n, 1)' <=> Did(n, 1)
                                /\ Did(n, 3)' <=> Did(n, 3)
                                /\ Did(n, 3) => in'[n][0] = in[n][0]
<1>1. stage \in [Machines -> 1 .. 5] /\ stage[m] + 1 \in 1 .. 5
  <2>1. stage[m] + 1 \in 1 .. 5
    BY SMT
  <2> QED BY <2>1 DEF MailType
<1>2. /\ stage' \in [Machines -> 1 .. 5] /\ stage'[m] = stage[m] + 1
      /\ \A n \in Machines : n # m => stage'[n] = stage[n]
  BY <1>1
<1>3. 0 \in Boxes /\ 1 \in Boxes /\ 0 # 1
  BY SMT DEF Boxes
<1>4. (in[m][0] = NoMail <=> stage[m] <= 2) /\ (in[m][1] = NoMail <=> stage[m] <= 4)
  BY DEF StageInv
<1>5. /\ in[m][b] = NoMail
      /\ in'[m][0] = NoMail <=> stage'[m] <= 2
      /\ in'[m][1] = NoMail <=> stage'[m] <= 4
      /\ Did(m, 1)' <=> Did(m, 1)
      /\ Did(m, 3)' <=> Did(m, 3)
      /\ Did(m, 3) => in'[m][0] = in[m][0]
  <2>1. CASE b = 0 /\ stage[m] = 2
    <3>1. stage'[m] = 3
      BY <1>2, <2>1, SMT
    <3>2. ~(3 <= 2) /\ 2 <= 2 /\ 3 <= 4 /\ 2 <= 4 /\ 3 > 1 /\ 2 > 1 /\ ~(3 > 3) /\ ~(2 > 3) /\ 2 # 3
      BY SMT
    <3>3. in'[m][1] = in[m][1] /\ in'[m][0] # NoMail
      BY <1>3, <2>1
    <3> QED BY <1>4, <2>1, <3>1, <3>2, <3>3 DEF Did
  <2>2. CASE b = 1 /\ stage[m] = 4
    <3>1. stage'[m] = 5
      BY <1>2, <2>2, SMT
    <3>2. ~(5 <= 2) /\ ~(4 <= 2) /\ ~(5 <= 4) /\ 4 <= 4 /\ 5 > 1 /\ 4 > 1 /\ 5 > 3 /\ 4 > 3
      BY SMT
    <3>3. in'[m][0] = in[m][0] /\ in'[m][1] # NoMail
      BY <1>3, <2>2
    <3> QED BY <1>4, <2>2, <3>1, <3>2, <3>3 DEF Did
  <2> QED BY <2>1, <2>2
<1>6. StageInv'
  <2>1. ASSUME NEW n \in Machines
        PROVE  /\ in'[n][0] = NoMail <=> stage'[n] <= 2
               /\ in'[n][1] = NoMail <=> stage'[n] <= 4
               /\ "main" \in inP'[n] => stage'[n] \in {1, 3}
               /\ status'[n] = "halted" => stage'[n] = 5
    <3>1. CASE n = m
      BY <1>5, <3>1
    <3>2. CASE n # m
      <4>1. in'[n][0] = in[n][0] /\ in'[n][1] = in[n][1] /\ stage'[n] = stage[n]
        BY <1>2, <1>3, <3>2
      <4> QED BY <4>1 DEF StageInv
    <3> QED BY <3>1, <3>2
  <2> QED BY <2>1 DEF StageInv
<1>7. ASSUME NEW n \in Machines
      PROVE  /\ Did(n, 1)' <=> Did(n, 1)
             /\ Did(n, 3)' <=> Did(n, 3)
             /\ Did(n, 3) => in'[n][0] = in[n][0]
  <2>1. CASE n = m
    BY <1>5, <2>1
  <2>2. CASE n # m
    <3>1. in'[n][0] = in[n][0] /\ stage'[n] = stage[n]
      BY <1>2, <1>3, <2>2
    <3> QED BY <3>1 DEF Did
  <2> QED BY <2>1, <2>2
<1> QED BY <1>2, <1>5, <1>6, <1>7

\* Receive takes the first mail of its box, or its machine stops.
LEMMA ReceiveMail ==
  ASSUME ThreadInv, MailInv, NEW m \in Machines, NEW b \in Boxes, Running(m, "main"),
         (b = 0 /\ stage[m] = 2) \/ (b = 1 /\ stage[m] = 4), Receive(m, b)
  PROVE  MailInv'
<1> DEFINE l == boxes[m][b]
           y == First(l).item
<1>1. MailType /\ StageInv /\ HomeInv
  BY DEF MailInv
<1>2. status[m] = "run" /\ "main" \notin inP[m] /\ UNCHANGED <<inP, socket, inbox, buffer, lost>>
  BY DEF Running, Receive, netVars
<1>3. CASE IsEmpty(l)
  <2>1. status' = [status EXCEPT ![m] = "assert"] /\ UNCHANGED boxes
    BY <1>3 DEF Receive, Get, SynchRemove, ConditionWait
  <2>2. status'[m] = "assert" /\ \A n \in Machines : n # m => status'[n] = status[n]
    BY <2>1 DEF ThreadInv, ThreadType
  <2>3. UNCHANGED <<in, stage>>
    BY <2>2 DEF Receive, Get
  <2>4. \A n \in Machines : status'[n] = "halted" => status[n] = "halted" \/ stage[n] = 5
    BY <2>2
  <2> QED BY <1>2, <2>1, <2>3, <2>4, QuietMail
<1>4. CASE ~IsEmpty(l)
  <2>1. /\ boxes' = [boxes EXCEPT ![m][b] = SortedRemove(l)] /\ UNCHANGED status
        /\ in' = [in EXCEPT ![m][b] = y]
        /\ stage' = [stage EXCEPT ![m] = stage[m] + 1]
    <3>1. boxes' = [boxes EXCEPT ![m][b] = SortedRemove(l)] /\ UNCHANGED status
      BY <1>4 DEF Receive, Get, SynchRemove
    <3> QED BY <1>2, <3>1 DEF Receive, Get
  <2>2. /\ boxes \in [Machines -> [Boxes -> MailLists]] /\ l \in MailLists
        /\ in \in [Machines -> [Boxes -> Mails \cup {NoMail}]]
    BY <1>1 DEF MailType
  <2>3. /\ SortedRemove(l) \in MailLists
        /\ l.first \in DOMAIN l.cell
        /\ DOMAIN SortedRemove(l).cell = DOMAIN l.cell \ {l.first}
        /\ \A d \in DOMAIN l.cell \ {l.first} : SortedRemove(l).cell[d] = l.cell[d]
    BY <1>4, <2>2, RemoveList
  <2>4. y \in Mails /\ y.to = m /\ y.box = b
    <3>1. l.cell[l.first] \in Cells
      BY <2>2, <2>3, ListFacts
    <3>2. y \in Mails
      BY <3>1 DEF Cells, First
    <3>3. BoxHome(m)
      BY <1>1 DEF HomeInv
    <3>4. \A e \in DOMAIN l.cell : l.cell[e].item.to = m /\ l.cell[e].item.box = b
      BY <3>3 DEF BoxHome
    <3> HIDE DEF l
    <3> QED BY <2>3, <3>2, <3>4 DEF First
  <2>5. y # NoMail
    BY <2>4, NotNoMail
  <2>6. /\ boxes' \in [Machines -> [Boxes -> MailLists]] /\ boxes'[m][b] = SortedRemove(l)
        /\ \A n \in Machines, c \in Boxes : n # m \/ c # b => boxes'[n][c] = boxes[n][c]
    <3> DEFINE q == SortedRemove(l)
               g == [boxes EXCEPT ![m][b] = q]
    <3>1. q \in MailLists /\ boxes \in [Machines -> [Boxes -> MailLists]] /\ boxes' = g
      BY <2>1, <2>2, <2>3
    <3> HIDE DEF q
    <3>2. /\ g \in [Machines -> [Boxes -> MailLists]] /\ g[m][b] = q
          /\ \A n \in Machines, c \in Boxes : n # m \/ c # b => g[n][c] = boxes[n][c]
      BY <3>1, NestedExcept, SMT
    <3> HIDE DEF g
    <3> QED BY <3>1, <3>2 DEF q
  <2>7. /\ in' \in [Machines -> [Boxes -> Mails \cup {NoMail}]] /\ in'[m][b] = y
        /\ \A n \in Machines, c \in Boxes : n # m \/ c # b => in'[n][c] = in[n][c]
    <3> DEFINE M == Mails \cup {NoMail}
               g == [in EXCEPT ![m][b] = y]
    <3>1. y \in M /\ in \in [Machines -> [Boxes -> M]] /\ in' = g
      BY <2>1, <2>2, <2>4
    <3> HIDE DEF y, M
    <3>2. /\ g \in [Machines -> [Boxes -> M]] /\ g[m][b] = y
          /\ \A n \in Machines, c \in Boxes : n # m \/ c # b => g[n][c] = in[n][c]
      BY <3>1, NestedExcept, SMT
    <3> HIDE DEF g
    <3> QED BY <3>1, <3>2 DEF M
  <2>8. /\ stage' \in [Machines -> 1 .. 5] /\ StageInv' /\ in[m][b] = NoMail
        /\ \A n \in Machines : /\ Did(n, 1)' <=> Did(n, 1)
                               /\ Did(n, 3)' <=> Did(n, 3)
                               /\ Did(n, 3) => in'[n][0] = in[n][0]
    <3>1. in'[m][b] # NoMail /\ \A n \in Machines, c \in Boxes : n # m \/ c # b => in'[n][c] = in[n][c]
      BY <2>5, <2>7
    <3>2. stage' = [stage EXCEPT ![m] = stage[m] + 1] /\ UNCHANGED <<status, inP>>
      BY <1>2, <2>1
    <3>3. MailType /\ StageInv /\ status[m] = "run" /\ "main" \notin inP[m]
      BY <1>1, <1>2
    <3> QED BY <3>1, <3>2, <3>3, ReceiveStage
  <2>9. MailType'
    BY <1>1, <1>2, <2>6, <2>7, <2>8 DEF MailType
  <2>10. HomeInv'
    <3>1. ASSUME NEW n \in Machines
          PROVE  NetHome(n)' /\ BoxHome(n)'
      <4>1. NetHome(n) /\ BoxHome(n)
        BY <1>1 DEF HomeInv
      <4>2. NetHome(n)'
        BY <1>2, <4>1 DEF NetHome
      <4>3. ASSUME NEW c \in Boxes
            PROVE  /\ \A e \in DOMAIN boxes'[n][c].cell :
                        boxes'[n][c].cell[e].item.to = n /\ boxes'[n][c].cell[e].item.box = c
                   /\ in'[n][c] # NoMail => in'[n][c].to = n /\ in'[n][c].box = c
        <5>1. /\ \A e \in DOMAIN boxes[n][c].cell :
                   boxes[n][c].cell[e].item.to = n /\ boxes[n][c].cell[e].item.box = c
              /\ in[n][c] # NoMail => in[n][c].to = n /\ in[n][c].box = c
          BY <4>1 DEF BoxHome
        <5>2. CASE n = m /\ c = b
          <6>1. \A e \in DOMAIN SortedRemove(l).cell :
                  /\ SortedRemove(l).cell[e].item.to = n
                  /\ SortedRemove(l).cell[e].item.box = c
            <7> HIDE DEF l
            <7>1. \A e \in DOMAIN l.cell : l.cell[e].item.to = n /\ l.cell[e].item.box = c
              BY <5>1, <5>2 DEF l
            <7> QED BY <2>3, <7>1
          <6>2. boxes'[n][c] = SortedRemove(l) /\ in'[n][c] = y /\ y.to = n /\ y.box = c
            BY <2>4, <2>6, <2>7, <5>2
          <6> HIDE DEF y, l
          <6> QED BY <6>1, <6>2
        <5>3. CASE ~(n = m /\ c = b)
          <6>1. boxes'[n][c] = boxes[n][c] /\ in'[n][c] = in[n][c]
            BY <2>6, <2>7, <5>3
          <6> QED BY <5>1, <6>1
        <5> QED BY <5>2, <5>3
      <4>4. BoxHome(n)'
        BY <4>3 DEF BoxHome
      <4> QED BY <4>2, <4>4
    <3> QED BY <3>1 DEF HomeInv
  <2>11. ASSUME NEW CONSTANT x \in Mails
         PROVE  Places(x)' = Places(x) /\ (IsSent(x)' <=> IsSent(x))
    <3>1. IsSent(x)' <=> IsSent(x)
      BY <2>8, SentKept
    <3>2. CASE x.to = m
      <4>1. Places(x)' = Places(x)
        <5>1. /\ boxes'[m][b] = SortedRemove(boxes[m][b]) /\ in'[m][b] = First(boxes[m][b]).item
              /\ \A c \in Boxes : c # b => boxes'[m][c] = boxes[m][c] /\ in'[m][c] = in[m][c]
          BY <2>6, <2>7
        <5>2. ~IsEmpty(boxes[m][b]) /\ in[m][b] = NoMail /\ UNCHANGED <<socket, inbox>> /\ MailType
          BY <1>1, <1>2, <1>4, <2>8
        <5> QED BY <3>2, <5>1, <5>2, TakenPlaces
      <4> QED BY <3>1, <4>1
    <3>3. CASE x.to # m
      <4>1. x.to \in Machines
        BY MailEnds
      <4>2. /\ \A c \in Boxes : boxes'[x.to][c] = boxes[x.to][c]
            /\ \A c \in Boxes : in'[x.to][c] = in[x.to][c]
        BY <2>6, <2>7, <3>3, <4>1
      <4> QED BY <1>2, <3>1, <4>2, OthersPlaces
    <3> QED BY <3>2, <3>3
  <2> QED BY <1>2, <2>8, <2>9, <2>10, <2>11, MailMoved
<1> QED BY <1>3, <1>4

\* A mail is known by its text and one of its machines.
LEMMA MailNames ==
  ASSUME NEW x \in Mails
  PROVE  \/ x.text = "data" /\ x.text # "ack" /\ x = Data(x.from)
         \/ x.text = "ack" /\ x.text # "data" /\ x = AckOf(x.to)
<1>1. CASE \E p \in Machines : x = Data(p)
  <2>1. PICK p \in Machines : x = Data(p)
    BY <1>1
  <2>2. Data(p).text = "data" /\ Data(p).from = p
    BY MailFacts
  <2> QED BY <2>1, <2>2
<1>2. CASE \E p \in Machines : x = AckOf(p)
  <2>1. PICK p \in Machines : x = AckOf(p)
    BY <1>2
  <2>2. AckOf(p).text = "ack" /\ AckOf(p).to = p
    BY MailFacts
  <2> QED BY <2>1, <2>2
<1> QED BY <1>1, <1>2, MailFacts

\* The mail that MailTest of m sends at its stage.
MailOf(m, mail) ==
  /\ mail \in Mails /\ mail.from = m
  /\ \/ stage[m] = 1 /\ mail.text = "data"
     \/ stage[m] = 3 /\ mail.text = "ack" /\ in[m][0] = Data(mail.to)

\* It was not sent before, and is the only one that is sent now.
LEMMA SentMore ==
  ASSUME NEW m \in Machines, NEW CONSTANT mail, MailOf(m, mail),
         "main" \notin inP[m], "main" \in inP'[m], UNCHANGED <<stage, in>>,
         \A n \in Machines : n # m => inP'[n] = inP[n]
  PROVE  /\ ~IsSent(mail)
         /\ \A x \in Mails : IsSent(x)' <=> IsSent(x) \/ x = mail
<1>1. ~(1 > 1) /\ ~(3 > 3) /\ 3 > 1 /\ ~(1 > 3) /\ 1 # 3
  BY SMT
<1>2. mail \in Mails /\ mail.from = m /\ "data" # "ack"
  BY DEF MailOf
<1>3. \A n \in Machines : n # m => (Did(n, 1)' <=> Did(n, 1)) /\ (Did(n, 3)' <=> Did(n, 3))
  BY DidKept
<1>4. CASE stage[m] = 1
  <2>1. mail.text = "data" /\ mail = Data(m)
    BY <1>1, <1>2, <1>4, MailNames DEF MailOf
  <2>2. ~Did(m, 1) /\ Did(m, 1)' /\ ~Did(m, 3) /\ ~Did(m, 3)'
    BY <1>1, <1>4 DEF Did
  <2>3. ~IsSent(mail)
    BY <1>2, <2>1, <2>2 DEF IsSent
  <2>4. ASSUME NEW CONSTANT x \in Mails
        PROVE  IsSent(x)' <=> IsSent(x) \/ x = mail
    <3>1. x.from \in Machines
      BY MailEnds
    <3>2. CASE x.text = "data" /\ x = Data(x.from)
      BY <1>2, <1>3, <2>1, <2>2, <3>1, <3>2 DEF IsSent
    <3>3. CASE x.text = "ack" /\ x.text # "data"
      <4>1. x # mail
        BY <2>1, <3>3
      <4>2. Did(x.from, 3)' <=> Did(x.from, 3)
        BY <1>3, <2>2, <3>1
      <4> QED BY <3>3, <4>1, <4>2 DEF IsSent, Data
    <3> QED BY <3>2, <3>3, MailNames
  <2> QED BY <2>3, <2>4
<1>5. CASE stage[m] = 3
  <2>1. mail.text = "ack" /\ in[m][0] = Data(mail.to) /\ mail = AckOf(mail.to) /\ mail.text # "data"
    BY <1>1, <1>2, <1>5, MailNames DEF MailOf
  <2>2. Did(m, 1) /\ Did(m, 1)' /\ ~Did(m, 3) /\ Did(m, 3)'
    BY <1>1, <1>5 DEF Did
  <2>3. ~IsSent(mail)
    BY <1>2, <2>1, <2>2 DEF IsSent
  <2>4. ASSUME NEW CONSTANT x \in Mails
        PROVE  IsSent(x)' <=> IsSent(x) \/ x = mail
    <3>1. x.from \in Machines
      BY MailEnds
    <3>2. CASE x.text = "data" /\ x.text # "ack"
      <4>1. x # mail
        BY <2>1, <3>2
      <4>2. Did(x.from, 1)' <=> Did(x.from, 1)
        BY <1>3, <2>2, <3>1
      <4> QED BY <3>2, <4>1, <4>2 DEF IsSent
    <3>3. CASE x.text = "ack" /\ x.text # "data" /\ x = AckOf(x.to)
      <4>1. IsSent(x) <=> Did(x.from, 3) /\ in[x.from][0] = Data(x.to)
        BY <3>3 DEF IsSent
      <4>2. IsSent(x)' <=> Did(x.from, 3)' /\ in[x.from][0] = Data(x.to)
        BY <3>3 DEF IsSent, Data
      <4>3. CASE x.from = m
        <5>1. in[m][0] = Data(x.to) <=> x = mail
          <6>1. x.to \in Machines /\ mail.to \in Machines
            BY <1>2, MailEnds
          <6>2. Data(x.to).from = x.to /\ Data(mail.to).from = mail.to
            BY <6>1, MailFacts
          <6> QED BY <2>1, <3>3, <6>2
        <5> QED BY <2>2, <4>1, <4>2, <4>3, <5>1
      <4>4. CASE x.from # m
        BY <1>2, <1>3, <3>1, <4>1, <4>2, <4>4
      <4> QED BY <4>3, <4>4
    <3> QED BY <3>2, <3>3, MailNames
  <2> QED BY <2>3, <2>4
<1> QED BY <1>4, <1>5 DEF MailOf

\* A packet in the socket of its machine is one place more.
LEMMA SocketPlaces ==
  ASSUME MailType, NEW CONSTANT mail \in Mails, NEW CONSTANT x \in Mails,
         socket' = [socket EXCEPT ![mail.to] = Append(socket[mail.to], mail)],
         UNCHANGED <<inbox, boxes, in>>
  PROVE  /\ x = mail => Places(x)' = Places(x) + 1
         /\ x # mail => Places(x)' = Places(x)
<1>1. mail.to \in Machines /\ x.to \in Machines
  BY MailEnds
<1>2. /\ socket[mail.to] \in Seq(Mails)
      /\ socket'[mail.to] = Append(socket[mail.to], mail)
      /\ \A n \in Machines : n # mail.to => socket'[n] = socket[n]
  BY <1>1 DEF MailType
<1>3. CASE x.to # mail.to
  <2>1. Places(x)' = Places(x)
    BY <1>1, <1>2, <1>3, OthersPlaces
  <2> QED BY <1>3, <2>1
<1>4. CASE x.to = mail.to
  <2> DEFINE k == Num(mail = x)
  <2>1. AtSocket(x)' = AtSocket(x) + k
    <3>1. Copies(Append(socket[mail.to], mail), x) = Copies(socket[mail.to], x) + k
      <4> DEFINE s == socket[mail.to]
      <4>1. s \in Seq(Mails)
        BY <1>2
      <4> HIDE DEF s
      <4>2. Copies(Append(s, mail), x) = Copies(s, x) + k
        BY <4>1, CopiesAppend, SMT DEF Num
      <4> QED BY <4>2 DEF s
    <3> QED BY <1>2, <1>4, <3>1 DEF AtSocket
  <2>2. /\ AtInbox(x)' = AtInbox(x)
        /\ AtBox(0, x)' = AtBox(0, x) /\ AtBox(1, x)' = AtBox(1, x)
        /\ InHand(0, x)' = InHand(0, x) /\ InHand(1, x)' = InHand(1, x)
    BY DEF AtInbox, AtBox, InHand
  <2>3. (x = mail => k = 1) /\ (x # mail => k = 0)
    BY DEF Num
  <2>4. /\ AtSocket(x) \in Nat /\ AtInbox(x) \in Nat
        /\ AtBox(0, x) \in Nat /\ AtBox(1, x) \in Nat
        /\ InHand(0, x) \in Nat /\ InHand(1, x) \in Nat
    <3>1. 0 \in Nat /\ 1 \in Nat
      BY SMT
    <3> QED BY <3>1, PlaceTypes
  <2> HIDE DEF k
  <2>5. (k = 1 => Places(x)' = Places(x) + 1) /\ (k = 0 => Places(x)' = Places(x))
    BY <2>1, <2>2, <2>4, PlacesSum, SMT
  <2> QED BY <2>3, <2>5
<1> QED BY <1>3, <1>4

\* Send hands the mail of its stage to the host, or the network loses it, or
\* the machine stops.
LEMMA SendMail ==
  ASSUME ThreadInv, MailInv, NEW m \in Machines, NEW CONSTANT mail, Running(m, "main"),
         MailOf(m, mail), Send(m, mail)
  PROVE  MailInv'
<1>1. MailType /\ StageInv /\ HomeInv /\ CountInv
  BY DEF MailInv
<1>2. /\ status[m] = "run" /\ "main" \notin inP[m] /\ UNCHANGED <<inbox, buffer, boxes, in>>
      /\ mail \in Mails /\ mail.from = m
  BY DEF Running, Send, MailOf
<1>3. /\ status' \in {status, [status EXCEPT ![m] = "assert"]}
      /\ \A n \in Machines : n # m => inP'[n] = inP[n]
      /\ stage' = stage
      /\ status'[m] = "run" => "main" \in inP'[m]
      /\ status'[m] # "run" => inP' = inP
  BY SendThreads
<1>4. \A n \in Machines : status'[n] = "halted" => status[n] = "halted"
  BY <1>3 DEF ThreadInv, ThreadType
<1>5. CASE status'[m] # "run"
  <2>1. UNCHANGED <<socket, lost, inP>>
    BY <1>2, <1>3, <1>5 DEF Send, NetworkSend, SendToSocket
  <2> QED BY <1>2, <1>3, <1>4, <2>1, QuietMail
<1>6. CASE status'[m] = "run"
  <2>1. ~IsSent(mail) /\ \A x \in Mails : IsSent(x)' <=> IsSent(x) \/ x = mail
    BY <1>2, <1>3, <1>6, SentMore
  <2>2. StageInv'
    <3>1. \A n \in Machines : "main" \in inP'[n] => "main" \in inP[n] \/ stage[n] \in {1, 3}
      BY <1>3 DEF MailOf
    <3> QED BY <1>1, <1>2, <1>3, <1>4, <3>1, StageKept
  <2>3. Places(mail) = 0 /\ mail \notin lost
    BY <1>1, <1>2, <2>1 DEF CountInv
  <2>4. CASE lost' = lost \cup {mail} /\ UNCHANGED socket
    <3>1. MailType'
      BY <1>1, <1>2, <1>3, <2>4 DEF MailType
    <3>2. HomeInv'
      BY <1>1, <1>2, <2>4, HomeKept
    <3>3. \A x \in Mails : Places(x)' = Places(x)
      BY <1>2, <2>4 DEF Places, InBox
    <3>4. CountInv'
      BY <1>1, <2>1, <2>3, <2>4, <3>3 DEF CountInv
    <3> QED BY <2>2, <3>1, <3>2, <3>4 DEF MailInv
  <2>5. CASE lost' = lost /\ socket' = [socket EXCEPT ![mail.to] = Append(socket[mail.to], mail)]
    <3>1. mail.to \in Machines /\ socket \in [Machines -> Seq(Mails)] /\ socket[mail.to] \in Seq(Mails)
      BY <1>1, <1>2, MailEnds DEF MailType
    <3>2. /\ Append(socket[mail.to], mail) \in Seq(Mails)
          /\ \A k \in DOMAIN Append(socket[mail.to], mail) :
               \/ Append(socket[mail.to], mail)[k] = mail
               \/ k \in DOMAIN socket[mail.to] /\ Append(socket[mail.to], mail)[k] = socket[mail.to][k]
      <4> DEFINE s == socket[mail.to]
      <4>1. s \in Seq(Mails) /\ mail \in Mails
        BY <1>2, <3>1
      <4> HIDE DEF s
      <4>2. Append(s, mail) \in Seq(Mails)
        BY <4>1, AppendSeq
      <4>3. \A k \in DOMAIN Append(s, mail) :
              Append(s, mail)[k] = mail \/ (k \in DOMAIN s /\ Append(s, mail)[k] = s[k])
        BY <4>1, SeqElements, SMT
      <4> QED BY <4>2, <4>3 DEF s
    <3>3. /\ socket' \in [Machines -> Seq(Mails)]
          /\ socket'[mail.to] = Append(socket[mail.to], mail)
          /\ \A n \in Machines : n # mail.to => socket'[n] = socket[n]
      BY <2>5, <3>1, <3>2
    <3>4. MailType'
      BY <1>1, <1>2, <1>3, <2>5, <3>3 DEF MailType
    <3>5. HomeInv'
      <4>1. ASSUME NEW n \in Machines
            PROVE  NetHome(n)' /\ BoxHome(n)'
        <5>1. NetHome(n) /\ BoxHome(n)
          BY <1>1 DEF HomeInv
        <5>2. BoxHome(n)'
          BY <1>2, <5>1 DEF BoxHome
        <5>3. \A k \in DOMAIN socket'[n] : socket'[n][k].to = n
          <6>1. \A k \in DOMAIN socket[n] : socket[n][k].to = n
            BY <5>1 DEF NetHome
          <6>2. CASE n = mail.to
            <7>1. \A k \in DOMAIN Append(socket[n], mail) :
                    \/ Append(socket[n], mail)[k] = mail
                    \/ k \in DOMAIN socket[n] /\ Append(socket[n], mail)[k] = socket[n][k]
              BY <3>2, <6>2
            <7>2. \A k \in DOMAIN Append(socket[n], mail) : Append(socket[n], mail)[k].to = n
              BY <6>1, <6>2, <7>1
            <7> QED BY <3>3, <6>2, <7>2
          <6>3. CASE n # mail.to
            BY <3>3, <6>1, <6>3
          <6> QED BY <6>2, <6>3
        <5>4. NetHome(n)'
          BY <1>2, <5>1, <5>3 DEF NetHome
        <5> QED BY <5>2, <5>4
      <4> QED BY <4>1 DEF HomeInv
    <3>6. CountInv'
      <4>1. ASSUME NEW CONSTANT x \in Mails
            PROVE  /\ x = mail => Places(x)' = Places(x) + 1
                   /\ x # mail => Places(x)' = Places(x)
        BY <1>1, <1>2, <2>5, SocketPlaces
      <4>2. Places(mail)' = 1
        <5>1. Places(mail)' = Places(mail) + 1
          BY <1>2, <4>1
        <5> QED BY <2>3, <5>1, SMT
      <4> QED BY <1>1, <2>1, <2>3, <2>5, <4>1, <4>2 DEF CountInv
    <3> QED BY <2>2, <3>4, <3>5, <3>6 DEF MailInv
  <2>6. \/ lost' = lost \cup {mail} /\ UNCHANGED socket
        \/ lost' = lost /\ socket' = [socket EXCEPT ![mail.to] = Append(socket[mail.to], mail)]
    <3>1. status' # [status EXCEPT ![m] = "assert"]
      BY <1>6 DEF ThreadInv, ThreadType
    <3> QED BY <3>1 DEF Send, NetworkSend, SendToSocket
  <2> QED BY <2>4, <2>5, <2>6
<1> QED BY <1>5, <1>6

-----------------------------------------------------------------------------
(* The invariant.                                                          *)

\* What MailTest has in its hands is data for its machine, or the
\* acknowledgement of its own data.
LEMMA InHands ==
  ASSUME MailType, HomeInv, NEW m \in Machines
  PROVE  /\ in[m][0] # NoMail => \E p \in Machines : in[m][0] = Data(p) /\ Far[p] = m
         /\ in[m][1] # NoMail => in[m][1] = AckOf(m)
<1>1. 0 \in Boxes /\ 1 \in Boxes /\ 0 # 1
  BY SMT DEF Boxes
<1>2. BoxHome(m) /\ in[m][0] \in Mails \cup {NoMail} /\ in[m][1] \in Mails \cup {NoMail}
  BY <1>1 DEF HomeInv, MailType
<1>3. \A p \in Machines : Data(p).box = 0 /\ AckOf(p).box = 1
  BY MailFacts
<1>4. \A x \in Mails : (\E p \in Machines : x = Data(p)) \/ (\E p \in Machines : x = AckOf(p))
  BY MailFacts
<1>5. ASSUME in[m][0] # NoMail
      PROVE  \E p \in Machines : in[m][0] = Data(p) /\ Far[p] = m
  <2>1. in[m][0] \in Mails /\ in[m][0].to = m /\ in[m][0].box = 0
    BY <1>1, <1>2, <1>5 DEF BoxHome
  <2>2. \A p \in Machines : in[m][0] # AckOf(p)
    BY <1>1, <1>3, <2>1
  <2>3. PICK p \in Machines : in[m][0] = Data(p)
    BY <1>4, <2>1, <2>2
  <2>4. Data(p).to = Far[p]
    BY MailFacts
  <2> QED BY <2>1, <2>3, <2>4
<1>6. ASSUME in[m][1] # NoMail
      PROVE  in[m][1] = AckOf(m)
  <2>1. in[m][1] \in Mails /\ in[m][1].to = m /\ in[m][1].box = 1
    BY <1>1, <1>2, <1>6 DEF BoxHome
  <2>2. \A p \in Machines : in[m][1] # Data(p)
    BY <1>1, <1>3, <2>1
  <2>3. PICK p \in Machines : in[m][1] = AckOf(p)
    BY <1>4, <2>1, <2>2
  <2>4. AckOf(p).to = p
    BY MailFacts
  <2> QED BY <2>1, <2>3, <2>4
<1> QED BY <1>5, <1>6

\* A turn of MailTest.
LEMMA MailTestInv ==
  ASSUME PostInv, NEW m \in Machines, MailTest(m)
  PROVE  PostInv'
<1>1. ThreadInv /\ MailInv
  BY DEF PostInv
<1>2. MailType /\ StageInv /\ HomeInv /\ Running(m, "main") /\ status[m] = "run"
  BY <1>1 DEF MailInv, MailTest, Running
<1>3. 0 \in Boxes /\ 1 \in Boxes /\ ~(3 <= 2)
  BY SMT DEF Boxes
<1>4. ASSUME NEW CONSTANT mail, MailOf(m, mail), Send(m, mail)
      PROVE  PostInv'
  <2>1. ThreadInv'
    BY <1>1, <1>2, <1>4, SendThreads
  <2>2. MailInv'
    BY <1>1, <1>2, <1>4, SendMail
  <2> QED BY <2>1, <2>2 DEF PostInv
<1>5. ASSUME NEW b \in Boxes, Receive(m, b),
             (b = 0 /\ stage[m] = 2) \/ (b = 1 /\ stage[m] = 4)
      PROVE  PostInv'
  <2>1. MailInv'
    BY <1>1, <1>2, <1>5, ReceiveMail
  <2>2. UNCHANGED <<current, ready, inP, messageAvailable, messageSent, sending, inbox>>
    BY <1>5 DEF Receive, semVars, netVars
  <2>3. status' = status \/ status' = [status EXCEPT ![m] = "assert"]
    BY <1>5 DEF Receive, Get, SynchRemove, ConditionWait
  <2>4. ThreadInv'
    BY <1>1, <1>2, <2>2, <2>3, StopThreads
  <2> QED BY <2>1, <2>4 DEF PostInv
<1>6. CASE stage[m] = 1 /\ Send(m, Data(m))
  <2>1. MailOf(m, Data(m))
    BY <1>6, MailFacts DEF MailOf
  <2> QED BY <1>4, <1>6, <2>1
<1>7. CASE stage[m] = 2 /\ Receive(m, 0)
  BY <1>3, <1>5, <1>7
<1>8. CASE stage[m] = 3 /\ Send(m, Ack(m))
  <2>1. in[m][0] # NoMail
    BY <1>2, <1>3, <1>8 DEF StageInv
  <2>2. PICK p \in Machines : in[m][0] = Data(p) /\ Far[p] = m
    BY <1>2, <2>1, InHands
  <2>3. Data(p).from = p /\ Data(p).reply = 1
    BY MailFacts
  <2>4. Ack(m) = AckOf(p)
    BY <2>2, <2>3 DEF Ack, AckOf, ReplyBox
  <2>5. MailOf(m, AckOf(p))
    BY <1>8, <2>2, MailFacts DEF MailOf
  <2> QED BY <1>4, <1>8, <2>4, <2>5
<1>9. CASE stage[m] = 4 /\ Receive(m, 1)
  BY <1>3, <1>5, <1>9
<1>10. CASE /\ stage[m] = 5 /\ status' = [status EXCEPT ![m] = "halted"]
            /\ UNCHANGED <<current, ready, inP, semVars, netVars, buffer, boxes, stage, in, lost>>
  <2>1. UNCHANGED <<current, ready, inP, messageAvailable, messageSent, sending, inbox>>
    BY <1>10 DEF semVars, netVars
  <2>2. ThreadInv'
    BY <1>1, <1>2, <1>10, <2>1, StopThreads
  <2>3. \A n \in Machines : status'[n] = "halted" => status[n] = "halted" \/ stage[n] = 5
    BY <1>1, <1>10 DEF ThreadInv, ThreadType
  <2>4. UNCHANGED <<socket, inbox, buffer, boxes, in, lost, stage, inP>>
    BY <1>10 DEF netVars
  <2>5. MailInv'
    BY <1>1, <2>3, <2>4, QuietMail
  <2> QED BY <2>2, <2>5 DEF PostInv
<1> QED BY <1>6, <1>7, <1>8, <1>9, <1>10 DEF MailTest

\* A list is linked when it is new.
LEMMA NewMailList ==
  NewList \in MailLists /\ DOMAIN NewList.cell = {}
<1> DEFINE S == UNION {[D -> Cells] : D \in SUBSET (Nat \ {0})}
<1>1. DOMAIN <<>> = {} /\ 0 \in Nat /\ 1 .. 0 = {}
  BY SMT
<1>2. <<>> \in [{} -> Cells]
  BY SMT
<1>3. <<>> \in S
  BY <1>2
<1>4. NewList.first = 0 /\ NewList.last = 0 /\ NewList.cell = <<>>
  BY DEF NewList, NULL
<1> HIDE DEF S
<1>5. NewList \in [first : Nat, last : Nat, cell : S]
  BY <1>1, <1>3 DEF NewList, NULL
<1>6. \E a \in [1 .. 0 -> Nat \ {0}] : Linked(NewList, 0, a)
  <2> DEFINE a == [k \in 1 .. 0 |-> 1]
  <2>1. a \in [1 .. 0 -> Nat \ {0}]
    BY <1>1
  <2> HIDE DEF a
  <2>2. Linked(NewList, 0, a)
    BY <1>1, <1>4 DEF Linked, NULL
  <2> QED BY <2>1, <2>2
<1>7. \E n \in Nat : \E a \in [1 .. n -> Nat \ {0}] : Linked(NewList, n, a)
  BY <1>1, <1>6
<1>8. NewList \in MailLists
  BY <1>5, <1>7 DEF MailLists, S
<1> QED BY <1>1, <1>4, <1>8

\* At first MailTest has the CPU, its worker is ready, and there is no mail.
LEMMA InitPost ==
  ASSUME Init
  PROVE  PostInv
<1>1. /\ "main" # "postal" /\ "main" # NoThread
      /\ <<"postal">> # <<"main">> /\ <<"postal">> # <<>>
      /\ <<"postal">> # <<"main", "postal">> /\ <<"postal">> # <<"postal", "main">>
  BY SMT DEF NoThread
<1>2. \A m \in Machines : Sched(m)!Semaphore(0) = [value |-> 0, queue |-> <<>>]
  BY DEF Sched!Semaphore
<1>3. 0 \in Nat /\ 1 \in 1 .. 5 /\ ~(0 > 0) /\ 1 <= 2 /\ 1 <= 4 /\ ~(1 > 1) /\ ~(1 > 3) /\ 1 # 3
      /\ 0 \in Boxes /\ 1 \in Boxes
  BY SMT DEF Boxes
<1>4. ThreadType
  <2>1. \A t : [value |-> 0, queue |-> <<>>] \in Sems(t)
    BY <1>3 DEF Sems
  <2> QED BY <1>2, <1>3, <2>1 DEF Init, NetInit, ThreadType, Threads, Queues
<1>5. ASSUME NEW m \in Machines
      PROVE  OnePlaces(m) /\ Permit(m)
  <2>1. /\ current[m] = "main" /\ ready[m] = <<"postal">> /\ inP[m] = {"postal"}
        /\ messageAvailable[m].value = 0 /\ messageAvailable[m].queue = <<>>
        /\ messageSent[m].value = 0 /\ messageSent[m].queue = <<>>
        /\ sending[m] = 0 /\ inbox[m] = NoMail
    <3>1. /\ messageAvailable[m] = [value |-> 0, queue |-> <<>>]
          /\ messageSent[m] = [value |-> 0, queue |-> <<>>]
      BY <1>2 DEF Init
    <3>2. /\ messageAvailable[m].value = 0 /\ messageAvailable[m].queue = <<>>
          /\ messageSent[m].value = 0 /\ messageSent[m].queue = <<>>
      BY <3>1, SMT
    <3>3. /\ current[m] = "main" /\ ready[m] = <<"postal">> /\ inP[m] = {"postal"}
          /\ sending[m] = 0 /\ inbox[m] = NoMail
      BY DEF Init, NetInit
    <3> QED BY <3>2, <3>3
  <2>2. OnePlaces(m)
    BY <1>1, <2>1 DEF OnePlaces, InOnePlace, Has, Awake
  <2>3. Permit(m)
    <3>1. Num("postal" \notin inP[m]) = 0 /\ Num(inbox[m] # NoMail) = 0 /\ Num("main" \in inP[m]) = 0
      BY <1>1, <2>1 DEF Num
    <3>2. 0 + 0 = 0
      BY SMT
    <3> QED BY <1>3, <2>1, <3>1, <3>2 DEF Permit
  <2> QED BY <2>2, <2>3
<1>6. MailType
  <2>1. <<>> \in Seq(Mails)
    BY SMT
  <2> QED BY <1>3, <2>1, NewMailList DEF Init, NetInit, MailType
<1>7. StageInv
  BY <1>1, <1>3 DEF Init, StageInv
<1>8. HomeInv
  <2>1. DOMAIN <<>> = {}
    BY SMT
  <2>2. ASSUME NEW m \in Machines
        PROVE  NetHome(m) /\ BoxHome(m)
    <3>1. NetHome(m)
      BY <2>1 DEF Init, NetInit, NetHome
    <3>2. BoxHome(m)
      BY NewMailList DEF Init, BoxHome
    <3> QED BY <3>1, <3>2
  <2> QED BY <2>2 DEF HomeInv
<1>9. CountInv
  <2>1. ASSUME NEW CONSTANT x \in Mails
        PROVE  ~IsSent(x) /\ x \notin lost /\ Places(x) = 0
    <3>1. x.to \in Machines /\ x.from \in Machines /\ NoMail # x
      BY MailEnds, NotNoMail
    <3>2. ~Did(x.from, 1) /\ ~Did(x.from, 3)
      BY <1>1, <1>3, <3>1 DEF Init, Did
    <3>3. Cardinality({}) = 0
      BY FS_EmptySet
    <3>4. AtSocket(x) = 0
      <4>1. socket[x.to] = <<>> /\ DOMAIN <<>> = {}
        BY <3>1, SMT DEF Init, NetInit
      <4>2. {k \in DOMAIN <<>> : <<>>[k] = x} = {}
        BY <4>1
      <4> QED BY <3>3, <4>1, <4>2 DEF AtSocket, Copies
    <3>5. AtInbox(x) = 0 /\ InHand(0, x) = 0 /\ InHand(1, x) = 0
      BY <1>3, <3>1 DEF Init, NetInit, AtInbox, InHand, Num
    <3>6. AtBox(0, x) = 0 /\ AtBox(1, x) = 0
      <4>1. boxes[x.to][0] = NewList /\ boxes[x.to][1] = NewList
        BY <1>3, <3>1 DEF Init
      <4>2. Holding(NewList, x) = {}
        BY NewMailList DEF Holding
      <4> QED BY <3>3, <4>1, <4>2 DEF AtBox
    <3>7. Places(x) = 0
      BY <3>4, <3>5, <3>6, PlacesSum, SMT
    <3>8. ~IsSent(x)
      BY <3>2 DEF IsSent
    <3>9. x \notin lost
      BY DEF Init
    <3> QED BY <3>7, <3>8, <3>9
  <2> QED BY <2>1 DEF CountInv
<1> QED BY <1>4, <1>5, <1>6, <1>7, <1>8, <1>9 DEF PostInv, ThreadInv, MailInv

\* Every step keeps the invariant.
LEMMA NextPost ==
  ASSUME PostInv, [Next]_vars
  PROVE  PostInv'
<1>1. ThreadInv /\ MailInv /\ MailType
  BY DEF PostInv, MailInv
<1>2. CASE UNCHANGED vars
  <2>1. UNCHANGED <<status, current, ready, inP, messageAvailable, messageSent, sending, socket,
                    inbox, buffer, boxes, stage, in, lost>>
    BY <1>2 DEF vars, semVars, netVars
  <2>2. MailInv'
    BY <1>1, <2>1, QuietMail
  <2>3. ThreadType'
    BY <1>1, <2>1 DEF ThreadInv, ThreadType
  <2>4. \A m \in Machines : OnePlaces(m)' /\ Permit(m)'
    BY <1>1, <2>1 DEF ThreadInv, OnePlaces, InOnePlace, Awake, Permit, Num
  <2> QED BY <2>2, <2>3, <2>4 DEF PostInv, ThreadInv
<1>3. ASSUME NEW m \in Machines, MailTest(m)
      PROVE  PostInv'
  BY <1>3, MailTestInv
<1>4. ASSUME NEW m \in Machines, PostalDelivery(m)
      PROVE  PostInv'
  <2>1. inbox \in [Machines -> Mails \cup {NoMail}]
    BY <1>1 DEF MailType
  <2>2. ThreadInv'
    BY <1>1, <1>4, <2>1, DeliveryThreads
  <2> QED BY <1>1, <1>4, <2>2, DeliveryMail DEF PostInv
<1>5. ASSUME NEW m \in Machines, Retry(m)
      PROVE  PostInv'
  BY <1>1, <1>5, RetryThreads, RetryMail DEF PostInv
<1>6. ASSUME NEW m \in Machines, CheckPktAvail(m)
      PROVE  PostInv'
  BY <1>1, <1>6, ArrivalThreads, ArrivalMail DEF PostInv
<1>7. ASSUME NEW m \in Machines, SendDone(m)
      PROVE  PostInv'
  <2>1. UNCHANGED <<status, inP, socket, inbox, buffer, boxes, stage, in, lost>>
    BY <1>7 DEF SendDone
  <2> QED BY <1>1, <1>7, <2>1, SendDoneThreads, QuietMail DEF PostInv
<1>8. ASSUME NEW m \in Machines, Dispatch(m) \/ Preempt(m)
      PROVE  PostInv'
  <2>1. UNCHANGED <<status, inP, socket, inbox, buffer, boxes, stage, in, lost>>
    BY <1>8 DEF Dispatch, Preempt, netVars
  <2>2. ThreadInv'
    BY <1>1, <1>8, CPUThreads
  <2> QED BY <1>1, <2>1, <2>2, QuietMail DEF PostInv
<1> QED BY <1>2, <1>3, <1>4, <1>5, <1>6, <1>7, <1>8 DEF Next, Quiet

-----------------------------------------------------------------------------
(* The properties.                                                         *)

\* The invariant holds.
THEOREM PostInvHolds == Spec => []PostInv
<1>1. Init => PostInv
  BY InitPost
<1>2. PostInv /\ [Next]_vars => PostInv'
  BY NextPost
<1> QED BY <1>1, <1>2, PTL DEF Spec

\* PermitPerPacket of every machine: the postal worker has one permit for
\* the packet that is buffered, and a sender one for the packet it sent.
THEOREM PermitsMatchPackets == Spec => []PermitPerPacket
<1>1. PostInv => PermitPerPacket
  BY DEF PostInv, ThreadInv, Permit, Num, PermitPerPacket
<1> QED BY <1>1, PostInvHolds, PTL

\* Whatever is in Sent is a mail that is sent.
LEMMA SentMails ==
  ASSUME PostInv, NEW mail \in Sent
  PROVE  mail \in Mails /\ IsSent(mail)
<1>1. MailType /\ StageInv /\ HomeInv
  BY DEF PostInv, MailInv
<1>2. CASE \E m \in Machines : Did(m, 1) /\ mail = Data(m)
  <2>1. PICK m \in Machines : Did(m, 1) /\ mail = Data(m)
    BY <1>2
  <2>2. Data(m) \in Mails /\ Data(m).text = "data" /\ Data(m).from = m
    BY MailFacts
  <2> QED BY <2>1, <2>2 DEF IsSent
<1>3. CASE \E m \in Machines : Did(m, 3) /\ mail = Ack(m)
  <2>1. PICK m \in Machines : Did(m, 3) /\ mail = Ack(m)
    BY <1>3
  <2>2. ~(stage[m] <= 2)
    <3>1. stage[m] \in 1 .. 5 /\ (stage[m] > 3 \/ stage[m] = 3)
      BY <1>1, <2>1 DEF MailType, Did
    <3> QED BY <3>1, SMT
  <2>3. in[m][0] # NoMail
    BY <1>1, <2>2 DEF StageInv
  <2>4. PICK p \in Machines : in[m][0] = Data(p) /\ Far[p] = m
    BY <1>1, <2>3, InHands
  <2>5. Data(p).from = p /\ Data(p).reply = 1
    BY MailFacts
  <2>6. Ack(m) = AckOf(p)
    BY <2>4, <2>5 DEF Ack, AckOf, ReplyBox
  <2>7. /\ AckOf(p) \in Mails /\ AckOf(p).text # "data" /\ AckOf(p).from = m
        /\ AckOf(p).to = p
    BY <2>4, MailFacts
  <2> QED BY <2>1, <2>4, <2>6, <2>7 DEF IsSent
<1> QED BY <1>2, <1>3 DEF Sent

\* MailOnce of every mail: from its Send on it is in one place, the socket,
\* the buffer, its own box or the program's hands, unless the network lost it.
THEOREM MailsAreDeliveredOnce == Spec => []MailOnce
<1>1. ASSUME PostInv
      PROVE  MailOnce
  <2>1. ASSUME NEW mail \in Sent
        PROVE  /\ Places(mail) = IF mail \in lost THEN 0 ELSE 1
               /\ \A b \in Boxes : InBox(mail.to, b, mail) # {} => b = mail.box
    <3>1. mail \in Mails /\ IsSent(mail)
      BY <1>1, SentMails
    <3>2. CountInv /\ HomeInv
      BY <1>1 DEF PostInv, MailInv
    <3>3. Places(mail) = IF mail \in lost THEN 0 ELSE 1
      BY <3>1, <3>2 DEF CountInv
    <3>4. ASSUME NEW b \in Boxes, InBox(mail.to, b, mail) # {}
          PROVE  b = mail.box
      <4>1. mail.to \in Machines
        BY <3>1, MailEnds
      <4>2. PICK e \in DOMAIN boxes[mail.to][b].cell : boxes[mail.to][b].cell[e].item = mail
        BY <3>4 DEF InBox
      <4>3. BoxHome(mail.to)
        BY <3>2, <4>1 DEF HomeInv
      <4> QED BY <4>2, <4>3 DEF BoxHome
    <3> QED BY <3>3, <3>4
  <2> QED BY <2>1 DEF MailOnce
<1> QED BY <1>1, PostInvHolds, PTL

\* What MailTest has received, whichever machines it is given: the first two
\* conjuncts of AckMeansReceived.
ReceivedRight ==
  \A m \in Machines :
    /\ stage[m] > 2 => in[m][0].text = "data" /\ Far[in[m][0].from] = m
    /\ stage[m] > 4 => /\ in[m][1].text = "ack" /\ in[m][1].from = Far[m]
                       /\ in[Far[m]][0] = Data(m)

\* A mail in the program's hands is nowhere else.
LEMMA OnlyInHand ==
  ASSUME PostInv, NEW CONSTANT x \in Mails, in[x.to][0] = x \/ in[x.to][1] = x
  PROVE  /\ IsSent(x)
         /\ AtSocket(x) = 0 /\ AtInbox(x) = 0 /\ AtBox(0, x) = 0 /\ AtBox(1, x) = 0
<1>1. MailType /\ CountInv
  BY DEF PostInv, MailInv
<1>2. /\ AtSocket(x) \in Nat /\ AtInbox(x) \in Nat
      /\ AtBox(0, x) \in Nat /\ AtBox(1, x) \in Nat
      /\ InHand(0, x) \in Nat /\ InHand(1, x) \in Nat
  <2>1. 0 \in Nat /\ 1 \in Nat
    BY SMT
  <2> QED BY <1>1, <2>1, PlaceTypes
<1>3. InHand(0, x) = 1 \/ InHand(1, x) = 1
  BY DEF InHand, Num
<1>4. Places(x) = (IF IsSent(x) /\ x \notin lost THEN 1 ELSE 0)
  BY <1>1 DEF CountInv
<1>5. Places(x) # 0
  BY <1>2, <1>3, PlacesSum, SMT
<1>6. IsSent(x) /\ Places(x) = 1
  BY <1>4, <1>5
<1>7. AtSocket(x) = 0 /\ AtInbox(x) = 0 /\ AtBox(0, x) = 0 /\ AtBox(1, x) = 0
  BY <1>2, <1>3, <1>6, PlacesSum, SMT
<1> QED BY <1>6, <1>7

\* The data that MailTest received was for its machine; its acknowledgement
\* came from the machine it sent its data to, which has received it.
LEMMA HandsRight ==
  ASSUME PostInv
  PROVE  ReceivedRight
<1>1. MailType /\ StageInv /\ HomeInv
  BY DEF PostInv, MailInv
<1>2. ASSUME NEW m \in Machines, stage[m] > 2
      PROVE  in[m][0].text = "data" /\ Far[in[m][0].from] = m
  <2>1. ~(stage[m] <= 2)
    <3>1. stage[m] \in 1 .. 5
      BY <1>1 DEF MailType
    <3> QED BY <1>2, <3>1, SMT
  <2>2. in[m][0] # NoMail
    BY <1>1, <2>1 DEF StageInv
  <2>3. PICK p \in Machines : in[m][0] = Data(p) /\ Far[p] = m
    BY <1>1, <2>2, InHands
  <2>4. Data(p).text = "data" /\ Data(p).from = p
    BY MailFacts
  <2> QED BY <2>3, <2>4
<1>3. ASSUME NEW m \in Machines, stage[m] > 4
      PROVE  /\ in[m][1].text = "ack" /\ in[m][1].from = Far[m]
             /\ in[Far[m]][0] = Data(m)
  <2>1. ~(stage[m] <= 4)
    <3>1. stage[m] \in 1 .. 5
      BY <1>1 DEF MailType
    <3> QED BY <1>3, <3>1, SMT
  <2>2. in[m][1] = AckOf(m)
    BY <1>1, <2>1, InHands DEF StageInv
  <2>3. /\ AckOf(m) \in Mails /\ AckOf(m).text = "ack" /\ AckOf(m).from = Far[m]
        /\ AckOf(m).to = m /\ AckOf(m).text # "data"
    BY MailFacts
  <2>4. IsSent(AckOf(m))
    BY <2>2, <2>3, OnlyInHand
  <2> QED BY <2>2, <2>3, <2>4 DEF IsSent
<1> QED BY <1>2, <1>3 DEF ReceivedRight

\* ReceivedRight, for any number of senders to a machine.
THEOREM AcksAreTrue == Spec => []ReceivedRight
<1>1. PostInv => ReceivedRight
  BY HandsRight
<1> QED BY <1>1, PostInvHolds, PTL

\* No two machines are given the same far machine.
OneSender == \A p, q \in Machines : Far[p] = Far[q] => p = q

\* A machine that halts has received all the mail for it.
LEMMA HaltedLeavesNone ==
  ASSUME OneSender, PostInv, NEW m \in Machines, status[m] = "halted"
  PROVE  /\ socket[m] = <<>> /\ inbox[m] = NoMail
         /\ \A b \in Boxes : IsEmpty(boxes[m][b])
<1>1. MailType /\ StageInv /\ HomeInv /\ NetHome(m) /\ BoxHome(m)
  BY DEF PostInv, MailInv, HomeInv
<1>2. in[m][0] # NoMail /\ in[m][1] # NoMail
  <2>1. ~(5 <= 2) /\ ~(5 <= 4)
    BY SMT
  <2> QED BY <1>1, <2>1 DEF StageInv
<1>3. PICK p \in Machines : in[m][0] = Data(p) /\ Far[p] = m
  BY <1>1, <1>2, InHands
<1>4. in[m][1] = AckOf(m)
  BY <1>1, <1>2, InHands
<1>5. ASSUME NEW CONSTANT x \in Mails, x.to = m
      PROVE  AtSocket(x) = 0 /\ AtInbox(x) = 0 /\ AtBox(0, x) = 0 /\ AtBox(1, x) = 0
  <2>1. x = Data(p) \/ x = AckOf(m)
    <3>1. CASE \E r \in Machines : x = Data(r)
      <4>1. PICK r \in Machines : x = Data(r)
        BY <3>1
      <4>2. Data(r).to = Far[r]
        BY MailFacts
      <4>3. r = p
        BY <1>3, <1>5, <4>1, <4>2 DEF OneSender
      <4> QED BY <4>1, <4>3
    <3>2. CASE \E r \in Machines : x = AckOf(r)
      <4>1. PICK r \in Machines : x = AckOf(r)
        BY <3>2
      <4>2. AckOf(r).to = r
        BY MailFacts
      <4> QED BY <1>5, <4>1, <4>2
    <3> QED BY <3>1, <3>2, MailFacts
  <2>2. in[x.to][0] = x \/ in[x.to][1] = x
    BY <1>3, <1>4, <1>5, <2>1
  <2> QED BY <2>2, OnlyInHand
<1>6. socket[m] = <<>>
  <2>1. SUFFICES ASSUME socket[m] # <<>>
                 PROVE  FALSE
    OBVIOUS
  <2>2. socket[m] \in Seq(Mails)
    BY <1>1 DEF MailType
  <2>3. Head(socket[m]) \in Mails /\ \E j \in DOMAIN socket[m] : Head(socket[m]) = socket[m][j]
    BY <2>1, <2>2, SeqElements
  <2>4. PICK j \in DOMAIN socket[m] : Head(socket[m]) = socket[m][j]
    BY <2>3
  <2>5. \E x \in Mails : x.to = m /\ socket[m][j] = x
    BY <1>1, <2>3, <2>4 DEF NetHome
  <2>6. PICK x \in Mails : x.to = m /\ socket[m][j] = x
    BY <2>5
  <2>7. Copies(socket[m], x) = 0
    BY <1>5, <2>6 DEF AtSocket
  <2>8. \A k \in DOMAIN socket[m] : socket[m][k] # x
    BY <2>2, <2>7, CopiesFacts
  <2> QED BY <2>6, <2>8
<1>7. inbox[m] = NoMail
  <2>1. SUFFICES ASSUME inbox[m] # NoMail
                 PROVE  FALSE
    OBVIOUS
  <2>2. inbox[m] \in Mails /\ inbox[m].to = m
    BY <1>1, <2>1 DEF MailType, NetHome
  <2>3. PICK x \in Mails : x.to = m /\ inbox[m] = x
    BY <2>2
  <2>4. AtInbox(x) = 0
    BY <1>5, <2>3
  <2>5. 0 # 1
    BY SMT
  <2> QED BY <2>3, <2>4, <2>5 DEF AtInbox, Num
<1>8. ASSUME NEW b \in Boxes
      PROVE  IsEmpty(boxes[m][b])
  <2> DEFINE l == boxes[m][b]
  <2>1. SUFFICES ASSUME ~IsEmpty(l)
                 PROVE  FALSE
    OBVIOUS
  <2>2. l \in MailLists
    BY <1>1 DEF MailType
  <2>3. l.first \in DOMAIN l.cell /\ l.cell[l.first] \in Cells
    BY <2>1, <2>2, ListFacts
  <2>4. l.cell[l.first].item \in Mails
    BY <2>3 DEF Cells
  <2>5. l.cell[l.first].item.to = m
    <3>1. \A e \in DOMAIN l.cell : l.cell[e].item.to = m
      <4>1. BoxHome(m)
        BY <1>1
      <4> QED BY <4>1 DEF BoxHome
    <3> HIDE DEF l
    <3> QED BY <2>3, <3>1
  <2>6. PICK x \in Mails : x.to = m /\ l.cell[l.first].item = x
    BY <2>4, <2>5
  <2>7. Cardinality(Holding(l, x)) = 0
    <3>1. b = 0 \/ b = 1
      BY SMT DEF Boxes
    <3> QED BY <1>5, <2>6, <3>1 DEF AtBox
  <2>8. Holding(l, x) = {}
    BY <2>2, <2>7, HoldingFacts
  <2> QED BY <2>3, <2>6, <2>8 DEF Holding
<1> QED BY <1>6, <1>7, <1>8

\* AckMeansReceived, when no two machines send their data to the same one,
\* as the two machines that nettest.cc is run on: what is acknowledged was
\* received, and a machine that halts leaves no mail behind.
THEOREM AcksMeanReceived ==
  ASSUME OneSender
  PROVE  Spec => []AckMeansReceived
<1>1. PostInv => AckMeansReceived
  BY HandsRight, HaltedLeavesNone DEF ReceivedRight, AckMeansReceived
<1> QED BY <1>1, PostInvHolds, PTL

=============================================================================
