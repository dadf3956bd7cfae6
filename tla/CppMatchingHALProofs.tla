------------------------ MODULE CppMatchingHALProofs ------------------------
(***************************************************************************)
(* Proofs about the C++ backend: the linked lists of CppOrderBook, what    *)
(* CppMatchingHAL projects of them, and that the book does what the Python *)
(* book does, for every set of ids, prices and orders, every width of an   *)
(* integer, and any number of calls.                                       *)
(***************************************************************************)
EXTENDS CppMatchingHAL, SharedFacts

-----------------------------------------------------------------------------
(* Frames.                                                                 *)

\* The offsets of a format, one after the other.
IsOffset(offset, format) ==
    offset = [i \in DOMAIN format |->
                IF i = 1 THEN 0 ELSE offset[i - 1] + format[i - 1][2]]

\* The first field starts at 0 and each next one where the last one ends, so a
\* format has one sequence of offsets.
LEMMA OffsetUnique ==
    ASSUME NEW n \in Nat, NEW format, DOMAIN format = 1..n,
           NEW f, IsOffset(f, format), NEW g, IsOffset(g, format)
    PROVE  f = g
<1> DEFINE Bad == {i \in 1..n : f[i] # g[i]}
<1>1. \A i \in 1..n : f[i] = IF i = 1 THEN 0 ELSE f[i - 1] + format[i - 1][2]
  BY DEF IsOffset
<1>2. \A i \in 1..n : g[i] = IF i = 1 THEN 0 ELSE g[i - 1] + format[i - 1][2]
  BY DEF IsOffset
<1>3. Bad = {}
  <2> SUFFICES ASSUME Bad # {} PROVE FALSE
    OBVIOUS
  <2>1. Bad \in SUBSET Nat
    OBVIOUS
  <2>2. PICK i \in Bad : \A j \in Bad : i <= j
    BY <2>1, LeastNumber
  <2>3. CASE i = 1
    BY <2>2, <2>3, <1>1, <1>2
  <2>4. CASE i # 1
    <3>1. i - 1 \in 1..n /\ ~(i <= i - 1)
      BY <2>2, <2>4
    <3>2. f[i - 1] = g[i - 1]
      BY <3>1, <2>2
    <3> QED BY <3>2, <2>2, <2>4, <1>1, <1>2
  <2> QED BY <2>3, <2>4
<1>4. \A i \in 1..n : f[i] = g[i]
  BY <1>3
<1>5. f = [i \in 1..n |-> f[i]] /\ g = [i \in 1..n |-> g[i]]
  BY DEF IsOffset
<1> QED BY <1>4, <1>5

\* A format of n fields that names each of them once.
IsFormat(format, n) ==
    /\ n \in Nat
    /\ DOMAIN format = 1..n
    /\ \A i, j \in 1..n : format[i][1] = format[j][1] => i = j

\* A layout puts the fields of a format at these offsets.
PutsAt(layout, format, offset, n) ==
    /\ DOMAIN layout = {format[i][1] : i \in 1..n}
    /\ \A i \in 1..n : layout[format[i][1]] = <<offset[i], format[i][2]>>

\* Where Layout puts the fields of a format.
LEMMA LayoutFacts ==
    ASSUME NEW n, NEW format, IsFormat(format, n),
           NEW offset, IsOffset(offset, format)
    PROVE  PutsAt(Layout(format), format, offset, n)
<1>1. Offsets(format) = CHOOSE f : IsOffset(f, format)
  BY DEF Offsets, IsOffset
<1>2. IsOffset(Offsets(format), format)
  BY <1>1
<1>3. Offsets(format) = offset
  BY <1>2, OffsetUnique DEF IsFormat
<1>4. ASSUME NEW i \in 1..n PROVE Index(format, format[i][1]) = i
  BY DEF Index, IsFormat
<1> QED BY <1>3, <1>4 DEF Layout, IsFormat, PutsAt

\* The layout of an order frame.
LEMMA OrderLayout ==
    /\ OrderFormat["order_id"] = <<0, 16>>
    /\ OrderFormat["price"] = <<16, 8>>
    /\ OrderFormat["quantity"] = <<24, 4>>
    /\ OrderFormat["filled_quantity"] = <<28, 4>>
    /\ OrderFormat["symbol"] = <<48, 6>>
    /\ OrderFormat["side"] = <<54, 1>>
    /\ OrderFormat["order_type"] = <<55, 1>>
    /\ OrderFormat["time_in_force"] = <<56, 1>>
    /\ OrderFormat["status"] = <<57, 1>>
<1>1. PICK format : format =
        <<<<"order_id", 16>>, <<"price", 8>>, <<"quantity", 4>>,
          <<"filled_quantity", 4>>, <<"created_at_ns", 8>>,
          <<"processed_at_ns", 8>>, <<"symbol", 6>>, <<"side", 1>>,
          <<"order_type", 1>>, <<"time_in_force", 1>>, <<"status", 1>>>>
  OBVIOUS
<1>2. PICK offset : offset = <<0, 16, 24, 28, 32, 40, 48, 54, 55, 56, 57>>
  OBVIOUS
<1>3. IsFormat(format, 11)
  BY <1>1 DEF IsFormat
<1>4. IsOffset(offset, format)
  <2>1. DOMAIN offset = 1..11 /\ offset = [i \in 1..11 |-> offset[i]]
    BY <1>2
  <2>2. \A i \in 1..11 : offset[i] = IF i = 1 THEN 0 ELSE offset[i - 1] + format[i - 1][2]
    BY <1>1, <1>2
  <2> QED BY <2>1, <2>2, <1>3 DEF IsOffset, IsFormat
<1>5. PutsAt(Layout(format), format, offset, 11)
  BY <1>3, <1>4, LayoutFacts
<1>6. OrderFormat = Layout(format)
  BY <1>1 DEF OrderFormat
<1>7. PutsAt(OrderFormat, format, offset, 11)
  BY <1>5, <1>6
<1>8. \A i \in 1..11 : OrderFormat[format[i][1]] = <<offset[i], format[i][2]>>
  BY ONLY <1>7 DEF PutsAt
<1> QED BY ONLY <1>1, <1>2, <1>8

\* A packed field is where the layout puts it.
LEMMA PackFacts ==
    ASSUME NEW layout, NEW v,
           \A a, b \in DOMAIN v : layout[a] = layout[b] => a = b
    PROVE  \A name \in DOMAIN v : Pack(layout, v)[layout[name]] = v[name]
<1> SUFFICES ASSUME NEW name \in DOMAIN v
             PROVE  Pack(layout, v)[layout[name]] = v[name]
  OBVIOUS
<1>1. (CHOOSE a \in DOMAIN v : layout[a] = layout[name]) = name
  OBVIOUS
<1> QED BY <1>1 DEF Pack

\* Python reads in the frame of a native order its status and what is filled.
LEMMA NativeStateDecoded ==
    ASSUME NEW node, node.status \in DOMAIN STATUS_TO_WIRE
    PROVE  /\ DecodeOrder(CppEncodeOrder(node)).status = node.status
           /\ DecodeOrder(CppEncodeOrder(node)).filled_quantity = node.filled_quantity
<1>1. PICK frame : frame = CppEncodeOrder(node)
  OBVIOUS
<1>2. frame[<<28, 4>>] = node.filled_quantity
  BY <1>1 DEF CppEncodeOrder
<1>3. frame[<<57, 1>>] = CppByte("status", node.status)
  BY <1>1 DEF CppEncodeOrder
<1>4. FromWire(STATUS_TO_WIRE, CppByte("status", node.status)) = node.status
  <2>1. PICK k : k = node.status
    OBVIOUS
  <2>2. k \in {"PENDING", "OPEN", "PARTIALLY_FILLED", "FILLED", "CANCELLED", "REJECTED"}
    BY <2>1 DEF STATUS_TO_WIRE
  <2>3. CppByte("status", k) = STATUS_TO_WIRE[k]
    BY <2>2 DEF CppByte, CppEnums, STATUS_TO_WIRE
  <2>4. \A a, b \in DOMAIN STATUS_TO_WIRE : STATUS_TO_WIRE[a] = STATUS_TO_WIRE[b] => a = b
    BY DEF STATUS_TO_WIRE
  <2>5. FromWire(STATUS_TO_WIRE, STATUS_TO_WIRE[k]) = k
    BY <2>1, <2>4 DEF FromWire
  <2> QED BY <2>1, <2>3, <2>5
<1>5. DecodeOrder(frame).filled_quantity = frame[<<28, 4>>]
  BY OrderLayout DEF DecodeOrder, Unpack
<1>6. DecodeOrder(frame).status = FromWire(STATUS_TO_WIRE, frame[<<57, 1>>])
  BY OrderLayout DEF DecodeOrder, Unpack
<1> QED BY <1>1, <1>2, <1>3, <1>4, <1>5, <1>6

\* The native order a new Python order becomes: the same, and no price is 0.
LEMMA NativeOrderFacts ==
    ASSUME NEW order \in Submission
    PROVE  /\ NewOrder(order).quantity = order.quantity
           /\ NativeOrder(order).order_id = order.order_id
           /\ NativeOrder(order).quantity = order.quantity
           /\ NativeOrder(order).price = IF order.price = None THEN 0 ELSE order.price
           /\ NativeOrder(order).side = order.side
           /\ NativeOrder(order).order_type = order.order_type
           /\ NativeOrder(order).time_in_force = order.time_in_force
<1>1. PICK new : new = NewOrder(order)
  OBVIOUS
<1>2. /\ order.side \in {"BUY", "SELL"} /\ order.order_type \in {"LIMIT", "MARKET"}
      /\ order.time_in_force \in {"GTC", "IOC", "FOK", "GTD"}
      /\ DOMAIN order = {"order_id", "symbol", "side", "order_type", "price",
                         "quantity", "time_in_force"}
  BY DEF Submission, Side
<1>3. /\ new.order_id = order.order_id /\ new.quantity = order.quantity
      /\ new.price = order.price /\ new.side = order.side
      /\ new.order_type = order.order_type /\ new.time_in_force = order.time_in_force
      /\ new.status = "PENDING"
  BY <1>1, <1>2 DEF NewOrder
<1>4. PICK v : v =
        [order_id |-> new.order_id,
         price |-> IF new.price = None THEN 0 ELSE new.price,
         quantity |-> new.quantity,
         filled_quantity |-> new.filled_quantity,
         symbol |-> SixBytes[new.symbol],
         side |-> SIDE_TO_WIRE[new.side],
         order_type |-> TYPE_TO_WIRE[new.order_type],
         time_in_force |-> TIF_TO_WIRE[new.time_in_force],
         status |-> STATUS_TO_WIRE[new.status]]
  OBVIOUS
<1>5. DOMAIN v = {"order_id", "price", "quantity", "filled_quantity", "symbol",
                  "side", "order_type", "time_in_force", "status"}
  BY <1>4
<1>6. \A a, b \in DOMAIN v : OrderFormat[a] = OrderFormat[b] => a = b
  BY ONLY <1>5, OrderLayout
<1>7. PICK frame : frame = Pack(OrderFormat, v)
  OBVIOUS
<1>8. \A name \in DOMAIN v : frame[OrderFormat[name]] = v[name]
  BY <1>6, <1>7, PackFacts
<1>9. /\ frame[<<0, 16>>] = v.order_id /\ frame[<<16, 8>>] = v.price
      /\ frame[<<24, 4>>] = v.quantity /\ frame[<<54, 1>>] = v.side
      /\ frame[<<55, 1>>] = v.order_type /\ frame[<<56, 1>>] = v.time_in_force
  BY ONLY <1>5, <1>8, OrderLayout
<1>10. NativeOrder(order) = CppDecodeOrder(frame)
  BY <1>1, <1>4, <1>7 DEF NativeOrder, EncodeOrder
<1>11. PICK n : n = CppDecodeOrder(frame)
  OBVIOUS
<1>12. /\ n.order_id = v.order_id /\ n.price = v.price /\ n.quantity = v.quantity
       /\ n.side = CppEnum("side", v.side)
       /\ n.order_type = CppEnum("order_type", v.order_type)
       /\ n.time_in_force = CppEnum("time_in_force", v.time_in_force)
  BY <1>9, <1>11 DEF CppDecodeOrder
<1>13. CppEnum("side", v.side) = order.side
  BY <1>2, <1>3, <1>4 DEF CppEnum, CppEnums, SIDE_TO_WIRE
<1>14. CppEnum("order_type", v.order_type) = order.order_type
  BY <1>2, <1>3, <1>4 DEF CppEnum, CppEnums, TYPE_TO_WIRE
<1>15. CppEnum("time_in_force", v.time_in_force) = order.time_in_force
  BY <1>2, <1>3, <1>4 DEF CppEnum, CppEnums, TIF_TO_WIRE
<1>16. /\ v.order_id = order.order_id /\ v.quantity = order.quantity
       /\ v.price = IF order.price = None THEN 0 ELSE order.price
  BY <1>3, <1>4
<1> QED BY <1>1, <1>3, <1>10, <1>11, <1>12, <1>13, <1>14, <1>15, <1>16

-----------------------------------------------------------------------------
(* Doubly linked lists: the nodes A of a level, their links lk and their   *)
(* arrival stamps st, as PriceLevel leaves them.                           *)

Chain(A, lk, st, level) ==
    /\ level.head \in A /\ level.tail \in A
    /\ lk[level.head].prev = None /\ lk[level.tail].next = None
    /\ \A o \in A :
         /\ IF lk[o].prev = None THEN o = level.head
            ELSE lk[o].prev \in A /\ lk[lk[o].prev].next = o
         /\ IF lk[o].next = None THEN o = level.tail
            ELSE /\ lk[o].next \in A
                 /\ lk[lk[o].next].prev = o
                 /\ st[o] < st[lk[o].next]

\* A list depends on the links and the stamps of its own nodes only.
LEMMA ChainSame ==
    ASSUME NEW A, NEW lk, NEW st, NEW level, Chain(A, lk, st, level),
           NEW lk2, NEW st2, NEW level2,
           \A o \in A : lk2[o] = lk[o] /\ st2[o] = st[o],
           level2.head = level.head, level2.tail = level.tail
    PROVE  Chain(A, lk2, st2, level2)
BY DEF Chain

\* A new level has one node.
LEMMA ChainNew ==
    ASSUME NEW o, NEW lk, NEW st, NEW level, level.head = o, level.tail = o,
           lk[o].prev = None, lk[o].next = None
    PROVE  Chain({o}, lk, st, level)
BY DEF Chain

\* push_back of a node that came after all the others.
LEMMA ChainPush ==
    ASSUME NEW A, NEW lk, NEW st, NEW level, Chain(A, lk, st, level), None \notin A,
           NEW o, o \notin A, o # None, \A n \in A : st[n] < st[o],
           NEW lk2, lk2[o].prev = level.tail, lk2[o].next = None,
           lk2[level.tail].prev = lk[level.tail].prev, lk2[level.tail].next = o,
           \A n \in A : n # level.tail => lk2[n] = lk[n],
           NEW level2, level2.head = level.head, level2.tail = o
    PROVE  Chain(A \union {o}, lk2, st, level2)
<1>1. /\ level2.head \in A \union {o} /\ level2.tail \in A \union {o}
      /\ lk2[level2.head].prev = None /\ lk2[level2.tail].next = None
  BY DEF Chain
<1>2. ASSUME NEW n \in A
      PROVE  /\ IF lk2[n].prev = None THEN n = level2.head
                ELSE lk2[n].prev \in A \union {o} /\ lk2[lk2[n].prev].next = n
             /\ IF lk2[n].next = None THEN n = level2.tail
                ELSE /\ lk2[n].next \in A \union {o}
                     /\ lk2[lk2[n].next].prev = n
                     /\ st[n] < st[lk2[n].next]
  <2>1. lk2[n].prev = lk[n].prev
    OBVIOUS
  <2>2. lk[n].prev # None => lk[n].prev # level.tail
    BY DEF Chain
  <2>3. IF lk2[n].prev = None THEN n = level2.head
        ELSE lk2[n].prev \in A \union {o} /\ lk2[lk2[n].prev].next = n
    BY <2>1, <2>2 DEF Chain
  <2>4. CASE n = level.tail
    BY <2>3, <2>4 DEF Chain
  <2>5. CASE n # level.tail
    <3>1. lk2[n].next = lk[n].next /\ lk[n].next # None /\ lk[n].next \in A
          /\ lk[lk[n].next].prev = n /\ st[n] < st[lk[n].next]
      BY <2>5 DEF Chain
    <3>2. lk2[lk[n].next].prev = lk[lk[n].next].prev
      BY <3>1
    <3> QED BY <3>1, <3>2, <2>3
  <2> QED BY <2>4, <2>5
<1>3. /\ IF lk2[o].prev = None THEN o = level2.head
         ELSE lk2[o].prev \in A \union {o} /\ lk2[lk2[o].prev].next = o
      /\ IF lk2[o].next = None THEN o = level2.tail
         ELSE /\ lk2[o].next \in A \union {o}
              /\ lk2[lk2[o].next].prev = o
              /\ st[o] < st[lk2[o].next]
  BY DEF Chain
<1> QED BY <1>1, <1>2, <1>3 DEF Chain

\* A node with neither neighbour is alone in its list: any other one would have a
\* first one among them, which nothing could link to the rest.
LEMMA ChainAlone ==
    ASSUME NEW A, NEW lk, NEW st, NEW level, Chain(A, lk, st, level),
           None \notin A, \A n \in A : st[n] \in Nat,
           NEW o \in A, lk[o].prev = None, lk[o].next = None
    PROVE  A = {o}
<1> DEFINE Others == A \ {o}
           Stamps == {st[n] : n \in Others}
<1> SUFFICES ASSUME Others # {} PROVE FALSE
  OBVIOUS
<1>1. Stamps \in SUBSET Nat /\ Stamps # {}
  OBVIOUS
<1>2. PICK k \in Stamps : \A m \in Stamps : k <= m
  BY <1>1, LeastNumber
<1>3. PICK n \in Others : st[n] = k
  BY <1>2
<1>4. lk[n].prev # None
  BY <1>3 DEF Chain
<1>5. PICK m : m = lk[n].prev
  OBVIOUS
<1>6. m \in A /\ lk[m].next = n
  BY <1>3, <1>4, <1>5 DEF Chain
<1>7. m # o /\ st[m] < st[n]
  BY <1>3, <1>6 DEF Chain
<1>8. st[m] \in Stamps /\ st[m] \in Nat /\ k \in Nat
  BY <1>1, <1>2, <1>6, <1>7
<1>9. k <= st[m]
  BY <1>2, <1>8
<1>10. st[m] < k
  BY <1>3, <1>7
<1> QED BY <1>8, <1>9, <1>10

\* The links of the list without o, whose neighbours now point past it.
LinksWithout(A, lk, o, lk2) ==
    \A n \in A \ {o} :
        /\ lk2[n].prev = IF n = lk[o].next THEN lk[o].prev ELSE lk[n].prev
        /\ lk2[n].next = IF n = lk[o].prev THEN lk[o].next ELSE lk[n].next

\* remove: either the list is empty, or it is a list without the node.
LEMMA ChainRemove ==
    ASSUME NEW A, NEW lk, NEW st, NEW level, Chain(A, lk, st, level),
           None \notin A, \A n \in A : st[n] \in Nat,
           NEW o \in A, NEW lk2, LinksWithout(A, lk, o, lk2), NEW level2,
           level2.head = IF lk[o].prev = None THEN lk[o].next ELSE level.head,
           level2.tail = IF lk[o].next = None THEN lk[o].prev ELSE level.tail
    PROVE  IF level2.head = None THEN A = {o} ELSE Chain(A \ {o}, lk2, st, level2)
<1>1. CASE level2.head = None
  <2>1. lk[o].prev = None /\ lk[o].next = None
    BY <1>1 DEF Chain
  <2> QED BY <2>1, <1>1, ChainAlone
<1>2. CASE level2.head # None
  <2> DEFINE p == lk[o].prev
             x == lk[o].next
             B == A \ {o}
  <2>1. p # None => /\ p \in B /\ lk[p].next = o /\ o # level.head /\ st[p] < st[o]
    BY DEF Chain
  <2>2. p = None => o = level.head
    BY DEF Chain
  <2>3. x # None => /\ x \in B /\ lk[x].prev = o /\ o # level.tail /\ st[o] < st[x]
    BY DEF Chain
  <2>4. x = None => o = level.tail
    BY DEF Chain
  <2>5. ~(p = None /\ x = None)
    BY <1>2
  <2>6. level2.head \in B /\ level2.tail \in B
    <3>1. level2.head \in B
      BY <2>1, <2>2, <2>3, <2>5 DEF Chain
    <3>2. level2.tail \in B
      BY <2>1, <2>3, <2>4, <2>5 DEF Chain
    <3> QED BY <3>1, <3>2
  <2>7. lk2[level2.head].prev = None
    <3>1. CASE p = None
      BY <3>1, <2>3, <2>5 DEF LinksWithout
    <3>2. CASE p # None
      <4>1. level2.head = level.head /\ level.head \in B /\ lk[level.head].prev = None
        BY <3>2, <2>1 DEF Chain
      <4>2. level.head # x
        BY <4>1, <2>3
      <4> QED BY <4>1, <4>2 DEF LinksWithout
    <3> QED BY <3>1, <3>2
  <2>8. lk2[level2.tail].next = None
    <3>1. CASE x = None
      BY <3>1, <2>1, <2>5 DEF LinksWithout
    <3>2. CASE x # None
      <4>1. level2.tail = level.tail /\ level.tail \in B /\ lk[level.tail].next = None
        BY <3>2, <2>3 DEF Chain
      <4>2. level.tail # p
        BY <4>1, <2>1
      <4> QED BY <4>1, <4>2 DEF LinksWithout
    <3> QED BY <3>1, <3>2
  <2>9. ASSUME NEW n \in B
        PROVE  IF lk2[n].prev = None THEN n = level2.head
               ELSE lk2[n].prev \in B /\ lk2[lk2[n].prev].next = n
    <3>1. CASE n = x
      <4>1. lk2[n].prev = p
        BY <3>1 DEF LinksWithout
      <4>2. CASE p = None
        BY <4>1, <4>2, <3>1
      <4>3. CASE p # None
        <5>1. p \in B /\ lk2[p].next = x
          BY <4>3, <2>1 DEF LinksWithout
        <5> QED BY <5>1, <4>1, <4>3, <3>1
      <4> QED BY <4>2, <4>3
    <3>2. CASE n # x
      <4>1. lk2[n].prev = lk[n].prev
        BY <3>2 DEF LinksWithout
      <4>2. CASE lk[n].prev = None
        BY <4>1, <4>2, <2>2 DEF Chain
      <4>3. CASE lk[n].prev # None
        <5>1. lk[n].prev \in A /\ lk[lk[n].prev].next = n
          BY <4>3 DEF Chain
        <5>2. lk[n].prev \in B
          BY <5>1, <3>2
        <5>3. lk[n].prev # p
          <6>1. ASSUME lk[n].prev = p PROVE FALSE
            BY <6>1, <5>1, <4>3, <2>1
          <6> QED BY <6>1
        <5>4. lk2[lk[n].prev].next = lk[lk[n].prev].next
          BY <5>2, <5>3 DEF LinksWithout
        <5> QED BY <5>1, <5>2, <5>4, <4>1, <4>3
      <4> QED BY <4>2, <4>3
    <3> QED BY <3>1, <3>2
  <2>10. ASSUME NEW n \in B
         PROVE  IF lk2[n].next = None THEN n = level2.tail
                ELSE /\ lk2[n].next \in B /\ lk2[lk2[n].next].prev = n
                     /\ st[n] < st[lk2[n].next]
    <3>1. CASE n = p
      <4>1. lk2[n].next = x
        BY <3>1 DEF LinksWithout
      <4>2. CASE x = None
        BY <4>1, <4>2, <3>1
      <4>3. CASE x # None
        <5>1. x \in B /\ lk2[x].prev = p
          BY <4>3, <2>3 DEF LinksWithout
        <5>2. st[n] < st[x]
          BY <5>1, <4>3, <3>1, <2>1, <2>3
        <5> QED BY <5>1, <5>2, <4>1, <4>3, <3>1
      <4> QED BY <4>2, <4>3
    <3>2. CASE n # p
      <4>1. lk2[n].next = lk[n].next
        BY <3>2 DEF LinksWithout
      <4>2. CASE lk[n].next = None
        BY <4>1, <4>2, <2>4 DEF Chain
      <4>3. CASE lk[n].next # None
        <5>1. lk[n].next \in A /\ lk[lk[n].next].prev = n /\ st[n] < st[lk[n].next]
          BY <4>3 DEF Chain
        <5>2. lk[n].next \in B
          BY <5>1, <3>2
        <5>3. lk[n].next # x
          <6>1. ASSUME lk[n].next = x PROVE FALSE
            BY <6>1, <5>1, <4>3, <2>3
          <6> QED BY <6>1
        <5>4. lk2[lk[n].next].prev = lk[lk[n].next].prev
          BY <5>2, <5>3 DEF LinksWithout
        <5> QED BY <5>1, <5>2, <5>4, <4>1, <4>3
      <4> QED BY <4>2, <4>3
    <3> QED BY <3>1, <3>2
  <2>11. Chain(B, lk2, st, level2)
    BY <2>6, <2>7, <2>8, <2>9, <2>10 DEF Chain
  <2> QED BY <2>11, <1>2
<1> QED BY <1>1, <1>2

-----------------------------------------------------------------------------
(* Unsigned integers.                                                      *)

\* A remainder is the only one of its kind.
LEMMA RemainderUnique ==
    ASSUME NEW m \in Nat \ {0}, NEW x \in Int, NEW y \in Int, NEW q \in Int,
           x = y + m * q
    PROVE  x % m = y % m
<1> DEFINE a == x \div m
           b == y \div m
           r == x % m
           t == y % m
<1>1. a \in Int /\ b \in Int /\ r \in 0..m - 1 /\ t \in 0..m - 1
  OBVIOUS
<1>2. x = m * a + r
  OBVIOUS
<1>3. y = m * b + t
  OBVIOUS
<1> HIDE DEF a, b, r, t
<1>4. PICK d : d = b + q - a
  OBVIOUS
<1>5. d \in Int /\ m * d = m * b + m * q - m * a
  BY <1>1, <1>4
<1>6. m * b \in Int /\ m * q \in Int /\ m * a \in Int
  BY <1>1
<1>7. r - t = m * d
  BY <1>1, <1>2, <1>3, <1>5, <1>6
<1>8. d = 0
  <2>1. CASE d >= 1
    <3>1. m * d >= m
      BY <2>1, <1>5
    <3> QED BY <3>1, <1>1, <1>5, <1>7
  <2>2. CASE d <= -1
    <3>1. m * d <= -m
      BY <2>2, <1>5
    <3> QED BY <3>1, <1>1, <1>5, <1>7
  <2> QED BY <2>1, <2>2, <1>5
<1>9. r = t
  BY <1>1, <1>7, <1>8
<1> QED BY <1>9 DEF r, t

\* A uint32_t holds a sum as far as it can, whatever was cut off before.
LEMMA LowFacts ==
    /\ \A a \in Int : Low(4, a) \in Nat
    /\ \A a, b \in Int : Low(4, Low(4, a) + b) = Low(4, a + b)
<1>1. PICK m : m = Span[4]
  OBVIOUS
<1>2. m \in Nat \ {0}
  BY <1>1, SpanAssumption
<1>3. \A a \in Int : Low(4, a) = a % m
  BY <1>1 DEF Low
<1>4. \A a \in Int : a % m \in Nat
  BY <1>2
<1>5. ASSUME NEW a \in Int, NEW b \in Int PROVE ((a % m) + b) % m = (a + b) % m
  <2>1. PICK q : q = a \div m
    OBVIOUS
  <2>2. q \in Int /\ a = m * q + (a % m) /\ a % m \in Int
    BY <2>1, <1>2
  <2>3. PICK r : r = a % m
    OBVIOUS
  <2>4. m * q \in Int
    BY <2>2, <1>2
  <2>5. a + b \in Int /\ r + b \in Int /\ a + b = (r + b) + m * q
    BY <2>2, <2>3, <2>4
  <2>6. PICK x \in Int : x = a + b
    BY <2>5
  <2>7. PICK y \in Int : y = r + b
    BY <2>5
  <2>8. x = y + m * q
    BY <2>5, <2>6, <2>7
  <2>9. x % m = y % m
    BY <2>2, <2>8, <1>2, RemainderUnique
  <2> QED BY <2>3, <2>6, <2>7, <2>9
<1>6. ASSUME NEW a \in Int, NEW b \in Int PROVE Low(4, Low(4, a) + b) = Low(4, a + b)
  <2>1. Low(4, a) = a % m /\ (a % m) + b \in Int /\ a + b \in Int
    BY <1>3, <1>4
  <2>2. Low(4, Low(4, a) + b) = ((a % m) + b) % m /\ Low(4, a + b) = (a + b) % m
    BY <2>1, <1>3
  <2> QED BY <2>2, <1>5
<1> QED BY <1>3, <1>4, <1>6

-----------------------------------------------------------------------------
(* Price levels: a list, its count and its total.                          *)

LevelSound(A, lk, st, rem, level) ==
    /\ Chain(A, lk, st, level)
    /\ IsFiniteSet(A)
    /\ level.count = Cardinality(A)
    /\ level.total = Low(4, SumFunctionOnSet(rem, A))

\* A level depends on its own nodes only.
LEMMA LevelSame ==
    ASSUME NEW A, NEW lk, NEW st, NEW rem, NEW level, LevelSound(A, lk, st, rem, level),
           \A o \in A : rem[o] \in Int, NEW lk2, NEW st2, NEW rem2,
           \A o \in A : lk2[o] = lk[o] /\ st2[o] = st[o] /\ rem2[o] = rem[o]
    PROVE  LevelSound(A, lk2, st2, rem2, level)
<1>1. IsFiniteSet(A) /\ Chain(A, lk, st, level) /\ level.count = Cardinality(A)
      /\ level.total = Low(4, SumFunctionOnSet(rem, A))
  BY DEF LevelSound
<1>2. SumFunctionOnSet(rem2, A) = SumFunctionOnSet(rem, A)
  BY <1>1, SumCongruence
<1>3. Chain(A, lk2, st2, level)
  BY <1>1, ChainSame
<1> QED BY <1>1, <1>2, <1>3 DEF LevelSound

\* The first node of a level.
LEMMA LevelNew ==
    ASSUME NEW o, NEW lk, NEW st, NEW rem, rem[o] \in Int, NEW level,
           lk[o].prev = None, lk[o].next = None,
           level.head = o, level.tail = o, level.count = 1, level.total = Low(4, rem[o])
    PROVE  LevelSound({o}, lk, st, rem, level)
<1>1. IsFiniteSet({o}) /\ Cardinality({o}) = 1
  BY FS_Singleton
<1>2. SumFunctionOnSet(rem, {o}) = rem[o]
  <2>1. {o} \ {o} = {}
    OBVIOUS
  <2>2. SumFunctionOnSet(rem, {o}) = rem[o] + SumFunctionOnSet(rem, {o} \ {o})
    BY <1>1, SumSplit
  <2> QED BY <2>1, <2>2, SumEmpty
<1>3. Chain({o}, lk, st, level)
  BY ChainNew
<1> QED BY <1>1, <1>2, <1>3 DEF LevelSound

\* push_back on a level that is not empty.
LEMMA LevelPush ==
    ASSUME NEW A, NEW lk, NEW st, NEW rem, NEW level, LevelSound(A, lk, st, rem, level),
           None \notin A, \A n \in A : rem[n] \in Int,
           NEW o, o \notin A, o # None, rem[o] \in Int, \A n \in A : st[n] < st[o],
           NEW lk2, lk2[o].prev = level.tail, lk2[o].next = None,
           lk2[level.tail].prev = lk[level.tail].prev, lk2[level.tail].next = o,
           \A n \in A : n # level.tail => lk2[n] = lk[n],
           NEW level2, level2.head = level.head, level2.tail = o,
           level2.count = level.count + 1,
           level2.total = Low(4, level.total + rem[o])
    PROVE  LevelSound(A \union {o}, lk2, st, rem, level2)
<1>1. IsFiniteSet(A) /\ Chain(A, lk, st, level) /\ level.count = Cardinality(A)
      /\ level.total = Low(4, SumFunctionOnSet(rem, A))
  BY DEF LevelSound
<1>2. Chain(A \union {o}, lk2, st, level2)
  BY <1>1, ChainPush
<1>3. IsFiniteSet(A \union {o}) /\ Cardinality(A \union {o}) = Cardinality(A) + 1
  BY <1>1, FS_AddElement
<1>4. level2.total = Low(4, SumFunctionOnSet(rem, A \union {o}))
  <2>1. PICK t : t = SumFunctionOnSet(rem, A)
    OBVIOUS
  <2>2. t \in Int
    BY <2>1, <1>1, SumSplit
  <2>3. SumFunctionOnSet(rem, A \union {o}) = rem[o] + t
    BY <2>1, <1>1, SumAdd
  <2>4. PICK d \in Int : d = rem[o]
    OBVIOUS
  <2>5. Low(4, Low(4, t) + d) = Low(4, t + d)
    BY <2>2, <2>4, LowFacts
  <2>6. t + d = rem[o] + t
    BY <2>2, <2>4
  <2> QED BY <2>1, <2>3, <2>4, <2>5, <2>6, <1>1
<1> QED BY <1>1, <1>2, <1>3, <1>4 DEF LevelSound

\* remove, with what the node still wanted taken off the total.
LEMMA LevelRemove ==
    ASSUME NEW A, NEW lk, NEW st, NEW rem, NEW level, LevelSound(A, lk, st, rem, level),
           None \notin A, \A n \in A : rem[n] \in Int /\ st[n] \in Nat,
           NEW o \in A, NEW lk2, LinksWithout(A, lk, o, lk2), NEW level2,
           level2.head = IF lk[o].prev = None THEN lk[o].next ELSE level.head,
           level2.tail = IF lk[o].next = None THEN lk[o].prev ELSE level.tail,
           level2.count = level.count - 1,
           level2.total = Low(4, level.total - rem[o])
    PROVE  IF level2.head = None THEN A = {o}
           ELSE LevelSound(A \ {o}, lk2, st, rem, level2)
<1>1. IsFiniteSet(A) /\ Chain(A, lk, st, level) /\ level.count = Cardinality(A)
      /\ level.total = Low(4, SumFunctionOnSet(rem, A))
  BY DEF LevelSound
<1>2. IF level2.head = None THEN A = {o} ELSE Chain(A \ {o}, lk2, st, level2)
  BY <1>1, ChainRemove
<1>3. IsFiniteSet(A \ {o}) /\ Cardinality(A \ {o}) = Cardinality(A) - 1
  BY <1>1, FS_RemoveElement
<1>4. level2.total = Low(4, SumFunctionOnSet(rem, A \ {o}))
  <2>1. PICK t : t = SumFunctionOnSet(rem, A)
    OBVIOUS
  <2>2. t \in Int /\ SumFunctionOnSet(rem, A \ {o}) \in Int
        /\ t = rem[o] + SumFunctionOnSet(rem, A \ {o})
    BY <2>1, <1>1, SumSplit
  <2>3. PICK d \in Int : d = -rem[o]
    OBVIOUS
  <2>4. Low(4, Low(4, t) + d) = Low(4, t + d) /\ Low(4, t) \in Nat
    BY <2>2, <2>3, LowFacts
  <2>5. t + d = SumFunctionOnSet(rem, A \ {o}) /\ Low(4, t) + d = Low(4, t) - rem[o]
    BY <2>2, <2>3, <2>4
  <2> QED BY <2>1, <2>4, <2>5, <1>1
<1> QED BY <1>1, <1>2, <1>3, <1>4 DEF LevelSound

\* A partial fill of one node.
LEMMA LevelFill ==
    ASSUME NEW A, NEW lk, NEW st, NEW rem, NEW level, LevelSound(A, lk, st, rem, level),
           \A n \in A : rem[n] \in Int,
           NEW o \in A, NEW qty \in Int, NEW rem2, rem2[o] = rem[o] - qty,
           \A n \in A \ {o} : rem2[n] = rem[n],
           NEW level2, level2.head = level.head, level2.tail = level.tail,
           level2.count = level.count, level2.total = Low(4, level.total - qty)
    PROVE  LevelSound(A, lk, st, rem2, level2)
<1>1. IsFiniteSet(A) /\ Chain(A, lk, st, level) /\ level.count = Cardinality(A)
      /\ level.total = Low(4, SumFunctionOnSet(rem, A))
  BY DEF LevelSound
<1>2. Chain(A, lk, st, level2)
  BY <1>1, ChainSame
<1>3. level2.total = Low(4, SumFunctionOnSet(rem2, A))
  <2>1. PICK t : t = SumFunctionOnSet(rem, A)
    OBVIOUS
  <2>2. t \in Int
    BY <2>1, <1>1, SumSplit
  <2>3. SumFunctionOnSet(rem2, A) = t - rem[o] + rem2[o]
    BY <2>1, <1>1, SumUpdate
  <2>4. PICK d \in Int : d = -qty
    OBVIOUS
  <2>5. Low(4, Low(4, t) + d) = Low(4, t + d) /\ Low(4, t) \in Nat
    BY <2>2, <2>4, LowFacts
  <2>6. t + d = SumFunctionOnSet(rem2, A) /\ Low(4, t) + d = Low(4, t) - qty
    BY <2>2, <2>3, <2>4, <2>5
  <2> QED BY <2>1, <2>5, <2>6, <1>1
<1> QED BY <1>1, <1>2, <1>3 DEF LevelSound

-----------------------------------------------------------------------------
(* The lists of a book.                                                    *)

\* The sides of the book are finite maps of levels.
Level == [total: Int, count: Int, head: OrderId \union {None}, tail: OrderId \union {None}]

Levels == UNION {[P -> Level] : P \in {Q \in SUBSET Price : IsFiniteSet(Q)}}

Links == [prev: OrderId \union {None}, next: OrderId \union {None}]

\* The orders that a cancel map cm places at price p of side s.
Placed(cm, s, p) == {o \in OrderId : cm[o] = <<s, p>>}

\* No node outside the lists is linked, and every level is sound.
Lists(bk, cm, lk, st, rem) ==
    /\ \A o \in OrderId :
         IF cm[o] = None THEN lk[o] = Unlinked ELSE cm[o][2] \in DOMAIN bk[cm[o][1]]
    /\ \A s \in Side : \A p \in DOMAIN bk[s] :
         LevelSound(Placed(cm, s, p), lk, st, rem, bk[s][p])

ListTypes(bk, cm, lk, st, rem) ==
    /\ bk \in [Side -> Levels]
    /\ cm \in [OrderId -> (Side \X Price) \union {None}]
    /\ lk \in [OrderId -> Links]
    /\ st \in [OrderId -> Nat]
    /\ \A o \in OrderId : cm[o] # None => rem[o] \in Int

\* What a map of levels is.
LEMMA LevelsFacts ==
    ASSUME NEW m \in Levels
    PROVE  /\ DOMAIN m \subseteq Price /\ IsFiniteSet(DOMAIN m)
           /\ \A p \in DOMAIN m : m[p] \in Level
           /\ \A p \in Price, level \in Level : WithLevel(m, p, level) \in Levels
           /\ \A p \in Price, level \in Level : StoreLevel(m, p, level) \in Levels
<1>1. PICK P \in SUBSET Price : IsFiniteSet(P) /\ m \in [P -> Level]
  BY DEF Levels
<1>2. ASSUME NEW p \in Price, NEW level \in Level
      PROVE  WithLevel(m, p, level) \in Levels
  <2>1. IsFiniteSet(P \union {p}) /\ P \union {p} \in SUBSET Price
    BY <1>1, FS_AddElement
  <2>2. WithLevel(m, p, level) \in [P \union {p} -> Level]
    BY <1>1 DEF WithLevel
  <2> QED BY <2>1, <2>2 DEF Levels
<1>3. ASSUME NEW p \in Price, NEW level \in Level
      PROVE  StoreLevel(m, p, level) \in Levels
  <2>1. IsFiniteSet(P \ {p}) /\ P \ {p} \in SUBSET Price
    BY <1>1, FS_RemoveElement
  <2>2. Restrict(m, DOMAIN m \ {p}) \in [P \ {p} -> Level]
    BY <1>1 DEF Restrict
  <2> QED BY <2>1, <2>2, <1>2 DEF Levels, StoreLevel
<1> QED BY <1>1, <1>2, <1>3

\* An order that is placed somewhere has an entry in the map, and only one.
LEMMA PlacedFacts ==
    ASSUME NEW cm, NEW s \in Side, NEW p \in Price
    PROVE  /\ <<s, p>> # None
           /\ None \notin Placed(cm, s, p)
           /\ \A o \in Placed(cm, s, p) : o \in OrderId /\ cm[o] = <<s, p>> /\ cm[o] # None
<1>1. <<s, p>> \in Side \X Price
  OBVIOUS
<1>2. PICK c \in Side \X Price : c = <<s, p>>
  BY <1>1
<1>3. c # None
  BY NoneAssumption
<1>4. None \notin OrderId
  BY NoneAssumption
<1> QED BY <1>2, <1>3, <1>4 DEF Placed

\* The lists depend on the orders in them only.
LEMMA ListsSame ==
    ASSUME NEW bk, NEW cm, NEW lk, NEW st, NEW rem, ListTypes(bk, cm, lk, st, rem),
           Lists(bk, cm, lk, st, rem), NEW st2, NEW rem2,
           \A o \in OrderId : cm[o] # None => st2[o] = st[o] /\ rem2[o] = rem[o]
    PROVE  Lists(bk, cm, lk, st2, rem2)
<1>1. ASSUME NEW s \in Side, NEW p \in DOMAIN bk[s]
      PROVE  LevelSound(Placed(cm, s, p), lk, st2, rem2, bk[s][p])
  <2>1. PICK A : A = Placed(cm, s, p)
    OBVIOUS
  <2>2. LevelSound(A, lk, st, rem, bk[s][p])
    BY <2>1 DEF Lists
  <2>3. p \in Price
    BY LevelsFacts DEF ListTypes
  <2>4. \A o \in A : o \in OrderId /\ cm[o] # None
    BY <2>1, <2>3, PlacedFacts
  <2>5. \A o \in A : rem[o] \in Int /\ st2[o] = st[o] /\ rem2[o] = rem[o]
    BY <2>4 DEF ListTypes
  <2> QED BY <2>1, <2>2, <2>5, LevelSame
<1> QED BY <1>1 DEF Lists

\* The links and the level that remove of o makes of links lk and level old.
LinkRemoved(lk, o, lk2) ==
    /\ lk2[o] = Unlinked
    /\ LinksWithout(OrderId, lk, o, lk2)
    /\ \A n \in OrderId : n # o /\ n # lk[o].prev /\ n # lk[o].next => lk2[n] = lk[n]

LevelRemoved(lk, old, o, remaining, level) ==
    /\ level.head = IF lk[o].prev = None THEN lk[o].next ELSE old.head
    /\ level.tail = IF lk[o].next = None THEN lk[o].prev ELSE old.tail
    /\ level.count = old.count - 1
    /\ level.total = Low(4, old.total - remaining)

\* The level that a fill of qty makes of level old.
LevelFilled(old, qty, level) ==
    /\ level.head = old.head /\ level.tail = old.tail
    /\ level.count = old.count /\ level.total = Low(4, old.total - qty)

\* Of the resting orders, only o may want something else than before.
OthersWant(cm, o, rem, rem2) ==
    \A n \in OrderId : n # o /\ cm[n] # None => rem2[n] = rem[n]

\* It wants qty less.
WantsLess(cm, o, qty, rem, rem2) == rem2[o] = rem[o] - qty /\ OthersWant(cm, o, rem, rem2)

\* remove(o) takes o out of its level, which goes when nothing is left of it.
LEMMA ListsRemove ==
    ASSUME NEW bk, NEW cm, NEW lk, NEW st, NEW rem, ListTypes(bk, cm, lk, st, rem),
           Lists(bk, cm, lk, st, rem),
           NEW o \in OrderId, NEW s \in Side, NEW p \in DOMAIN bk[s], cm[o] = <<s, p>>,
           NEW lk2, LinkRemoved(lk, o, lk2),
           NEW level, LevelRemoved(lk, bk[s][p], o, rem[o], level),
           NEW bk2, bk2 = [bk EXCEPT ![s] = StoreLevel(bk[s], p, level)],
           NEW cm2, cm2 = [cm EXCEPT ![o] = None],
           NEW rem2, OthersWant(cm, o, rem, rem2)
    PROVE  Lists(bk2, cm2, lk2, st, rem2)
<1> USE DEF LinkRemoved, LevelRemoved, OthersWant
<1>1. p \in Price /\ DOMAIN bk = Side
  BY LevelsFacts DEF ListTypes
<1>2. PICK A : A = Placed(cm, s, p)
  OBVIOUS
<1>3. LevelSound(A, lk, st, rem, bk[s][p])
  BY <1>2 DEF Lists
<1>4. None \notin A /\ o \in A /\ \A n \in A : n \in OrderId /\ cm[n] = <<s, p>> /\ cm[n] # None
  BY <1>1, <1>2, PlacedFacts DEF Placed
<1>5. \A n \in A : rem[n] \in Int /\ st[n] \in Nat
  BY <1>4 DEF ListTypes
<1>6. LinksWithout(A, lk, o, lk2)
  BY <1>4 DEF LinksWithout
<1>7. IF level.head = None THEN A = {o} ELSE LevelSound(A \ {o}, lk2, st, rem, level)
  BY <1>3, <1>4, <1>5, <1>6, LevelRemove
<1>8. /\ lk[o].prev # None => lk[o].prev \in A
      /\ lk[o].next # None => lk[o].next \in A
  BY <1>3, <1>4 DEF LevelSound, Chain
<1>9. \A n \in OrderId : n \notin A => lk2[n] = lk[n]
  BY <1>4, <1>8, NoneAssumption
<1>10. \A n \in OrderId : cm2[n] = IF n = o THEN None ELSE cm[n]
  BY DEF ListTypes
<1>11. \A t \in Side : t # s => bk2[t] = bk[t]
  BY <1>1
<1>12. bk2[s] = StoreLevel(bk[s], p, level)
  BY <1>1
<1>13. \A q \in DOMAIN bk[s] : q # p => q \in DOMAIN bk2[s] /\ bk2[s][q] = bk[s][q]
  BY <1>12 DEF StoreLevel, Restrict, WithLevel
<1>14. level.head = None => DOMAIN bk2[s] = DOMAIN bk[s] \ {p}
  BY <1>12 DEF StoreLevel, Restrict
<1>15. ASSUME level.head # None PROVE DOMAIN bk2[s] = DOMAIN bk[s] /\ bk2[s][p] = level
  <2>1. bk2[s] = WithLevel(bk[s], p, level)
    BY <1>12, <1>15 DEF StoreLevel
  <2>2. DOMAIN bk[s] \union {p} = DOMAIN bk[s]
    OBVIOUS
  <2> QED BY <2>1, <2>2 DEF WithLevel
<1>16. ASSUME NEW t \in Side, NEW q \in DOMAIN bk2[t]
       PROVE  LevelSound(Placed(cm2, t, q), lk2, st, rem2, bk2[t][q])
  <2>1. CASE t = s /\ q = p
    <3>1. level.head # None /\ bk2[t][q] = level
      BY <2>1, <1>14, <1>15
    <3>2. Placed(cm2, t, q) = A \ {o}
      BY <2>1, <1>2, <1>10, <1>1, PlacedFacts DEF Placed
    <3>3. LevelSound(A \ {o}, lk2, st, rem, level)
      BY <3>1, <1>7
    <3>4. \A n \in A \ {o} : rem2[n] = rem[n] /\ rem[n] \in Int
      BY <1>4, <1>5
    <3>5. LevelSound(A \ {o}, lk2, st, rem2, level)
      BY <3>3, <3>4, LevelSame
    <3> QED BY <3>1, <3>2, <3>5
  <2>2. CASE ~(t = s /\ q = p)
    <3>1. q \in DOMAIN bk[t] /\ bk2[t][q] = bk[t][q]
      BY <2>2, <1>11, <1>13, <1>14, <1>15
    <3>2. q \in Price
      BY <3>1, LevelsFacts DEF ListTypes
    <3>3. PICK B : B = Placed(cm, t, q)
      OBVIOUS
    <3>4. LevelSound(B, lk, st, rem, bk[t][q])
      BY <3>1, <3>3 DEF Lists
    <3>5. \A n \in B : n \in OrderId /\ cm[n] = <<t, q>> /\ cm[n] # None
      BY <3>2, <3>3, PlacedFacts
    <3>6. \A n \in B : n \notin A
      BY <3>5, <1>4, <2>2
    <3>7. o \notin B
      BY <3>6, <1>4
    <3>8. Placed(cm2, t, q) = B
      BY <3>2, <3>3, <3>7, <1>10, PlacedFacts DEF Placed
    <3>9. \A n \in B : rem[n] \in Int /\ lk2[n] = lk[n] /\ st[n] = st[n] /\ rem2[n] = rem[n]
      BY <3>5, <3>6, <3>7, <1>9 DEF ListTypes
    <3>10. LevelSound(B, lk2, st, rem2, bk[t][q])
      BY <3>4, <3>9, LevelSame
    <3> QED BY <3>1, <3>8, <3>10
  <2> QED BY <2>1, <2>2
<1>17. ASSUME NEW n \in OrderId
       PROVE  IF cm2[n] = None THEN lk2[n] = Unlinked ELSE cm2[n][2] \in DOMAIN bk2[cm2[n][1]]
  <2>1. CASE n = o
    BY <2>1, <1>10
  <2>2. CASE n # o /\ cm[n] = None
    <3>1. n \notin A
      BY <2>2, <1>4
    <3> QED BY <3>1, <2>2, <1>9, <1>10 DEF Lists
  <2>3. CASE n # o /\ cm[n] # None
    <3>1. PICK t \in Side, q \in Price : cm[n] = <<t, q>>
      BY <2>3 DEF ListTypes
    <3>2. q \in DOMAIN bk[t]
      <4>1. cm[n][1] = t /\ cm[n][2] = q
        BY <3>1
      <4>2. cm[n][2] \in DOMAIN bk[cm[n][1]]
        BY <2>3 DEF Lists
      <4> QED BY <4>1, <4>2
    <3>3. CASE t = s /\ q = p
      <4>1. n \in A
        BY <3>1, <3>3, <1>2 DEF Placed
      <4>2. level.head # None
        BY <4>1, <2>3, <1>7
      <4> QED BY <4>2, <3>1, <3>3, <2>3, <1>10, <1>15
    <3>4. CASE ~(t = s /\ q = p)
      <4>1. q \in DOMAIN bk2[t]
        BY <3>2, <3>4, <1>11, <1>13
      <4>2. cm2[n] = cm[n] /\ cm[n][1] = t /\ cm[n][2] = q
        BY <3>1, <2>3, <1>10
      <4> QED BY <4>1, <4>2, <2>3
    <3> QED BY <3>3, <3>4
  <2> QED BY <2>1, <2>2, <2>3
<1> QED BY <1>16, <1>17 DEF Lists

\* A partial fill of o in its level.
LEMMA ListsFill ==
    ASSUME NEW bk, NEW cm, NEW lk, NEW st, NEW rem, ListTypes(bk, cm, lk, st, rem),
           Lists(bk, cm, lk, st, rem),
           NEW o \in OrderId, NEW s \in Side, NEW p \in DOMAIN bk[s], cm[o] = <<s, p>>,
           NEW qty \in Int, NEW level, LevelFilled(bk[s][p], qty, level),
           NEW bk2, bk2 = [bk EXCEPT ![s] = WithLevel(bk[s], p, level)],
           NEW rem2, WantsLess(cm, o, qty, rem, rem2)
    PROVE  Lists(bk2, cm, lk, st, rem2)
<1> USE DEF LevelFilled, OthersWant, WantsLess
<1>1. p \in Price /\ DOMAIN bk = Side
  BY LevelsFacts DEF ListTypes
<1>2. /\ \A t \in Side : DOMAIN bk2[t] = DOMAIN bk[t]
      /\ \A t \in Side : \A q \in DOMAIN bk[t] : ~(t = s /\ q = p) => bk2[t][q] = bk[t][q]
      /\ bk2[s][p] = level
  BY <1>1 DEF WithLevel
<1>3. ASSUME NEW t \in Side, NEW q \in DOMAIN bk2[t]
      PROVE  LevelSound(Placed(cm, t, q), lk, st, rem2, bk2[t][q])
  <2>1. q \in DOMAIN bk[t]
    BY <1>2
  <2>2. q \in Price
    BY <2>1, LevelsFacts DEF ListTypes
  <2>3. PICK B : B = Placed(cm, t, q)
    OBVIOUS
  <2>4. LevelSound(B, lk, st, rem, bk[t][q])
    BY <2>1, <2>3 DEF Lists
  <2>5. \A n \in B : n \in OrderId /\ cm[n] = <<t, q>> /\ cm[n] # None
    BY <2>2, <2>3, PlacedFacts
  <2>6. \A n \in B : rem[n] \in Int
    BY <2>5 DEF ListTypes
  <2>7. CASE t = s /\ q = p
    <3>1. o \in B
      BY <2>3, <2>7 DEF Placed
    <3>2. \A n \in B \ {o} : rem2[n] = rem[n]
      BY <2>5
    <3>3. LevelSound(B, lk, st, rem2, level)
      BY <3>1, <3>2, <2>4, <2>6, <2>7, LevelFill
    <3> QED BY <3>3, <2>3, <2>7, <1>2
  <2>8. CASE ~(t = s /\ q = p)
    <3>1. \A n \in B : n # o
      BY <2>5, <2>8
    <3>2. \A n \in B : lk[n] = lk[n] /\ st[n] = st[n] /\ rem2[n] = rem[n]
      BY <3>1, <2>5
    <3>3. LevelSound(B, lk, st, rem2, bk[t][q])
      BY <3>2, <2>4, <2>6, LevelSame
    <3> QED BY <3>3, <2>1, <2>3, <2>8, <1>2
  <2> QED BY <2>7, <2>8
<1>4. ASSUME NEW n \in OrderId
      PROVE  IF cm[n] = None THEN lk[n] = Unlinked ELSE cm[n][2] \in DOMAIN bk2[cm[n][1]]
  <2>1. CASE cm[n] = None
    BY <2>1 DEF Lists
  <2>2. CASE cm[n] # None
    <3>1. PICK t \in Side, q \in Price : cm[n] = <<t, q>>
      BY <2>2 DEF ListTypes
    <3>2. cm[n][1] = t /\ cm[n][2] = q
      BY <3>1
    <3>3. cm[n][2] \in DOMAIN bk[cm[n][1]]
      BY <2>2 DEF Lists
    <3> QED BY <3>2, <3>3, <2>2, <1>2
  <2> QED BY <2>1, <2>2
<1> QED BY <1>3, <1>4 DEF Lists

\* o arrived after all others.
Latest(st, o) == \A n \in OrderId : n # o => st[n] < st[o]

\* The links and the level that push_back of o makes of links lk and level old.
LinkPushed(lk, old, o, lk2) ==
    /\ lk2[o].prev = old.tail /\ lk2[o].next = None
    /\ old.tail # None => lk2[old.tail].prev = lk[old.tail].prev /\ lk2[old.tail].next = o
    /\ \A n \in OrderId : n # o /\ n # old.tail => lk2[n] = lk[n]

LevelPushed(old, o, remaining, level) ==
    /\ level.head = IF old.tail = None THEN o ELSE old.head
    /\ level.tail = o /\ level.count = old.count + 1
    /\ level.total = Low(4, old.total + remaining)

\* rest_order puts o, the last to arrive, at the end of its level, or in a new one.
LEMMA ListsRest ==
    ASSUME NEW bk, NEW cm, NEW lk, NEW st, NEW rem, ListTypes(bk, cm, lk, st, rem),
           Lists(bk, cm, lk, st, rem),
           NEW o \in OrderId, cm[o] = None, rem[o] \in Int, Latest(st, o),
           NEW s \in Side, NEW p \in Price,
           NEW old, old = IF p \in DOMAIN bk[s] THEN bk[s][p] ELSE EmptyLevel,
           NEW lk2, LinkPushed(lk, old, o, lk2),
           NEW level, LevelPushed(old, o, rem[o], level),
           NEW bk2, bk2 = [bk EXCEPT ![s] = WithLevel(bk[s], p, level)],
           NEW cm2, cm2 = [cm EXCEPT ![o] = <<s, p>>]
    PROVE  Lists(bk2, cm2, lk2, st, rem)
<1> USE DEF Latest, LinkPushed, LevelPushed
<1>1. DOMAIN bk = Side
  BY DEF ListTypes
<1>2. PICK A : A = Placed(cm, s, p)
  OBVIOUS
<1>3. None \notin A /\ <<s, p>> # None
      /\ \A n \in A : n \in OrderId /\ cm[n] = <<s, p>> /\ cm[n] # None
  BY <1>2, PlacedFacts
<1>4. o \notin A /\ o # None
  BY <1>3, NoneAssumption
<1>5. \A n \in OrderId : cm2[n] = IF n = o THEN <<s, p>> ELSE cm[n]
  BY DEF ListTypes
<1>6. Placed(cm2, s, p) = A \union {o}
  BY <1>2, <1>5 DEF Placed
<1>7. /\ \A t \in Side : t # s => bk2[t] = bk[t]
      /\ bk2[s] = WithLevel(bk[s], p, level)
  BY <1>1
<1>8. /\ DOMAIN bk2[s] = DOMAIN bk[s] \union {p}
      /\ bk2[s][p] = level
      /\ \A q \in DOMAIN bk[s] : q # p => bk2[s][q] = bk[s][q]
  BY <1>7 DEF WithLevel
<1>9. ASSUME p \in DOMAIN bk[s]
      PROVE  /\ LevelSound(A \union {o}, lk2, st, rem, level)
             /\ \A n \in OrderId : n \notin A \union {o} => lk2[n] = lk[n]
  <2>1. old = bk[s][p] /\ LevelSound(A, lk, st, rem, old)
    BY <1>2, <1>9 DEF Lists
  <2>2. old.tail \in A /\ old.head \in A
    BY <2>1 DEF LevelSound, Chain
  <2>3. old.tail # None
    BY <2>2, <1>3
  <2>4. \A n \in A : rem[n] \in Int
    BY <1>3 DEF ListTypes
  <2>5. \A n \in A : st[n] < st[o]
    BY <1>3, <1>4
  <2>6. \A n \in A : n # old.tail => lk2[n] = lk[n]
    BY <1>3, <1>4
  <2>7. level.head = old.head
    BY <2>3
  <2>8. lk2[old.tail].prev = lk[old.tail].prev /\ lk2[old.tail].next = o
    BY <2>3
  <2>9. LevelSound(A \union {o}, lk2, st, rem, level)
    <3>1. /\ level.tail = o /\ level.count = old.count + 1
          /\ level.total = Low(4, old.total + rem[o])
      OBVIOUS
    <3>2. lk2[o].prev = old.tail /\ lk2[o].next = None /\ rem[o] \in Int
      OBVIOUS
    <3>3. LevelSound(A, lk, st, rem, old) /\ None \notin A /\ o \notin A /\ o # None
      BY <2>1, <1>3, <1>4
    <3> QED BY ONLY <3>1, <3>2, <3>3, <2>4, <2>5, <2>6, <2>7, <2>8, LevelPush
  <2>10. \A n \in OrderId : n \notin A \union {o} => lk2[n] = lk[n]
    BY <2>2
  <2> QED BY <2>9, <2>10
<1>10. ASSUME p \notin DOMAIN bk[s]
       PROVE  /\ LevelSound(A \union {o}, lk2, st, rem, level)
              /\ \A n \in OrderId : n \notin A \union {o} => lk2[n] = lk[n]
  <2>1. old.tail = None /\ old.count = 0 /\ old.total = 0
    BY <1>10 DEF EmptyLevel
  <2>2. A = {}
    <3>1. ASSUME NEW n \in A PROVE FALSE
      <4>1. n \in OrderId /\ cm[n][1] = s /\ cm[n][2] = p /\ cm[n] # None
        BY <3>1, <1>3
      <4>2. cm[n][2] \in DOMAIN bk[cm[n][1]]
        BY <4>1 DEF Lists
      <4> QED BY <4>1, <4>2, <1>10
    <3> QED BY <3>1
  <2>3. level.count = 1 /\ level.total = Low(4, rem[o])
    BY <2>1
  <2>4. lk2[o].prev = None /\ lk2[o].next = None /\ level.head = o
    BY <2>1
  <2>5. LevelSound({o}, lk2, st, rem, level)
    BY <2>3, <2>4, LevelNew
  <2>6. A \union {o} = {o}
    BY <2>2
  <2>7. \A n \in OrderId : n \notin A \union {o} => lk2[n] = lk[n]
    BY <2>1, NoneAssumption
  <2> QED BY <2>5, <2>6, <2>7
<1>11. /\ LevelSound(A \union {o}, lk2, st, rem, level)
       /\ \A n \in OrderId : n \notin A \union {o} => lk2[n] = lk[n]
  BY <1>9, <1>10
<1>12. ASSUME NEW t \in Side, NEW q \in DOMAIN bk2[t]
       PROVE  LevelSound(Placed(cm2, t, q), lk2, st, rem, bk2[t][q])
  <2>1. CASE t = s /\ q = p
    BY <2>1, <1>6, <1>8, <1>11
  <2>2. CASE ~(t = s /\ q = p)
    <3>1. q \in DOMAIN bk[t] /\ bk2[t][q] = bk[t][q]
      BY <2>2, <1>7, <1>8
    <3>2. q \in Price
      BY <3>1, LevelsFacts DEF ListTypes
    <3>3. PICK B : B = Placed(cm, t, q)
      OBVIOUS
    <3>4. LevelSound(B, lk, st, rem, bk[t][q])
      BY <3>1, <3>3 DEF Lists
    <3>5. \A n \in B : n \in OrderId /\ cm[n] = <<t, q>> /\ cm[n] # None
      BY <3>2, <3>3, PlacedFacts
    <3>6. \A n \in B : n \notin A \union {o}
      BY <3>5, <1>3, <2>2
    <3>7. Placed(cm2, t, q) = B
      <4>1. cm2[o] # <<t, q>> /\ cm[o] # <<t, q>>
        BY <3>2, <2>2, <1>5, PlacedFacts
      <4> QED BY <4>1, <3>3, <1>5 DEF Placed
    <3>8. \A n \in B : rem[n] \in Int /\ lk2[n] = lk[n] /\ st[n] = st[n] /\ rem[n] = rem[n]
      BY <3>5, <3>6, <1>11 DEF ListTypes
    <3>9. LevelSound(B, lk2, st, rem, bk[t][q])
      BY <3>4, <3>8, LevelSame
    <3> QED BY <3>1, <3>7, <3>9
  <2> QED BY <2>1, <2>2
<1>13. ASSUME NEW n \in OrderId
       PROVE  IF cm2[n] = None THEN lk2[n] = Unlinked ELSE cm2[n][2] \in DOMAIN bk2[cm2[n][1]]
  <2>1. CASE n = o
    <3>1. cm2[n] = <<s, p>> /\ cm2[n] # None
      BY <2>1, <1>3, <1>5
    <3>2. cm2[n][1] = s /\ cm2[n][2] = p
      BY <3>1
    <3> QED BY <3>1, <3>2, <1>8
  <2>2. CASE n # o /\ cm[n] = None
    <3>1. n \notin A \union {o}
      BY <2>2, <1>3
    <3> QED BY <3>1, <2>2, <1>5, <1>11 DEF Lists
  <2>3. CASE n # o /\ cm[n] # None
    <3>1. PICK t \in Side, q \in Price : cm[n] = <<t, q>>
      BY <2>3 DEF ListTypes
    <3>2. cm[n][1] = t /\ cm[n][2] = q /\ cm2[n] = cm[n]
      BY <3>1, <2>3, <1>5
    <3>3. cm[n][2] \in DOMAIN bk[cm[n][1]]
      BY <2>3 DEF Lists
    <3>4. q \in DOMAIN bk2[t]
      BY <3>2, <3>3, <1>7, <1>8
    <3> QED BY <3>2, <3>4, <2>3
  <2> QED BY <2>1, <2>2, <2>3
<1> QED BY <1>12, <1>13 DEF Lists

-----------------------------------------------------------------------------
(* The invariant of the book.                                              *)

Trade == [maker: OrderId, taker: OrderId, price: Price \union {0}, quantity: Nat]

BookTypes ==
    /\ req \in [OrderId -> Request \union {None}]
    /\ filled \in [OrderId -> Nat]
    /\ status \in [OrderId -> DOMAIN STATUS_TO_WIRE]
    /\ link \in [OrderId -> Links]
    /\ book \in [Side -> Levels]
    /\ cancel_map \in [OrderId -> (Side \X Price) \union {None}]
    /\ stamp \in [OrderId -> Nat]
    /\ sequence \in Nat
    /\ taker \in OrderId \union {None}
    /\ trades \in Seq(Trade)

\* Resting orders want something and are not being matched; limit orders have a
\* price; nothing is overfilled; the order being matched came last.
OrdersSound ==
    /\ \A o \in OrderId : cancel_map[o] # None =>
         req[o] # None /\ filled[o] < req[o].quantity /\ o # taker
    /\ \A o \in OrderId : req[o] # None /\ req[o].order_type = "LIMIT" => req[o].price \in Price
    /\ \A o \in OrderId : req[o] # None => filled[o] <= req[o].quantity
    /\ \A o \in OrderId : stamp[o] <= sequence
    /\ taker # None => /\ req[taker] # None
                       /\ \A o \in OrderId : o # taker => stamp[o] < stamp[taker]

Rem == [o \in OrderId |-> Remaining(o)]

ListInv == Lists(book, cancel_map, link, stamp, Rem)

BookInv == BookTypes /\ OrdersSound /\ ListInv

\* The statuses a book gives.
LEMMA StatusFacts ==
    {"PENDING", "OPEN", "PARTIALLY_FILLED", "FILLED", "CANCELLED"} \subseteq DOMAIN STATUS_TO_WIRE
BY DEF STATUS_TO_WIRE

\* The quantity of a node is a number, and the fields of a node are typed.
LEMMA RequestFacts ==
    ASSUME BookTypes, NEW o \in OrderId, req[o] # None
    PROVE  /\ req[o] \in Request
           /\ req[o].quantity \in Nat /\ filled[o] \in Nat
           /\ Remaining(o) \in Int
           /\ Remaining(o) = req[o].quantity - filled[o]
           /\ req[o].side \in Side /\ Opposite(req[o].side) \in Side
           /\ req[o].price \in Price \union {0}
<1>1. req[o] \in Request
  BY DEF BookTypes
<1>2. Span[4] \in Nat
  BY SpanAssumption
<1>3. req[o].quantity \in Nat /\ req[o].side \in Side /\ req[o].price \in Price \union {0}
  BY <1>1, <1>2 DEF Request
<1>4. filled[o] \in Nat
  BY DEF BookTypes
<1>5. Remaining(o) = req[o].quantity - filled[o]
  BY DEF Remaining
<1>6. Opposite(req[o].side) \in Side
  BY <1>3 DEF Opposite, Side
<1> QED BY <1>1, <1>3, <1>4, <1>5, <1>6

\* The lists have the types their lemmas ask for.
LEMMA InvListTypes ==
    ASSUME BookTypes, OrdersSound
    PROVE  ListTypes(book, cancel_map, link, stamp, Rem)
<1>1. ASSUME NEW o \in OrderId, cancel_map[o] # None PROVE Rem[o] \in Int
  <2>1. req[o] # None
    BY <1>1 DEF OrdersSound
  <2> QED BY <2>1, RequestFacts DEF Rem
<1> QED BY <1>1 DEF ListTypes, BookTypes

\* Links, unpacked.
LEMMA LinkFacts ==
    ASSUME NEW x \in OrderId \union {None}, NEW y \in OrderId \union {None}
    PROVE  [prev |-> x, next |-> y] \in Links
BY DEF Links

\* A finite set of numbers that is not empty has a greatest element.
LEMMA GreatestNumber ==
    ASSUME NEW S \in SUBSET Nat, IsFiniteSet(S), S # {}
    PROVE  \E n \in S : \A m \in S : n >= m
<1> DEFINE Good == {T \in SUBSET S : T = {} \/ \E n \in T : \A m \in T : n >= m}
<1>1. {} \in Good
  OBVIOUS
<1>2. ASSUME NEW T \in SUBSET S, NEW x \in T, T \ {x} \in Good
      PROVE  T \in Good
  <2>1. CASE T \ {x} = {}
    BY <2>1
  <2>2. CASE T \ {x} # {}
    <3>1. PICK n \in T \ {x} : \A m \in T \ {x} : n >= m
      BY <2>2, <1>2
    <3>2. CASE n >= x
      BY <3>1, <3>2
    <3>3. CASE ~(n >= x)
      BY <3>1, <3>3
    <3> QED BY <3>2, <3>3
  <2> QED BY <2>1, <2>2
<1>3. S \in SUBSET S
  OBVIOUS
<1>4. \A T \in SUBSET S : T \in Good
  <2> HIDE DEF Good
  <2> QED BY <1>1, <1>2, SubsetInduction
<1> QED BY <1>3, <1>4

\* A side that is not empty has a best price.
LEMMA BestFacts ==
    ASSUME BookTypes, NEW s \in Side, DOMAIN book[s] # {}
    PROVE  /\ Best(s) \in DOMAIN book[s]
           /\ \A q \in DOMAIN book[s] : IF s = "BUY" THEN Best(s) >= q ELSE Best(s) <= q
<1>1. PICK D : D = DOMAIN book[s]
  OBVIOUS
<1>2. book[s] \in Levels
  BY DEF BookTypes
<1>3. D \in SUBSET Nat /\ IsFiniteSet(D) /\ D # {}
  BY <1>1, <1>2, LevelsFacts, PriceAssumption
<1>4. \E p \in D : \A q \in D : IF s = "BUY" THEN p >= q ELSE p <= q
  <2>1. CASE s = "BUY"
    BY <2>1, <1>3, GreatestNumber
  <2>2. CASE s # "BUY"
    BY <2>2, <1>3, LeastNumber
  <2> QED BY <2>1, <2>2
<1> QED BY <1>1, <1>4 DEF Best

\* What the orders want, before and after a step.
LEMMA RemFacts ==
    /\ \A o \in OrderId : Rem[o] = req[o].quantity - filled[o]
    /\ \A o \in OrderId : Rem'[o] = req'[o].quantity - filled'[o]
BY DEF Rem, Remaining

\* A new order is in no list.
LEMMA SubmitKeeps ==
    ASSUME BookInv, NEW o \in OrderId, NEW r \in Request, req[o] = None,
           r.order_type = "LIMIT" => r.price \in Price, Submit(o, r)
    PROVE  BookInv'
<1>1. BookTypes /\ OrdersSound /\ ListInv
  BY DEF BookInv
<1>2. \A n \in OrderId : n # o => /\ req'[n] = req[n] /\ filled'[n] = filled[n]
                                  /\ stamp'[n] = stamp[n]
  BY <1>1 DEF Submit, BookTypes
<1>3. req'[o] = r /\ filled'[o] = 0 /\ stamp'[o] = sequence + 1
  BY <1>1 DEF Submit, BookTypes
<1>4. cancel_map' = cancel_map /\ link' = link /\ book' = book /\ trades' = trades
      /\ sequence' = sequence + 1 /\ taker' = o /\ taker = None
  BY DEF Submit
<1>5. BookTypes'
  <2>1. req' \in [OrderId -> Request \union {None}] /\ filled' \in [OrderId -> Nat]
    BY <1>1 DEF Submit, BookTypes
  <2>2. status' \in [OrderId -> DOMAIN STATUS_TO_WIRE]
    BY <1>1, StatusFacts DEF Submit, BookTypes
  <2>3. stamp' \in [OrderId -> Nat] /\ sequence' \in Nat
    BY <1>1 DEF Submit, BookTypes
  <2> QED BY <2>1, <2>2, <2>3, <1>1, <1>4 DEF BookTypes
<1>6. cancel_map[o] = None
  BY <1>1 DEF OrdersSound
<1>7. r.quantity \in Nat
  <2>1. Span[4] \in Nat
    BY SpanAssumption
  <2> QED BY <2>1 DEF Request
<1>8. r # None /\ o # None
  BY NoneAssumption
<1>9. OrdersSound'
  <2>1. ASSUME NEW n \in OrderId, cancel_map'[n] # None
        PROVE  req'[n] # None /\ filled'[n] < req'[n].quantity /\ n # taker'
    BY <2>1, <1>1, <1>2, <1>4, <1>6 DEF OrdersSound
  <2>2. ASSUME NEW n \in OrderId, req'[n] # None, req'[n].order_type = "LIMIT"
        PROVE  req'[n].price \in Price
    BY <2>2, <1>1, <1>2, <1>3 DEF OrdersSound
  <2>3. ASSUME NEW n \in OrderId, req'[n] # None
        PROVE  filled'[n] <= req'[n].quantity
    BY <2>3, <1>1, <1>2, <1>3, <1>7 DEF OrdersSound
  <2>4. \A n \in OrderId : stamp[n] \in Nat /\ sequence \in Nat /\ stamp[n] <= sequence
    BY <1>1 DEF OrdersSound, BookTypes
  <2>5. ASSUME NEW n \in OrderId
        PROVE  stamp'[n] <= sequence' /\ (n # o => stamp'[n] < stamp'[o])
    BY <2>4, <1>2, <1>3, <1>4
  <2> QED BY <2>1, <2>2, <2>3, <2>5, <1>3, <1>4, <1>8 DEF OrdersSound
<1>10. ListInv'
  <2>1. ListTypes(book, cancel_map, link, stamp, Rem)
    BY <1>1, InvListTypes
  <2>2. PICK st2 : st2 = stamp'
    OBVIOUS
  <2>3. PICK rem2 : rem2 = Rem'
    OBVIOUS
  <2>4. PICK rem : rem = Rem
    OBVIOUS
  <2>5. ASSUME NEW n \in OrderId, cancel_map[n] # None
        PROVE  st2[n] = stamp[n] /\ rem2[n] = rem[n]
    <3>1. n # o
      BY <2>5, <1>6
    <3> QED BY <3>1, <2>2, <2>3, <2>4, <1>2, RemFacts
  <2>6. Lists(book, cancel_map, link, stamp, rem)
    BY <2>4, <1>1 DEF ListInv
  <2>7. Lists(book, cancel_map, link, st2, rem2)
    BY <2>1, <2>4, <2>5, <2>6, ListsSame
  <2> QED BY <2>2, <2>3, <2>7, <1>4 DEF ListInv
<1> QED BY <1>5, <1>9, <1>10 DEF BookInv

\* Unlink leaves the links that removal asks for, if o has two neighbours at most.
LEMMA UnlinkFacts ==
    ASSUME BookTypes, NEW o \in OrderId, NEW lk2, lk2 = Unlink(o),
           link[o].prev = link[o].next => link[o].prev = None
    PROVE  lk2 \in [OrderId -> Links] /\ LinkRemoved(link, o, lk2)
<1>1. \A n \in OrderId : link[n] \in Links
  BY DEF BookTypes
<1>2. \A n \in OrderId : lk2[n] =
        CASE n = o -> Unlinked
          [] n # o /\ n = link[o].prev -> [link[n] EXCEPT !.next = link[o].next]
          [] n # o /\ n = link[o].next -> [link[n] EXCEPT !.prev = link[o].prev]
          [] OTHER -> link[n]
  BY DEF Unlink
<1>3. PICK x \in OrderId \union {None}, y \in OrderId \union {None} :
        x = link[o].prev /\ y = link[o].next
  BY <1>1 DEF Links
<1>4. None \notin OrderId
  BY NoneAssumption
<1>5. \A n \in OrderId : ~(n = x /\ n = y)
  BY <1>3, <1>4
<1>6. lk2[o] = Unlinked /\ Unlinked \in Links
  BY <1>2 DEF Unlinked, Links
<1>7. ASSUME NEW n \in OrderId, n # o
      PROVE  /\ lk2[n] \in Links
             /\ lk2[n].prev = IF n = y THEN x ELSE link[n].prev
             /\ lk2[n].next = IF n = x THEN y ELSE link[n].next
             /\ n # x /\ n # y => lk2[n] = link[n]
  <2>1. PICK l \in Links : l = link[n]
    BY <1>1
  <2>2. CASE n = x
    <3>1. lk2[n] = [l EXCEPT !.next = y] /\ n # y
      BY <2>1, <2>2, <1>2, <1>3, <1>5, <1>7
    <3> QED BY <3>1, <2>1, <2>2 DEF Links
  <2>3. CASE n = y
    <3>1. lk2[n] = [l EXCEPT !.prev = x] /\ n # x
      BY <2>1, <2>3, <1>2, <1>3, <1>5, <1>7
    <3> QED BY <3>1, <2>1, <2>3 DEF Links
  <2>4. CASE n # x /\ n # y
    BY <2>1, <2>4, <1>2, <1>3, <1>7
  <2> QED BY <2>2, <2>3, <2>4
<1>8. lk2 \in [OrderId -> Links]
  <2>1. lk2 = [n \in OrderId |-> lk2[n]]
    BY DEF Unlink
  <2> QED BY <2>1, <1>6, <1>7
<1>9. LinksWithout(OrderId, link, o, lk2)
  BY <1>3, <1>7 DEF LinksWithout
<1> QED BY <1>3, <1>6, <1>7, <1>8, <1>9 DEF LinkRemoved

\* A resting order: its level, its list, and its neighbours, which are not the same.
LEMMA RestingFacts ==
    ASSUME BookInv, NEW o \in OrderId, NEW s \in Side, NEW p \in Price,
           cancel_map[o] = <<s, p>>
    PROVE  /\ p \in DOMAIN book[s]
           /\ book[s][p] \in Level
           /\ link[o].prev = link[o].next => link[o].prev = None
<1>1. BookTypes /\ OrdersSound /\ ListInv
  BY DEF BookInv
<1>2. cancel_map[o] # None
  BY PlacedFacts
<1>3. cancel_map[o][1] = s /\ cancel_map[o][2] = p
  OBVIOUS
<1>4. cancel_map[o][2] \in DOMAIN book[cancel_map[o][1]]
  BY <1>1, <1>2 DEF ListInv, Lists
<1>5. p \in DOMAIN book[s]
  BY <1>3, <1>4
<1>6. book[s] \in Levels
  BY <1>1 DEF BookTypes
<1>7. book[s][p] \in Level
  BY <1>5, <1>6, LevelsFacts
<1>8. PICK A : A = Placed(cancel_map, s, p)
  OBVIOUS
<1>9. Chain(A, link, stamp, book[s][p])
  BY <1>1, <1>5, <1>8 DEF ListInv, Lists, LevelSound
<1>10. o \in A /\ None \notin A /\ \A n \in A : n \in OrderId
  BY <1>8, PlacedFacts DEF Placed
<1>11. ASSUME link[o].prev = link[o].next, link[o].prev # None PROVE FALSE
  <2>1. PICK n : n = link[o].next
    OBVIOUS
  <2>2. n \in A /\ stamp[o] < stamp[n] /\ link[n].prev = o
    BY <2>1, <1>9, <1>10, <1>11 DEF Chain
  <2>3. link[n].next = o
    BY <2>1, <1>9, <1>10, <1>11 DEF Chain
  <2>4. stamp[n] < stamp[o]
    BY <2>2, <2>3, <1>9, <1>10 DEF Chain
  <2>5. stamp[n] \in Nat /\ stamp[o] \in Nat
    BY <2>2, <1>1, <1>10 DEF BookTypes
  <2> QED BY <2>2, <2>4, <2>5
<1> QED BY <1>5, <1>7, <1>11

\* What remove leaves of a level.
LEMMA RemoveFacts ==
    ASSUME BookTypes, NEW o \in OrderId, NEW old \in Level, NEW d \in Int,
           NEW level, level = Remove_(old, o, d)
    PROVE  level \in Level /\ LevelRemoved(link, old, o, d, level)
<1>1. link[o] \in Links
  BY DEF BookTypes
<1>2. /\ level.head = IF link[o].prev = None THEN link[o].next ELSE old.head
      /\ level.tail = IF link[o].next = None THEN link[o].prev ELSE old.tail
      /\ level.count = old.count - 1
      /\ level.total = Low(4, old.total - d)
  BY DEF Remove_
<1>3. /\ old.total \in Int /\ old.count \in Int
      /\ old.head \in OrderId \union {None} /\ old.tail \in OrderId \union {None}
  BY DEF Level
<1>4. link[o].prev \in OrderId \union {None} /\ link[o].next \in OrderId \union {None}
  BY <1>1 DEF Links
<1>5. PICK n \in Int : n = old.total - d
  BY <1>3
<1>6. level.total \in Int
  <2>1. Low(4, n) \in Nat
    BY LowFacts
  <2>2. level.total = Low(4, n)
    BY <1>2, <1>5
  <2> QED BY <2>1, <2>2
<1>7. level = [total |-> level.total, count |-> level.count, head |-> level.head,
               tail |-> level.tail]
  BY DEF Remove_
<1>8. level.count \in Int /\ level.head \in OrderId \union {None}
      /\ level.tail \in OrderId \union {None}
  BY <1>2, <1>3, <1>4
<1>9. level \in Level
  BY <1>6, <1>7, <1>8 DEF Level
<1> QED BY <1>2, <1>9 DEF LevelRemoved

\* Cancel takes its order out of the list it is in.
LEMMA CancelKeeps ==
    ASSUME BookInv, NEW o \in OrderId, CancelResting(o)
    PROVE  BookInv'
<1>1. BookTypes /\ OrdersSound /\ ListInv
  BY DEF BookInv
<1>2. PICK s \in Side, p \in Price : cancel_map[o] = <<s, p>>
  BY <1>1 DEF CancelResting, BookTypes
<1>3. cancel_map[o][1] = s /\ cancel_map[o][2] = p
  BY <1>2
<1>4. p \in DOMAIN book[s] /\ book[s][p] \in Level
      /\ (link[o].prev = link[o].next => link[o].prev = None)
  BY <1>2, RestingFacts
<1>5. PICK level : level = Remove_(book[s][p], o, Remaining(o))
  OBVIOUS
<1>6. /\ book' = [book EXCEPT ![s] = StoreLevel(book[s], p, level)]
      /\ link' = Unlink(o)
      /\ status' = [status EXCEPT ![o] = "CANCELLED"]
  BY <1>1, <1>3, <1>4, <1>5 DEF CancelResting, BookTypes
<1>7. cancel_map' = [cancel_map EXCEPT ![o] = None]
  BY DEF CancelResting
<1>8. req' = req /\ filled' = filled /\ sequence' = sequence /\ taker' = taker
      /\ trades' = trades /\ stamp' = stamp /\ taker = None
  BY DEF CancelResting
<1>9. req[o] # None
  BY <1>1, <1>2, PlacedFacts DEF OrdersSound
<1>10. Remaining(o) \in Int
  BY <1>1, <1>9, RequestFacts
<1>11. level \in Level /\ LevelRemoved(link, book[s][p], o, Remaining(o), level)
  BY <1>1, <1>4, <1>5, <1>10, RemoveFacts
<1>12. PICK lk2 : lk2 = Unlink(o)
  OBVIOUS
<1>13. lk2 \in [OrderId -> Links] /\ LinkRemoved(link, o, lk2)
  BY <1>1, <1>4, <1>12, UnlinkFacts
<1>14. BookTypes'
  <2>1. book[s] \in Levels
    BY <1>1 DEF BookTypes
  <2>2. StoreLevel(book[s], p, level) \in Levels
    BY <2>1, <1>11, LevelsFacts
  <2>3. book' \in [Side -> Levels]
    BY <2>2, <1>1, <1>6 DEF BookTypes
  <2>4. status' \in [OrderId -> DOMAIN STATUS_TO_WIRE]
    BY <1>1, <1>6, StatusFacts DEF BookTypes
  <2>5. cancel_map' \in [OrderId -> (Side \X Price) \union {None}]
    BY <1>1, <1>7 DEF BookTypes
  <2> QED BY <2>3, <2>4, <2>5, <1>1, <1>6, <1>8, <1>12, <1>13 DEF BookTypes
<1>15. OrdersSound'
  <2>1. \A n \in OrderId : cancel_map'[n] # None => cancel_map[n] # None
    BY <1>1, <1>7 DEF BookTypes
  <2> QED BY <2>1, <1>1, <1>8 DEF OrdersSound
<1>16. ListInv'
  <2>1. ListTypes(book, cancel_map, link, stamp, Rem)
    BY <1>1, InvListTypes
  <2>2. PICK rem : rem = Rem
    OBVIOUS
  <2>3. rem = Rem'
    BY <2>2, <1>8 DEF Rem, Remaining
  <2>4. rem[o] = Remaining(o)
    BY <2>2 DEF Rem
  <2>5. PICK bk2 : bk2 = [book EXCEPT ![s] = StoreLevel(book[s], p, level)]
    OBVIOUS
  <2>6. PICK cm2 : cm2 = [cancel_map EXCEPT ![o] = None]
    OBVIOUS
  <2>7. ListTypes(book, cancel_map, link, stamp, rem) /\ Lists(book, cancel_map, link, stamp, rem)
    BY <2>1, <2>2, <1>1 DEF ListInv
  <2>8. LevelRemoved(link, book[s][p], o, rem[o], level)
    BY <2>4, <1>11
  <2>9. OthersWant(cancel_map, o, rem, rem)
    BY DEF OthersWant
  <2>10. Lists(bk2, cm2, lk2, stamp, rem)
    BY <2>5, <2>6, <2>7, <2>8, <2>9, <1>2, <1>4, <1>13, ListsRemove
  <2> QED BY <2>3, <2>5, <2>6, <2>10, <1>6, <1>7, <1>8, <1>12 DEF ListInv
<1> QED BY <1>14, <1>15, <1>16 DEF BookInv

\* submit returns: a residual goes to the end of its level.
LEMMA FinishKeeps ==
    ASSUME BookInv, Finish
    PROVE  BookInv'
<1>1. BookTypes /\ OrdersSound /\ ListInv
  BY DEF BookInv
<1>2. PICK o : o = taker
  OBVIOUS
<1>3. o \in OrderId /\ o # None /\ req[o] # None
      /\ \A n \in OrderId : n # o => stamp[n] < stamp[o]
  BY <1>1, <1>2 DEF Finish, BookTypes, OrdersSound
<1>4. req' = req /\ filled' = filled /\ sequence' = sequence /\ taker' = None
      /\ trades' = trades /\ stamp' = stamp
  BY DEF Finish
<1>5. cancel_map[o] = None
  BY <1>1, <1>2, <1>3 DEF OrdersSound
<1>6. MatchedStatus(o) \in DOMAIN STATUS_TO_WIRE
  <2>1. status[o] \in DOMAIN STATUS_TO_WIRE
    BY <1>1, <1>3 DEF BookTypes
  <2> QED BY <2>1, StatusFacts DEF MatchedStatus
<1>7. CASE ~Residual(o, {"GTC", "GTD"})
  <2>1. /\ status' = [status EXCEPT ![o] =
               IF Residual(o, {"IOC", "FOK"}) THEN "CANCELLED" ELSE MatchedStatus(o)]
        /\ book' = book /\ link' = link /\ cancel_map' = cancel_map
    BY <1>2, <1>7 DEF Finish
  <2>2. status' \in [OrderId -> DOMAIN STATUS_TO_WIRE]
    BY <2>1, <1>1, <1>6, StatusFacts DEF BookTypes
  <2>3. BookTypes'
    BY <2>1, <2>2, <1>1, <1>4 DEF BookTypes
  <2>4. ASSUME NEW n \in OrderId, cancel_map[n] # None PROVE n # None
    BY NoneAssumption
  <2>5. OrdersSound'
    BY <2>1, <2>4, <1>1, <1>4 DEF OrdersSound
  <2>6. Rem' = Rem
    BY <1>4 DEF Rem, Remaining
  <2>7. ListInv'
    BY <2>1, <2>6, <1>1, <1>4 DEF ListInv
  <2> QED BY <2>3, <2>5, <2>7 DEF BookInv
<1>8. CASE Residual(o, {"GTC", "GTD"})
  <2>1. PICK s \in Side, p \in Price : s = req[o].side /\ p = req[o].price
    BY <1>1, <1>3, <1>8, RequestFacts DEF Residual, OrdersSound
  <2>2. RestOrder(o, s, p)
    BY <2>1, <1>2, <1>8 DEF Finish
  <2>3. PICK old : old = IF p \in DOMAIN book[s] THEN book[s][p] ELSE EmptyLevel
    OBVIOUS
  <2>4. PICK level : level = PushBack(old, o)
    OBVIOUS
  <2>5. /\ book' = [book EXCEPT ![s] = WithLevel(book[s], p, level)]
        /\ link' = LinkBack(old, o)
        /\ cancel_map' = [cancel_map EXCEPT ![o] = <<s, p>>]
        /\ status' = [status EXCEPT ![o] = IF filled[o] = 0 THEN "OPEN" ELSE MatchedStatus(o)]
    BY <2>2, <2>3, <2>4, <1>1 DEF RestOrder, BookTypes
  <2>6. old \in Level
    <3>1. book[s] \in Levels
      BY <1>1 DEF BookTypes
    <3>2. p \in DOMAIN book[s] => book[s][p] \in Level
      BY <3>1, LevelsFacts
    <3>3. EmptyLevel \in Level
      BY DEF EmptyLevel, Level
    <3> QED BY <3>2, <3>3, <2>3
  <2>7. Remaining(o) \in Int /\ Remaining(o) > 0
    BY <1>1, <1>3, <1>8, RequestFacts DEF Residual
  <2>8. /\ level.head = IF old.tail = None THEN o ELSE old.head
        /\ level.tail = o /\ level.count = old.count + 1
        /\ level.total = Low(4, old.total + Remaining(o))
        /\ level = [total |-> level.total, count |-> level.count, head |-> level.head,
                    tail |-> level.tail]
    BY <2>4 DEF PushBack
  <2>9. level \in Level
    <3>1. old.total \in Int /\ old.count \in Int /\ old.head \in OrderId \union {None}
      BY <2>6 DEF Level
    <3>2. PICK n \in Int : n = old.total + Remaining(o)
      BY <3>1, <2>7
    <3>3. level.total \in Int
      BY <3>2, <2>8, LowFacts
    <3> QED BY <3>1, <3>3, <2>8, <1>3 DEF Level
  <2>10. PICK lk2 : lk2 = LinkBack(old, o)
    OBVIOUS
  <2>11. \A n \in OrderId : lk2[n] =
           CASE n = o -> [prev |-> old.tail, next |-> None]
             [] n # o /\ n = old.tail -> [link[n] EXCEPT !.next = o]
             [] OTHER -> link[n]
    BY <2>10 DEF LinkBack
  <2>12. lk2[o] = [prev |-> old.tail, next |-> None]
    BY <2>11, <1>3
  <2>13. \A n \in OrderId : n # o /\ n # old.tail => lk2[n] = link[n]
    BY <2>11
  <2>14. \A n \in OrderId : link[n] \in Links
    BY <1>1 DEF BookTypes
  <2>15. ASSUME NEW n \in OrderId, n # o, n = old.tail
         PROVE  lk2[n] \in Links /\ lk2[n].prev = link[n].prev /\ lk2[n].next = o
    <3>1. PICK l \in Links : l = link[n]
      BY <2>14
    <3>2. lk2[n] = [l EXCEPT !.next = o]
      BY <3>1, <2>11, <2>15
    <3> QED BY <3>1, <3>2, <1>3 DEF Links
  <2>16. old.tail # o
    <3>1. CASE p \in DOMAIN book[s]
      <4>1. old = book[s][p] /\ LevelSound(Placed(cancel_map, s, p), link, stamp, Rem, old)
        BY <3>1, <2>3, <1>1 DEF ListInv, Lists
      <4>2. old.tail \in Placed(cancel_map, s, p)
        BY <4>1 DEF LevelSound, Chain
      <4> QED BY <4>2, <1>5, PlacedFacts
    <3>2. CASE p \notin DOMAIN book[s]
      BY <3>2, <2>3, <1>3 DEF EmptyLevel
    <3> QED BY <3>1, <3>2
  <2>17. old.tail \in OrderId \union {None}
    BY <2>6 DEF Level
  <2>18. lk2 \in [OrderId -> Links]
    <3>1. lk2[o] \in Links
      BY <2>12, <2>17, LinkFacts
    <3>2. \A n \in OrderId : lk2[n] \in Links
      BY <3>1, <2>13, <2>14, <2>15
    <3>3. lk2 = [n \in OrderId |-> lk2[n]]
      BY <2>10 DEF LinkBack
    <3> QED BY <3>2, <3>3
  <2>19. BookTypes'
    <3>1. book[s] \in Levels
      BY <1>1 DEF BookTypes
    <3>2. WithLevel(book[s], p, level) \in Levels
      BY <3>1, <2>9, LevelsFacts
    <3>3. book' \in [Side -> Levels]
      BY <3>2, <2>5, <1>1 DEF BookTypes
    <3>4. status' \in [OrderId -> DOMAIN STATUS_TO_WIRE]
      BY <2>5, <1>1, <1>6, StatusFacts DEF BookTypes
    <3>5. cancel_map' \in [OrderId -> (Side \X Price) \union {None}]
      BY <2>5, <1>1 DEF BookTypes
    <3> QED BY <3>3, <3>4, <3>5, <2>5, <2>10, <2>18, <1>1, <1>4 DEF BookTypes
  <2>20. OrdersSound'
    <3>1. \A n \in OrderId : cancel_map'[n] # None => cancel_map[n] # None \/ n = o
      BY <2>5, <1>1 DEF BookTypes
    <3>2. filled[o] < req[o].quantity
      BY <2>7, <1>1, <1>3, RequestFacts
    <3>3. ASSUME NEW n \in OrderId, cancel_map'[n] # None
          PROVE  req'[n] # None /\ filled'[n] < req'[n].quantity /\ n # taker'
      BY <3>1, <3>2, <3>3, <1>1, <1>3, <1>4, NoneAssumption DEF OrdersSound
    <3> QED BY <3>3, <1>1, <1>4 DEF OrdersSound
  <2>21. ListInv'
    <3>1. PICK rem : rem = Rem
      OBVIOUS
    <3>2. rem = Rem'
      BY <3>1, <1>4 DEF Rem, Remaining
    <3>3. rem[o] = Remaining(o)
      BY <3>1, <1>3 DEF Rem
    <3>4. PICK bk2 : bk2 = [book EXCEPT ![s] = WithLevel(book[s], p, level)]
      OBVIOUS
    <3>5. PICK cm2 : cm2 = [cancel_map EXCEPT ![o] = <<s, p>>]
      OBVIOUS
    <3>6. ListTypes(book, cancel_map, link, stamp, rem) /\ Lists(book, cancel_map, link, stamp, rem)
      BY <3>1, <1>1, InvListTypes DEF ListInv
    <3>7. level.total = Low(4, old.total + rem[o]) /\ rem[o] \in Int
      BY <3>3, <2>7, <2>8
    <3>8. old.tail # None => lk2[old.tail].prev = link[old.tail].prev /\ lk2[old.tail].next = o
      BY <2>15, <2>16, <2>17
    <3>9. LinkPushed(link, old, o, lk2)
      BY <3>8, <2>12, <2>13 DEF LinkPushed
    <3>10. LevelPushed(old, o, rem[o], level)
      BY <3>7, <2>8 DEF LevelPushed
    <3>11. Latest(stamp, o)
      BY <1>3 DEF Latest
    <3>12. Lists(bk2, cm2, lk2, stamp, rem)
      BY <3>4, <3>5, <3>6, <3>7, <3>9, <3>10, <3>11, <2>3, <1>3, <1>5, ListsRest
    <3> QED BY <3>2, <3>4, <3>5, <3>12, <2>5, <2>10, <1>4 DEF ListInv
  <2> QED BY <2>19, <2>20, <2>21 DEF BookInv
<1> QED BY <1>7, <1>8

\* Fill of quantity q with order r, at the head of the level at price p of side s.
FillOf(s, p, r, q) ==
    /\ taker \in OrderId /\ req[taker] # None /\ cancel_map[taker] = None
    /\ s = Other /\ p = Best(s) /\ Crosses(req[taker], p)
    /\ p \in DOMAIN book[s] /\ book[s][p] \in Level /\ r = book[s][p].head
    /\ cancel_map[r] = <<s, p>> /\ r # taker /\ req[r] # None
    /\ q = Least(Remaining(taker), Remaining(r))
    /\ q > 0 /\ q <= Remaining(taker) /\ q <= Remaining(r)
    /\ filled' = [filled EXCEPT ![taker] = @ + q, ![r] = @ + q]
    /\ trades' = Append(trades, [maker |-> r, taker |-> taker,
                                 price |-> req[r].price, quantity |-> q])
    /\ LET done  == Remaining(r) = q
           level == [book[s][p] EXCEPT !.total = Low(4, @ - q)]
           left  == IF done THEN Remove_(level, r, 0) ELSE level
       IN  /\ status' = [status EXCEPT ![r] = IF done THEN "FILLED" ELSE "PARTIALLY_FILLED"]
           /\ book' = [book EXCEPT ![s] = StoreLevel(book[s], p, left)]
           /\ link' = IF done THEN Unlink(r) ELSE link
           /\ cancel_map' = IF done THEN [cancel_map EXCEPT ![r] = None] ELSE cancel_map
    /\ UNCHANGED <<req, sequence, taker, stamp>>

\* Fill meets an order that rests at the head of the best level.
LEMMA FillFacts ==
    ASSUME BookInv, Fill
    PROVE  \E s \in Side, p \in Price, r \in OrderId, q \in Nat : FillOf(s, p, r, q)
<1>1. BookTypes /\ OrdersSound /\ ListInv
  BY DEF BookInv
<1>2. taker # None /\ Remaining(taker) > 0 /\ DOMAIN book[Other] # {}
  BY DEF Fill, Matching
<1>3. taker \in OrderId /\ req[taker] # None
  BY <1>1, <1>2 DEF BookTypes, OrdersSound
<1>4. cancel_map[taker] = None
  BY <1>1, <1>3 DEF OrdersSound
<1>5. PICK s : s = Other
  OBVIOUS
<1>6. s \in Side
  BY <1>1, <1>3, <1>5, RequestFacts DEF Other
<1>7. PICK p : p = Best(s)
  OBVIOUS
<1>8. p \in DOMAIN book[s]
  BY <1>1, <1>2, <1>5, <1>6, <1>7, BestFacts
<1>9. book[s] \in Levels
  BY <1>1, <1>6 DEF BookTypes
<1>10. p \in Price /\ book[s][p] \in Level
  BY <1>8, <1>9, LevelsFacts
<1>11. PICK r : r = book[s][p].head
  OBVIOUS
<1>12. r \in Placed(cancel_map, s, p)
  BY <1>1, <1>6, <1>8, <1>11 DEF ListInv, Lists, LevelSound, Chain
<1>13. r \in OrderId /\ cancel_map[r] = <<s, p>> /\ cancel_map[r] # None
  BY <1>6, <1>10, <1>12, PlacedFacts
<1>14. r # taker /\ req[r] # None /\ filled[r] < req[r].quantity
  BY <1>1, <1>13 DEF OrdersSound
<1>15. Remaining(taker) \in Int /\ Remaining(r) \in Int /\ Remaining(r) > 0
  BY <1>1, <1>3, <1>13, <1>14, RequestFacts
<1>16. PICK q : q = Least(Remaining(taker), Remaining(r))
  OBVIOUS
<1>17. q \in Nat /\ q > 0 /\ q <= Remaining(taker) /\ q <= Remaining(r)
  BY <1>2, <1>15, <1>16 DEF Least
<1>18. /\ filled' = [filled EXCEPT ![taker] = @ + q, ![r] = @ + q]
       /\ trades' = Append(trades, [maker |-> r, taker |-> taker,
                                    price |-> req[r].price, quantity |-> q])
  BY <1>5, <1>7, <1>11, <1>16 DEF Fill
<1>19. LET done  == Remaining(r) = q
           level == [book[s][p] EXCEPT !.total = Low(4, @ - q)]
           left  == IF done THEN Remove_(level, r, 0) ELSE level
       IN  /\ status' = [status EXCEPT ![r] = IF done THEN "FILLED" ELSE "PARTIALLY_FILLED"]
           /\ book' = [book EXCEPT ![s] = StoreLevel(book[s], p, left)]
           /\ link' = IF done THEN Unlink(r) ELSE link
           /\ cancel_map' = IF done THEN [cancel_map EXCEPT ![r] = None] ELSE cancel_map
  BY <1>5, <1>7, <1>11, <1>16 DEF Fill
<1>20. UNCHANGED <<req, sequence, taker, stamp>>
  BY DEF Fill
<1>21. Crosses(req[taker], p)
  BY <1>5, <1>7 DEF Fill, Matching
<1>22. FillOf(s, p, r, q)
  BY <1>3, <1>4, <1>5, <1>7, <1>8, <1>10, <1>11, <1>13, <1>14, <1>16, <1>17, <1>18, <1>19, <1>20,
     <1>21 DEF FillOf
<1> QED BY <1>6, <1>10, <1>13, <1>17, <1>22

\* What a fill does to the two orders and to no other.
LEMMA FillOrders ==
    ASSUME BookTypes, OrdersSound,
           NEW s \in Side, NEW p \in Price, NEW r \in OrderId, NEW q \in Nat, FillOf(s, p, r, q)
    PROVE  /\ filled' \in [OrderId -> Nat]
           /\ filled'[taker] = filled[taker] + q /\ filled'[r] = filled[r] + q
           /\ \A n \in OrderId : n # taker /\ n # r => filled'[n] = filled[n]
           /\ filled'[taker] <= req[taker].quantity /\ filled'[r] <= req[r].quantity
           /\ Remaining(r) # q => filled'[r] < req[r].quantity
           /\ trades' \in Seq(Trade)
<1>1. taker \in OrderId /\ req[taker] # None /\ req[r] # None /\ r # taker
  BY DEF FillOf
<1>2. filled' = [filled EXCEPT ![taker] = @ + q, ![r] = @ + q]
  BY DEF FillOf
<1>3. filled \in [OrderId -> Nat]
  BY DEF BookTypes
<1>4. /\ filled' \in [OrderId -> Nat]
      /\ filled'[taker] = filled[taker] + q /\ filled'[r] = filled[r] + q
      /\ \A n \in OrderId : n # taker /\ n # r => filled'[n] = filled[n]
  BY <1>1, <1>2, <1>3
<1>5. Remaining(taker) = req[taker].quantity - filled[taker]
      /\ req[taker].quantity \in Nat /\ filled[taker] \in Nat
  BY <1>1, RequestFacts
<1>6. Remaining(r) = req[r].quantity - filled[r] /\ req[r].quantity \in Nat /\ filled[r] \in Nat
      /\ req[r].price \in Price \union {0}
  BY <1>1, RequestFacts
<1>7. q <= Remaining(taker) /\ q <= Remaining(r)
  BY DEF FillOf
<1>8. PICK t : t = [maker |-> r, taker |-> taker, price |-> req[r].price, quantity |-> q]
  OBVIOUS
<1>9. t \in Trade
  BY <1>1, <1>6, <1>8 DEF Trade
<1>10. trades' = Append(trades, t)
  BY <1>8 DEF FillOf
<1>11. trades' \in Seq(Trade)
  BY <1>9, <1>10 DEF BookTypes
<1>12. filled'[taker] <= req[taker].quantity
  BY <1>4, <1>5, <1>7
<1>13. filled'[r] <= req[r].quantity /\ (Remaining(r) # q => filled'[r] < req[r].quantity)
  BY <1>4, <1>6, <1>7
<1> QED BY <1>4, <1>11, <1>12, <1>13

\* One iteration of the matching loop keeps the lists sound.
LEMMA FillKeeps ==
    ASSUME BookInv, Fill
    PROVE  BookInv'
<1>1. BookTypes /\ OrdersSound /\ ListInv
  BY DEF BookInv
<1>2. PICK s \in Side, p \in Price, r \in OrderId, q \in Nat : FillOf(s, p, r, q)
  BY FillFacts
<1>3. /\ taker \in OrderId /\ req[taker] # None /\ cancel_map[taker] = None
      /\ p \in DOMAIN book[s] /\ book[s][p] \in Level
      /\ cancel_map[r] = <<s, p>> /\ r # taker /\ req[r] # None
      /\ req' = req /\ sequence' = sequence /\ taker' = taker /\ stamp' = stamp
  BY <1>2 DEF FillOf
<1>4. /\ filled' \in [OrderId -> Nat]
      /\ filled'[taker] = filled[taker] + q /\ filled'[r] = filled[r] + q
      /\ \A n \in OrderId : n # taker /\ n # r => filled'[n] = filled[n]
      /\ filled'[taker] <= req[taker].quantity /\ filled'[r] <= req[r].quantity
      /\ Remaining(r) # q => filled'[r] < req[r].quantity
      /\ trades' \in Seq(Trade)
  BY <1>1, <1>2, FillOrders
<1>5. PICK mid : mid = [book[s][p] EXCEPT !.total = Low(4, @ - q)]
  OBVIOUS
<1>6. /\ mid \in Level /\ mid.head = book[s][p].head /\ mid.tail = book[s][p].tail
      /\ mid.count = book[s][p].count /\ mid.total = Low(4, book[s][p].total - q)
  <2>1. PICK old \in Level : old = book[s][p]
    BY <1>3
  <2>2. old.total \in Int
    BY DEF Level
  <2>3. PICK n \in Int : n = old.total - q
    BY <2>2
  <2>4. Low(4, n) \in Int
    BY LowFacts
  <2>5. mid = [old EXCEPT !.total = Low(4, n)]
    BY <2>1, <2>3, <1>5
  <2>6. /\ mid \in Level /\ mid.head = old.head /\ mid.tail = old.tail
        /\ mid.count = old.count /\ mid.total = Low(4, n)
    BY <2>4, <2>5 DEF Level
  <2> QED BY <2>1, <2>3, <2>6
<1>7. PICK rem : rem = Rem
  OBVIOUS
<1>8. PICK rem2 : rem2 = Rem'
  OBVIOUS
<1>9. /\ ListTypes(book, cancel_map, link, stamp, rem)
      /\ Lists(book, cancel_map, link, stamp, rem)
  BY <1>1, <1>7, InvListTypes DEF ListInv
<1>10. ASSUME NEW n \in OrderId, n # r, cancel_map[n] # None PROVE rem2[n] = rem[n]
  <2>1. n # taker
    BY <1>3, <1>10
  <2>2. filled'[n] = filled[n] /\ req'[n] = req[n]
    BY <2>1, <1>3, <1>4, <1>10
  <2> QED BY <2>2, <1>7, <1>8, RemFacts
<1>11. rem[r] = Remaining(r) /\ Remaining(r) \in Int
  BY <1>1, <1>3, <1>7, RequestFacts DEF Rem
<1>12. OthersWant(cancel_map, r, rem, rem2)
  BY <1>10 DEF OthersWant
<1>13. OrdersSound' /\ BookTypes' /\ ListInv'
  <2>1. CASE Remaining(r) = q
    <3>1. PICK level : level = Remove_(mid, r, 0)
      OBVIOUS
    <3>2. /\ status' = [status EXCEPT ![r] = "FILLED"]
          /\ book' = [book EXCEPT ![s] = StoreLevel(book[s], p, level)]
          /\ link' = Unlink(r)
          /\ cancel_map' = [cancel_map EXCEPT ![r] = None]
      BY <3>1, <2>1, <1>2, <1>5 DEF FillOf
    <3>3. PICK z \in Int : z = 0
      OBVIOUS
    <3>4. level \in Level /\ LevelRemoved(link, mid, r, z, level)
      <4>1. level = Remove_(mid, r, z)
        BY <3>1, <3>3
      <4> QED BY <4>1, <1>1, <1>6, RemoveFacts
    <3>5. /\ level.head = IF link[r].prev = None THEN link[r].next ELSE book[s][p].head
          /\ level.tail = IF link[r].next = None THEN link[r].prev ELSE book[s][p].tail
          /\ level.count = book[s][p].count - 1
      BY <3>4, <1>6 DEF LevelRemoved
    <3>6. level.total = Low(4, book[s][p].total - rem[r])
      <4>1. PICK n \in Int : n = book[s][p].total - q
        BY <1>3 DEF Level
      <4>2. Low(4, Low(4, n) + 0) = Low(4, n + 0) /\ Low(4, n) \in Nat
        BY LowFacts
      <4>3. Low(4, n) - 0 = Low(4, n) + 0 /\ n + 0 = n
        BY <4>2
      <4>4. level.total = Low(4, mid.total - z)
        BY <3>4 DEF LevelRemoved
      <4>5. level.total = Low(4, n)
        BY <4>1, <4>2, <4>3, <4>4, <3>3, <1>6
      <4> QED BY <4>1, <4>5, <2>1, <1>11
    <3>7. LevelRemoved(link, book[s][p], r, rem[r], level)
      BY <3>5, <3>6 DEF LevelRemoved
    <3>8. PICK lk2 : lk2 = Unlink(r)
      OBVIOUS
    <3>9. lk2 \in [OrderId -> Links] /\ LinkRemoved(link, r, lk2)
      <4>1. link[r].prev = link[r].next => link[r].prev = None
        BY <1>3, RestingFacts
      <4> QED BY <4>1, <3>8, <1>1, UnlinkFacts
    <3>10. PICK bk2 : bk2 = [book EXCEPT ![s] = StoreLevel(book[s], p, level)]
      OBVIOUS
    <3>11. PICK cm2 : cm2 = [cancel_map EXCEPT ![r] = None]
      OBVIOUS
    <3>12. Lists(bk2, cm2, lk2, stamp, rem2)
      <4>1. p \in DOMAIN book[s] /\ cancel_map[r] = <<s, p>>
        BY <1>3
      <4> QED BY <4>1, <3>7, <3>9, <3>10, <3>11, <1>9, <1>12, ListsRemove
    <3>13. ListInv'
      BY <3>2, <3>8, <3>10, <3>11, <3>12, <1>3, <1>8 DEF ListInv
    <3>14. book[s] \in Levels
      BY <1>1 DEF BookTypes
    <3>15. StoreLevel(book[s], p, level) \in Levels
      BY <3>4, <3>14, LevelsFacts
    <3>16. book' \in [Side -> Levels]
      BY <3>2, <3>15, <1>1 DEF BookTypes
    <3>17. status' \in [OrderId -> DOMAIN STATUS_TO_WIRE]
      BY <3>2, <1>1, StatusFacts DEF BookTypes
    <3>18. cancel_map' \in [OrderId -> (Side \X Price) \union {None}]
      BY <3>2, <1>1 DEF BookTypes
    <3>19. BookTypes'
      BY <3>2, <3>8, <3>9, <3>16, <3>17, <3>18, <1>1, <1>3, <1>4 DEF BookTypes
    <3>20. \A n \in OrderId : cancel_map'[n] # None => cancel_map[n] # None /\ n # r
      BY <3>2, <1>1 DEF BookTypes
    <3>21. \A n \in OrderId : cancel_map'[n] # None =>
             req'[n] # None /\ filled'[n] < req'[n].quantity /\ n # taker'
      BY <3>20, <1>1, <1>3, <1>4 DEF OrdersSound
    <3>22. \A n \in OrderId : req'[n] # None => filled'[n] <= req'[n].quantity
      BY <1>1, <1>3, <1>4 DEF OrdersSound
    <3>23. OrdersSound'
      BY <3>21, <3>22, <1>1, <1>3 DEF OrdersSound
    <3> QED BY <3>13, <3>19, <3>23
  <2>2. CASE Remaining(r) # q
    <3>1. mid.head # None
      <4>1. mid.head \in Placed(cancel_map, s, p)
        BY <1>6, <1>3, <1>9 DEF Lists, LevelSound, Chain
      <4> QED BY <4>1, PlacedFacts
    <3>2. /\ status' = [status EXCEPT ![r] = "PARTIALLY_FILLED"]
          /\ book' = [book EXCEPT ![s] = StoreLevel(book[s], p, mid)]
          /\ link' = link
          /\ cancel_map' = cancel_map
      BY <2>2, <1>2, <1>5 DEF FillOf
    <3>3. StoreLevel(book[s], p, mid) = WithLevel(book[s], p, mid)
      BY <3>1 DEF StoreLevel
    <3>4. PICK bk2 : bk2 = [book EXCEPT ![s] = WithLevel(book[s], p, mid)]
      OBVIOUS
    <3>5. rem2[r] = rem[r] - q
      <4>1. rem2[r] = req[r].quantity - filled'[r]
        BY <1>3, <1>8, RemFacts
      <4>2. filled[r] \in Nat /\ req[r].quantity \in Nat /\ Remaining(r) = req[r].quantity - filled[r]
        BY <1>1, <1>3, RequestFacts
      <4> QED BY <4>1, <4>2, <1>4, <1>11
    <3>6. Lists(bk2, cancel_map, link, stamp, rem2)
      <4>1. p \in DOMAIN book[s] /\ cancel_map[r] = <<s, p>>
        BY <1>3
      <4>2. LevelFilled(book[s][p], q, mid)
        BY <1>6 DEF LevelFilled
      <4>3. WantsLess(cancel_map, r, q, rem, rem2)
        BY <3>5, <1>12 DEF WantsLess
      <4>4. q \in Int
        OBVIOUS
      <4> QED BY <4>1, <4>2, <4>3, <4>4, <3>4, <1>9, ListsFill
    <3>7. ListInv'
      BY <3>2, <3>3, <3>4, <3>6, <1>3, <1>8 DEF ListInv
    <3>8. book[s] \in Levels
      BY <1>1 DEF BookTypes
    <3>9. StoreLevel(book[s], p, mid) \in Levels
      BY <3>8, <1>6, LevelsFacts
    <3>10. book' \in [Side -> Levels]
      BY <3>2, <3>9, <1>1 DEF BookTypes
    <3>11. status' \in [OrderId -> DOMAIN STATUS_TO_WIRE]
      BY <3>2, <1>1, StatusFacts DEF BookTypes
    <3>12. BookTypes'
      BY <3>2, <3>10, <3>11, <1>1, <1>3, <1>4 DEF BookTypes
    <3>13. \A n \in OrderId : cancel_map'[n] # None =>
             req'[n] # None /\ filled'[n] < req'[n].quantity /\ n # taker'
      BY <3>2, <2>2, <1>1, <1>3, <1>4 DEF OrdersSound
    <3>14. \A n \in OrderId : req'[n] # None => filled'[n] <= req'[n].quantity
      BY <1>1, <1>3, <1>4 DEF OrdersSound
    <3>15. OrdersSound'
      BY <3>13, <3>14, <1>1, <1>3 DEF OrdersSound
    <3> QED BY <3>7, <3>12, <3>15
  <2> QED BY <2>1, <2>2
<1> QED BY <1>13 DEF BookInv

\* An order that passes the checks of submit makes a well-formed node.
LEMMA AcceptedOrder ==
    ASSUME BookInv, NEW order \in Submission, NEW path, AcceptOrder(order, path)
    PROVE  \E o \in OrderId : \E r \in Request :
             /\ req[o] = None
             /\ r.order_type = "LIMIT" => r.price \in Price
             /\ Submit(o, r)
<1>1. PICK n : n = NativeOrder(order)
  OBVIOUS
<1>2. /\ n.order_id = order.order_id /\ n.quantity = order.quantity
      /\ n.price = IF order.price = None THEN 0 ELSE order.price
      /\ n.side = order.side /\ n.order_type = order.order_type
      /\ n.time_in_force = order.time_in_force
      /\ NewOrder(order).quantity = order.quantity
  BY <1>1, NativeOrderFacts
<1>3. PICK r : r = Fixed(n)
  OBVIOUS
<1>4. Submit(n.order_id, r) /\ Rejection(n) = None /\ Encodable(NewOrder(order))
  BY <1>1, <1>3 DEF AcceptOrder, Reaches
<1>5. /\ r.side = n.side /\ r.order_type = n.order_type /\ r.price = n.price
      /\ r.quantity = n.quantity /\ r.time_in_force = n.time_in_force
      /\ r = [side |-> r.side, order_type |-> r.order_type, price |-> r.price,
              quantity |-> r.quantity, time_in_force |-> r.time_in_force]
  BY <1>3 DEF Fixed
<1>6. /\ order.order_id \in OrderId /\ order.side \in Side
      /\ order.order_type \in {"LIMIT", "MARKET"}
      /\ order.price \in Price \union {0, None}
      /\ order.time_in_force \in {"GTC", "IOC", "FOK", "GTD"}
  BY DEF Submission
<1>7. n.quantity \in 0 .. Span[4] - 1
  BY <1>2, <1>4 DEF Encodable, Fits
<1>8. n.price \in Price \union {0}
  BY <1>2, <1>6
<1>9. r \in Request
  BY <1>2, <1>5, <1>6, <1>7, <1>8 DEF Request
<1>10. /\ None # "SYMBOL_NOT_FOUND" /\ None # "DUPLICATE_ORDER_ID"
       /\ None # "INVALID_QUANTITY" /\ None # "INVALID_PRICE"
  BY ReasonAssumption DEF Reason
<1>11. req[n.order_id] = None /\ ~(n.order_type = "LIMIT" /\ n.price <= 0)
  BY <1>4, <1>10 DEF Rejection
<1>12. r.order_type = "LIMIT" => r.price \in Price
  BY <1>5, <1>8, <1>11
<1> QED BY <1>2, <1>4, <1>6, <1>9, <1>11, <1>12

\* The book is empty at first.
LEMMA BookInitInv == BookInit => BookInv
<1> SUFFICES ASSUME BookInit PROVE BookInv
  OBVIOUS
<1>1. Unlinked \in Links
  BY LinkFacts DEF Unlinked
<1>2. <<>> \in Levels /\ DOMAIN <<>> = {}
  <2>1. IsFiniteSet({}) /\ {} \in SUBSET Price
    BY FS_EmptySet
  <2>2. <<>> \in [{} -> Level]
    OBVIOUS
  <2> QED BY <2>1, <2>2 DEF Levels
<1>3. BookTypes
  <2>1. req \in [OrderId -> Request \union {None}] /\ filled \in [OrderId -> Nat]
    BY DEF BookInit
  <2>2. status \in [OrderId -> DOMAIN STATUS_TO_WIRE]
    BY StatusFacts DEF BookInit
  <2>3. link \in [OrderId -> Links] /\ book \in [Side -> Levels]
    BY <1>1, <1>2 DEF BookInit
  <2>4. cancel_map \in [OrderId -> (Side \X Price) \union {None}] /\ stamp \in [OrderId -> Nat]
    BY DEF BookInit
  <2>5. sequence \in Nat /\ taker \in OrderId \union {None} /\ trades \in Seq(Trade)
    BY DEF BookInit
  <2> QED BY <2>1, <2>2, <2>3, <2>4, <2>5 DEF BookTypes
<1>4. OrdersSound
  BY DEF BookInit, OrdersSound
<1>5. ListInv
  <2>1. \A o \in OrderId : cancel_map[o] = None /\ link[o] = Unlinked
    BY DEF BookInit
  <2>2. \A s \in Side : DOMAIN book[s] = {}
    BY <1>2 DEF BookInit
  <2> QED BY <2>1, <2>2 DEF ListInv, Lists
<1> QED BY <1>3, <1>4, <1>5 DEF BookInv

\* A step that leaves the book alone.
LEMMA BookUnchanged ==
    ASSUME BookInv, UNCHANGED vars
    PROVE  BookInv'
<1>1. /\ req' = req /\ filled' = filled /\ status' = status /\ link' = link /\ book' = book
      /\ cancel_map' = cancel_map /\ sequence' = sequence /\ taker' = taker
      /\ trades' = trades /\ stamp' = stamp
  BY DEF vars
<1>2. Rem' = Rem
  BY <1>1 DEF Rem, Remaining
<1>3. BookTypes'
  BY <1>1 DEF BookInv, BookTypes
<1>4. OrdersSound'
  BY <1>1 DEF BookInv, OrdersSound
<1>5. ListInv'
  BY <1>1, <1>2 DEF BookInv, ListInv
<1> QED BY <1>3, <1>4, <1>5 DEF BookInv

\* The steps of the backend, as far as the book is concerned.
LEMMA BookStep ==
    ASSUME BookInv, [HALNext]_halVars
    PROVE  BookInv'
<1>1. CASE UNCHANGED vars
  BY <1>1, BookUnchanged
<1>2. ASSUME NEW path \in Path, NEW order \in Submissions[path], AcceptOrder(order, path)
      PROVE  BookInv'
  <2>1. order \in Submission
    BY SubmissionsAssumption
  <2>2. PICK o \in OrderId : \E r \in Request :
          /\ req[o] = None
          /\ r.order_type = "LIMIT" => r.price \in Price
          /\ Submit(o, r)
    BY <2>1, <1>2, AcceptedOrder
  <2>3. PICK r \in Request :
          /\ req[o] = None
          /\ r.order_type = "LIMIT" => r.price \in Price
          /\ Submit(o, r)
    BY <2>2
  <2> QED BY <2>3, SubmitKeeps
<1>3. CASE MatchStep
  BY <1>3, FillKeeps DEF MatchStep
<1>4. CASE SubmitReturns
  BY <1>4, FinishKeeps DEF SubmitReturns
<1>5. ASSUME NEW o \in OrderId, NativeCancel(o) PROVE BookInv'
  BY <1>5, CancelKeeps DEF NativeCancel
<1>6. CASE UNCHANGED halVars
  BY <1>1, <1>6 DEF halVars
<1>7. CASE RegisterSymbol
  BY <1>1, <1>7 DEF RegisterSymbol
<1>8. ASSUME NEW order, SubmitRaises(order) PROVE BookInv'
  BY <1>6, <1>8 DEF SubmitRaises
<1>9. ASSUME NEW order, NEW path, RejectOrder(order, path) PROVE BookInv'
  BY <1>1, <1>9 DEF RejectOrder
<1>10. ASSUME NEW o, CancelMisses(o) PROVE BookInv'
  BY <1>6, <1>10 DEF CancelMisses
<1>11. ASSUME NEW o, GetOrder(o) PROVE BookInv'
  BY <1>1, <1>11 DEF GetOrder
<1>12. ASSUME NEW o \in OrderId, CancelOrder(o) \/ CancelOrderBytes(o) PROVE BookInv'
  BY <1>5, <1>12 DEF CancelOrder, CancelOrderBytes
<1> QED BY <1>2, <1>3, <1>4, <1>6, <1>7, <1>8, <1>9, <1>10, <1>11, <1>12 DEF HALNext

\* The invariant says what ListsSound says, and how the sums come about.
LEMMA InvListsSound == BookInv => ListsSound
<1> SUFFICES ASSUME BookInv PROVE ListsSound
  OBVIOUS
<1>1. BookTypes /\ OrdersSound /\ ListInv
  BY DEF BookInv
<1>2. ListTypes(book, cancel_map, link, stamp, Rem)
  BY <1>1, InvListTypes
<1>3. \A o \in OrderId : IF cancel_map[o] = None THEN link[o] = Unlinked
                         ELSE cancel_map[o][2] \in DOMAIN book[cancel_map[o][1]]
  BY <1>1 DEF ListInv, Lists
<1>4. ASSUME NEW s \in Side, NEW p \in DOMAIN book[s]
      PROVE  LET level == book[s][p]
             IN  /\ level.head \in At(s, p) /\ level.tail \in At(s, p)
                 /\ \A o \in At(s, p) :
                      /\ IF link[o].prev = None THEN o = level.head
                         ELSE link[o].prev \in At(s, p) /\ link[link[o].prev].next = o
                      /\ IF link[o].next = None THEN o = level.tail
                         ELSE /\ link[o].next \in At(s, p)
                              /\ link[link[o].next].prev = o
                              /\ stamp[o] < stamp[link[o].next]
                 /\ level.count = Cardinality(At(s, p))
                 /\ level.total = Low(4, Wanted(s, p))
  <2>1. PICK A : A = At(s, p)
    OBVIOUS
  <2>2. A = Placed(cancel_map, s, p)
    BY <2>1 DEF At, Placed
  <2>3. LevelSound(A, link, stamp, Rem, book[s][p])
    BY <2>2, <1>1 DEF ListInv, Lists
  <2>4. p \in Price
    BY <1>2, LevelsFacts DEF ListTypes
  <2>5. \A o \in A : o \in OrderId /\ Rem[o] \in Int
    BY <2>2, <2>4, <1>2, PlacedFacts DEF ListTypes
  <2>6. PICK f : f = [o \in A |-> Remaining(o)]
    OBVIOUS
  <2>7. DOMAIN f = A /\ \A o \in A : f[o] = Rem[o]
    BY <2>5, <2>6 DEF Rem
  <2>8. Wanted(s, p) = SumFunctionOnSet(f, A)
    BY <2>1, <2>6, <2>7 DEF Wanted, SumFunction
  <2>9. IsFiniteSet(A)
    BY <2>3 DEF LevelSound
  <2>10. SumFunctionOnSet(f, A) = SumFunctionOnSet(Rem, A)
    BY <2>5, <2>7, <2>9, SumCongruence
  <2>11. book[s][p].count = Cardinality(A) /\ book[s][p].total = Low(4, Wanted(s, p))
    BY <2>3, <2>8, <2>10 DEF LevelSound
  <2>12. Chain(A, link, stamp, book[s][p])
    BY <2>3 DEF LevelSound
  <2> QED BY <2>1, <2>11, <2>12 DEF Chain
<1> QED BY <1>3, <1>4 DEF ListsSound

\* Every level of the C++ book is a proper doubly linked list at every moment of every
\* submit and cancel, whatever the prices, quantities and widths are.
THEOREM ListsStaySound == HALSpec => []ListsSound
<1>1. HALInit => BookInv
  BY BookInitInv DEF HALInit
<1>2. BookInv /\ [HALNext]_halVars => BookInv'
  BY BookStep
<1>3. BookInv => ListsSound
  BY InvListsSound
<1> QED BY <1>1, <1>2, <1>3, PTL DEF HALSpec

-----------------------------------------------------------------------------
(* What Python holds of native state.                                      *)

\* The orders that the submit in progress has traded with.
JustTraded == IF taker = None THEN {} ELSE Makers(taker)

\* A cached order is not being matched, does not show more than was filled, and is as
\* its node says unless the bytes path changed it or it was just traded with.
OrderCached(o) ==
    cache[o] # None =>
        /\ req[o] # None /\ o # taker
        /\ cache[o].filled \in Nat /\ cache[o].filled <= filled[o]
        /\ o \notin stale /\ o \notin JustTraded =>
             cache[o] = [status |-> status[o], filled |-> filled[o]]

CountersCopied ==
    /\ stats \in [Counters -> Nat] /\ hal_stats \in [Counters -> Nat]
    /\ taker = None /\ "stats" \notin stale => hal_stats = stats
    /\ \A k \in Counters \ {"orders_resting"} : hal_stats[k] <= stats[k]

CacheInv == (\A o \in OrderId : OrderCached(o)) /\ CountersCopied

\* What Python decodes of a node is what the node says.
LEMMA NativeStateFacts ==
    ASSUME BookTypes', NEW o \in OrderId
    PROVE  NativeState(o)' = [status |-> status'[o], filled |-> filled'[o]]
<1>1. PICK node : node = Node(o)'
  OBVIOUS
<1>2. node.status = status'[o] /\ node.filled_quantity = filled'[o]
  BY <1>1 DEF Node
<1>3. node.status \in DOMAIN STATUS_TO_WIRE
  BY <1>2 DEF BookTypes
<1>4. /\ DecodeOrder(CppEncodeOrder(node)).status = node.status
      /\ DecodeOrder(CppEncodeOrder(node)).filled_quantity = node.filled_quantity
  BY <1>3, NativeStateDecoded
<1>5. NativeState(o)' = [status |-> DecodeOrder(CppEncodeOrder(node)).status,
                         filled |-> DecodeOrder(CppEncodeOrder(node)).filled_quantity]
  BY <1>1 DEF NativeState
<1> QED BY <1>2, <1>4, <1>5

\* The numbers a result adds to the counters.
LEMMA ResultNumbers ==
    ASSUME BookTypes, NEW o
    PROVE  Len(TradesOf(o)) \in Nat /\ TotalFilled(TradesOf(o)) \in Nat
<1>1. PICK I : I = {i \in DOMAIN trades : trades[i].taker = o}
  OBVIOUS
<1>2. PICK len \in Nat : len = Len(trades) /\ DOMAIN trades = 1..len
  BY DEF BookTypes
<1>3. IsFiniteSet(1..len) /\ Cardinality(1..len) = len
  BY FS_Interval
<1>4. I \subseteq 1..len
  BY <1>1, <1>2
<1>5. PICK n : n = Cardinality(I)
  OBVIOUS
<1>6. n \in Nat /\ n <= len
  BY <1>3, <1>4, <1>5, FS_Subset, FS_CardinalityType
<1>7. PICK mine : mine = SubSeq(trades, len - n + 1, len)
  OBVIOUS
<1>8. \A i \in 1..n : mine[i] = trades[len - n + i]
  BY <1>2, <1>6, <1>7 DEF BookTypes
<1>9. \A i \in 1..n : mine[i] \in Trade
  <2>1. \A i \in 1..n : len - n + i \in 1..len
    BY <1>6
  <2>2. \A j \in 1..len : trades[j] \in Trade
    BY <1>2 DEF BookTypes
  <2> QED BY <2>1, <2>2, <1>8
<1>10. PICK ts : ts = [i \in 1..n |->
          [maker |-> mine[i].maker, taker |-> mine[i].taker, price |-> mine[i].price,
           quantity |-> mine[i].quantity, aggressor_side |-> req[o].side]]
  OBVIOUS
<1>11. TradesOf(o) = ts
  BY <1>1, <1>2, <1>5, <1>7, <1>10 DEF TradesOf
<1>12. ts \in Seq({ts[i] : i \in 1..n}) /\ DOMAIN ts = 1..n
  <2>1. DOMAIN ts = 1..n /\ ts = [i \in 1..n |-> ts[i]]
    BY <1>10
  <2> QED BY <2>1, <1>6
<1>13. \A i \in 1..n : ts[i].quantity \in Nat
  BY <1>9, <1>10 DEF Trade
<1>14. PICK f : f = [i \in DOMAIN ts |-> ts[i].quantity]
  OBVIOUS
<1>15. DOMAIN f = 1..n /\ \A i \in 1..n : f[i] \in Int
  BY <1>12, <1>13, <1>14
<1>16. IsFiniteSet(1..n)
  BY <1>6, FS_Interval
<1>17. SumFunctionOnSet(f, 1..n) \in Int
  BY <1>15, <1>16, SumSplit
<1>18. SumFunction(f) = SumFunctionOnSet(f, 1..n)
  BY <1>15 DEF SumFunction
<1>19. TotalFilled(ts) = Low(4, SumFunction(f))
  BY <1>14 DEF TotalFilled
<1>20. TotalFilled(ts) \in Nat
  BY <1>17, <1>18, <1>19, LowFacts
<1> QED BY <1>11, <1>12, <1>20

\* What a step does to the counters of the engine.
Counted ==
    /\ stats' \in [Counters -> Nat]
    /\ \A k \in Counters \ {"orders_resting"} : stats[k] <= stats'[k]

\* One counter goes up.
LEMMA CountUp ==
    ASSUME NEW f \in [Counters -> Nat], NEW c \in Counters, NEW n \in Nat,
           NEW g, g = [f EXCEPT ![c] = f[c] + n]
    PROVE  g \in [Counters -> Nat] /\ \A k \in Counters : f[k] <= g[k]
OBVIOUS

\* Every counter but orders_resting only ever grows.
LEMMA StatsGrow ==
    ASSUME BookTypes, stats \in [Counters -> Nat], [HALNext]_halVars
    PROVE  Counted
<1>1. CASE stats' = stats
  BY <1>1 DEF Counted
<1>2. ASSUME NEW order, NEW path, RejectOrder(order, path) PROVE Counted
  <2>1. stats' = [stats EXCEPT !.orders_received = @ + 1, !.orders_rejected = @ + 1]
    BY <1>2 DEF RejectOrder
  <2>2. PICK f : f = [stats EXCEPT !["orders_received"] = stats["orders_received"] + 1]
    OBVIOUS
  <2>3. f \in [Counters -> Nat] /\ \A k \in Counters : stats[k] <= f[k]
    BY <2>2, CountUp DEF Counters
  <2>4. stats' = [f EXCEPT !["orders_rejected"] = f["orders_rejected"] + 1]
    BY <2>1, <2>2
  <2>5. PICK g : g = stats'
    OBVIOUS
  <2>6. g \in [Counters -> Nat] /\ \A k \in Counters : f[k] <= g[k]
    BY <2>3, <2>4, <2>5, CountUp DEF Counters
  <2>7. \A k \in Counters : stats[k] <= g[k]
    BY <2>3, <2>6
  <2> QED BY <2>5, <2>6, <2>7 DEF Counted
<1>3. ASSUME NEW order, NEW path, AcceptOrder(order, path) PROVE Counted
  BY <1>3 DEF AcceptOrder, Counted, Counters
<1>4. CASE SubmitReturns
  <2>1. PICK a \in Nat, b \in Nat, c \in Nat, d \in Nat :
          stats' = [stats EXCEPT !.orders_resting = @ + a, !.orders_matched = @ + b,
                                 !.trades_executed = @ + c, !.total_volume = @ + d]
    <3>1. PICK r : r = Result(taker)
      OBVIOUS
    <3>2. PICK a \in Nat : a = IF r.resting THEN 1 ELSE 0
      OBVIOUS
    <3>3. PICK b \in Nat : b = IF r.trades # <<>> THEN 1 ELSE 0
      OBVIOUS
    <3>4. r.trades = TradesOf(taker) /\ r.total_filled = TotalFilled(TradesOf(taker))
      BY <3>1 DEF Result
    <3>5. PICK c \in Nat, d \in Nat : c = Len(r.trades) /\ d = r.total_filled
      BY <3>4, ResultNumbers
    <3>6. stats' = [stats EXCEPT !.orders_resting = @ + a, !.orders_matched = @ + b,
                                 !.trades_executed = @ + c, !.total_volume = @ + d]
      BY <3>1, <3>2, <3>3, <3>5, <1>4 DEF SubmitReturns
    <3> QED BY <3>6
  <2>2. PICK f : f = [stats EXCEPT !["orders_resting"] = stats["orders_resting"] + a]
    OBVIOUS
  <2>3. f \in [Counters -> Nat] /\ \A k \in Counters : stats[k] <= f[k]
    BY <2>2, CountUp DEF Counters
  <2>4. PICK g : g = [f EXCEPT !["orders_matched"] = f["orders_matched"] + b]
    OBVIOUS
  <2>5. g \in [Counters -> Nat] /\ \A k \in Counters : f[k] <= g[k]
    BY <2>3, <2>4, CountUp DEF Counters
  <2>6. PICK h : h = [g EXCEPT !["trades_executed"] = g["trades_executed"] + c]
    OBVIOUS
  <2>7. h \in [Counters -> Nat] /\ \A k \in Counters : g[k] <= h[k]
    BY <2>5, <2>6, CountUp DEF Counters
  <2>8. PICK j : j = [h EXCEPT !["total_volume"] = h["total_volume"] + d]
    OBVIOUS
  <2>9. j \in [Counters -> Nat] /\ \A k \in Counters : h[k] <= j[k]
    BY <2>7, <2>8, CountUp DEF Counters
  <2>10. stats' = j
    BY <2>1, <2>2, <2>4, <2>6, <2>8
  <2>11. \A k \in Counters : stats[k] <= j[k]
    BY <2>3, <2>5, <2>7, <2>9
  <2> QED BY <2>9, <2>10, <2>11 DEF Counted
<1>5. ASSUME NEW o, NativeCancel(o) PROVE Counted
  <2>1. stats' = [stats EXCEPT !.orders_cancelled = @ + 1,
                               !.orders_resting = IF @ > 0 THEN @ - 1 ELSE @]
    BY <1>5 DEF NativeCancel
  <2>2. PICK f : f = [stats EXCEPT !["orders_cancelled"] = stats["orders_cancelled"] + 1]
    OBVIOUS
  <2>3. f \in [Counters -> Nat] /\ \A k \in Counters : stats[k] <= f[k]
    BY <2>2, CountUp DEF Counters
  <2>4. PICK n : n = IF f["orders_resting"] > 0 THEN f["orders_resting"] - 1
                     ELSE f["orders_resting"]
    OBVIOUS
  <2>5. n \in Nat
    BY <2>3, <2>4 DEF Counters
  <2>6. stats' = [f EXCEPT !["orders_resting"] = n]
    BY <2>1, <2>2, <2>4
  <2>7. stats' \in [Counters -> Nat] /\ \A k \in Counters \ {"orders_resting"} : stats'[k] = f[k]
    BY <2>3, <2>5, <2>6
  <2> QED BY <2>3, <2>7 DEF Counted
<1>6. CASE UNCHANGED halVars
  BY <1>1, <1>6 DEF halVars
<1>7. CASE RegisterSymbol
  BY <1>1, <1>7 DEF RegisterSymbol
<1>8. ASSUME NEW order, SubmitRaises(order) PROVE Counted
  BY <1>6, <1>8 DEF SubmitRaises
<1>9. CASE MatchStep
  BY <1>1, <1>9 DEF MatchStep
<1>10. ASSUME NEW o, CancelMisses(o) PROVE Counted
  BY <1>6, <1>10 DEF CancelMisses
<1>11. ASSUME NEW o, GetOrder(o) PROVE Counted
  BY <1>1, <1>11 DEF GetOrder
<1>12. ASSUME NEW o, CancelOrder(o) \/ CancelOrderBytes(o) PROVE Counted
  BY <1>5, <1>12 DEF CancelOrder, CancelOrderBytes
<1> QED BY <1>2, <1>3, <1>4, <1>6, <1>7, <1>8, <1>9, <1>10, <1>11, <1>12 DEF HALNext

\* The counters of Python are left alone or copied.
LEMMA CountersKeep ==
    ASSUME CountersCopied, Counted, hal_stats' = hal_stats \/ hal_stats' = stats',
           taker' = None /\ "stats" \notin stale' => hal_stats' = stats'
    PROVE  CountersCopied'
<1>1. stats' \in [Counters -> Nat] /\ hal_stats' \in [Counters -> Nat]
  BY DEF CountersCopied, Counted
<1>2. ASSUME NEW k \in Counters \ {"orders_resting"} PROVE hal_stats'[k] <= stats'[k]
  <2>1. hal_stats[k] <= stats[k] /\ stats[k] <= stats'[k] /\ hal_stats[k] \in Nat
        /\ stats[k] \in Nat /\ stats'[k] \in Nat
    BY <1>1 DEF CountersCopied, Counted
  <2> QED BY <2>1
<1> QED BY <1>1, <1>2 DEF CountersCopied

\* A cached order that the step leaves alone.
LEMMA KeptOrder ==
    ASSUME BookTypes, BookTypes', NEW o \in OrderId, OrderCached(o), cache'[o] = cache[o],
           cache[o] # None => req'[o] # None /\ o # taker' /\ filled[o] <= filled'[o],
           cache[o] # None /\ o \notin stale' /\ o \notin JustTraded' =>
             /\ o \notin stale /\ o \notin JustTraded
             /\ status'[o] = status[o] /\ filled'[o] = filled[o]
    PROVE  OrderCached(o)'
<1>1. SUFFICES ASSUME cache[o] # None
               PROVE  /\ req'[o] # None /\ o # taker'
                      /\ cache'[o].filled \in Nat /\ cache'[o].filled <= filled'[o]
                      /\ o \notin stale' /\ o \notin JustTraded' =>
                           cache'[o] = [status |-> status'[o], filled |-> filled'[o]]
  BY DEF OrderCached
<1>2. filled[o] \in Nat /\ filled'[o] \in Nat
  BY DEF BookTypes
<1>3. cache[o].filled \in Nat /\ cache[o].filled <= filled[o]
  BY <1>1 DEF OrderCached
<1>4. cache'[o].filled \in Nat /\ cache'[o].filled <= filled'[o]
  BY <1>1, <1>2, <1>3
<1>5. o \notin stale' /\ o \notin JustTraded' =>
        cache'[o] = [status |-> status'[o], filled |-> filled'[o]]
  BY <1>1 DEF OrderCached
<1> QED BY <1>1, <1>4, <1>5

\* An order that Python reads again.
LEMMA FreshOrder ==
    ASSUME BookTypes', NEW o \in OrderId, cache'[o] = NativeState(o)',
           req'[o] # None, o # taker'
    PROVE  OrderCached(o)'
<1>1. cache'[o] = [status |-> status'[o], filled |-> filled'[o]]
  BY NativeStateFacts
<1>2. filled'[o] \in Nat
  BY DEF BookTypes
<1>3. cache'[o].filled = filled'[o]
  BY <1>1
<1>4. cache'[o].filled \in Nat /\ cache'[o].filled <= filled'[o]
  BY <1>2, <1>3
<1> QED BY <1>1, <1>4 DEF OrderCached

\* A call that leaves the book alone, and the cache.
LEMMA CacheIdle ==
    ASSUME BookTypes, CacheInv, UNCHANGED <<vars, cache>>,
           \A o \in OrderId : o \notin stale' => o \notin stale
    PROVE  \A o \in OrderId : OrderCached(o)'
<1>1. /\ req' = req /\ filled' = filled /\ status' = status /\ taker' = taker
      /\ trades' = trades /\ cache' = cache /\ link' = link /\ book' = book
      /\ cancel_map' = cancel_map /\ sequence' = sequence /\ stamp' = stamp
  BY DEF vars
<1>2. JustTraded' = JustTraded
  BY <1>1 DEF JustTraded, Makers
<1>3. BookTypes'
  BY <1>1 DEF BookTypes
<1> SUFFICES ASSUME NEW o \in OrderId PROVE OrderCached(o)'
  OBVIOUS
<1>4. OrderCached(o)
  BY DEF CacheInv
<1>5. cache[o] # None => req[o] # None /\ o # taker
  BY <1>4 DEF OrderCached
<1>6. filled[o] <= filled[o]
  BY DEF BookTypes
<1> QED BY <1>1, <1>2, <1>3, <1>4, <1>5, <1>6, KeptOrder

\* A new order is not cached yet.
LEMMA CacheAccept ==
    ASSUME BookInv, BookTypes', CacheInv, NEW order \in Submission, NEW path,
           AcceptOrder(order, path)
    PROVE  taker' # None /\ \A n \in OrderId : OrderCached(n)'
<1>1. BookTypes
  BY DEF BookInv
<1>2. PICK o \in OrderId : \E r \in Request :
        /\ req[o] = None
        /\ r.order_type = "LIMIT" => r.price \in Price
        /\ Submit(o, r)
  BY AcceptedOrder
<1>3. PICK r \in Request : req[o] = None /\ Submit(o, r)
  BY <1>2
<1>4. \A n \in OrderId : n # o => /\ req'[n] = req[n] /\ filled'[n] = filled[n]
                                  /\ status'[n] = status[n]
  BY <1>1, <1>3 DEF Submit, BookTypes
<1>5. taker' = o /\ taker = None /\ cache' = cache /\ stale' = stale
  BY <1>3 DEF Submit, AcceptOrder
<1>6. o # None
  BY NoneAssumption
<1>7. JustTraded = {}
  BY <1>5 DEF JustTraded
<1>8. ASSUME NEW n \in OrderId PROVE OrderCached(n)'
  <2>1. OrderCached(n)
    BY DEF CacheInv
  <2>2. cache[n] # None => req[n] # None /\ n # o
    BY <2>1, <1>3 DEF OrderCached
  <2>3. filled[n] <= filled[n]
    BY <1>1 DEF BookTypes
  <2> QED BY <2>1, <2>2, <2>3, <1>1, <1>4, <1>5, <1>7, KeptOrder
<1> QED BY <1>5, <1>6, <1>8

\* A fill changes the order being matched, and one that it now has traded with.
LEMMA CacheMatch ==
    ASSUME BookInv, BookTypes', CacheInv, MatchStep
    PROVE  taker' # None /\ \A n \in OrderId : OrderCached(n)'
<1>1. BookTypes /\ OrdersSound /\ Fill
  BY DEF BookInv, MatchStep
<1>2. PICK s \in Side, p \in Price, r \in OrderId, q \in Nat : FillOf(s, p, r, q)
  BY <1>1, FillFacts
<1>3. /\ filled'[taker] = filled[taker] + q /\ filled'[r] = filled[r] + q
      /\ \A n \in OrderId : n # taker /\ n # r => filled'[n] = filled[n]
  BY <1>1, <1>2, FillOrders
<1>4. \A n \in OrderId : n # r => status'[n] = status[n]
  BY <1>1, <1>2 DEF FillOf, BookTypes
<1>5. taker \in OrderId /\ taker # None /\ taker' = taker /\ req' = req
  BY <1>2, NoneAssumption DEF FillOf
<1>6. cache' = cache /\ stale' = stale
  BY DEF MatchStep
<1>7. PICK t : t = [maker |-> r, taker |-> taker, price |-> req[r].price, quantity |-> q]
  OBVIOUS
<1>8. trades' = Append(trades, t) /\ t.maker = r /\ t.taker = taker
  BY <1>2, <1>7 DEF FillOf
<1>9. t \in ToSet(trades') /\ \A u \in ToSet(trades) : u \in ToSet(trades')
  <2>1. PICK len \in Nat : len = Len(trades)
    BY <1>1 DEF BookTypes
  <2>2. /\ DOMAIN trades = 1..len /\ DOMAIN trades' = 1..len + 1
        /\ trades'[len + 1] = t /\ \A i \in 1..len : trades'[i] = trades[i]
    BY <2>1, <1>1, <1>8 DEF BookTypes
  <2>3. len + 1 \in DOMAIN trades' /\ \A i \in DOMAIN trades : i \in DOMAIN trades'
    BY <2>2
  <2>4. t \in ToSet(trades')
    BY <2>2, <2>3 DEF ToSet
  <2>5. ASSUME NEW u \in ToSet(trades) PROVE u \in ToSet(trades')
    <3>1. PICK i \in DOMAIN trades : u = trades[i]
      BY DEF ToSet
    <3>2. i \in DOMAIN trades' /\ u = trades'[i]
      BY <3>1, <2>2, <2>3
    <3> QED BY <3>2 DEF ToSet
  <2> QED BY <2>4, <2>5
<1>10. PICK M : M = JustTraded'
  OBVIOUS
<1>11. M = {u.maker : u \in {v \in ToSet(trades') : v.taker = taker}}
  BY <1>5, <1>10 DEF JustTraded, Makers
<1>12. r \in M
  BY <1>8, <1>9, <1>11
<1>13. \A n \in JustTraded : n \in M
  BY <1>5, <1>9, <1>11 DEF JustTraded, Makers
<1>14. ASSUME NEW n \in OrderId PROVE OrderCached(n)'
  <2>1. OrderCached(n)
    BY DEF CacheInv
  <2>2. cache[n] # None => req[n] # None /\ n # taker
    BY <2>1 DEF OrderCached
  <2>3. filled[n] \in Nat
    BY <1>1 DEF BookTypes
  <2>4. n # taker => filled[n] <= filled'[n]
    BY <2>3, <1>3
  <2>5. n \notin JustTraded' => n # r /\ n \notin JustTraded
    BY <1>10, <1>12, <1>13
  <2> QED BY <2>1, <2>2, <2>4, <2>5, <1>1, <1>3, <1>4, <1>5, <1>6, KeptOrder
<1> QED BY <1>5, <1>14

\* Between calls there is no order in progress.
LEMMA IdleTraded == taker' = None => JustTraded' = {}
BY DEF JustTraded

\* submit returns: its order and those it met are read again, or marked.
LEMMA CacheReturns ==
    ASSUME BookInv, BookTypes', CacheInv, SubmitReturns
    PROVE  /\ \A n \in OrderId : OrderCached(n)'
           /\ hal_stats' = stats' \/ (hal_stats' = hal_stats /\ "stats" \in stale')
<1>1. BookTypes /\ OrdersSound /\ Finish
  BY DEF BookInv, SubmitReturns
<1>2. PICK o : o = taker
  OBVIOUS
<1>3. o \in OrderId /\ o # None /\ req[o] # None
  BY <1>1, <1>2 DEF Finish, BookTypes, OrdersSound
<1>4. taker' = None /\ req' = req /\ filled' = filled
  BY <1>1 DEF Finish
<1>5. \A n \in OrderId : n # o => status'[n] = status[n]
  BY <1>1, <1>2 DEF Finish, RestOrder, BookTypes
<1>6. JustTraded' = {} /\ JustTraded = Makers(o)
  BY <1>2, <1>3, <1>4, IdleTraded DEF JustTraded
<1>7. \A n \in OrderId : filled[n] <= filled'[n] /\ n # None
  BY <1>1, <1>4, NoneAssumption DEF BookTypes
<1>8. \A n \in OrderId : OrderCached(n) /\ (cache[n] # None => req[n] # None /\ n # o)
  BY <1>2 DEF CacheInv, OrderCached
<1>9. CASE via = "object"
  <2>1. ProjectSubmission
    BY <1>9 DEF SubmitReturns
  <2>2. /\ \A n \in OrderId : cache'[n] =
             IF n = o \/ (n \in Makers(o) /\ cache[n] # None) THEN NativeState(n)' ELSE cache[n]
        /\ hal_stats' = stats'
        /\ stale' = stale \ ({o, "feed", "stats"} \union Makers(o))
    BY <2>1, <1>2 DEF ProjectSubmission, CopyNativeCounters
  <2>3. \A n \in OrderId : n # "feed" /\ n # "stats"
    BY OrderIdAssumption
  <2>4. ASSUME NEW n \in OrderId PROVE OrderCached(n)'
    <3>1. CASE n = o \/ (n \in Makers(o) /\ cache[n] # None)
      <4>1. cache'[n] = NativeState(n)' /\ req'[n] # None /\ n # taker'
        BY <3>1, <2>2, <1>3, <1>4, <1>7, <1>8
      <4> QED BY <4>1, FreshOrder
    <3>2. CASE ~(n = o \/ (n \in Makers(o) /\ cache[n] # None))
      <4>1. cache'[n] = cache[n] /\ n # o
        BY <3>2, <2>2
      <4>2. cache[n] # None /\ n \notin stale' => n \notin stale /\ n \notin JustTraded
        BY <3>2, <2>2, <2>3, <1>6
      <4>3. status'[n] = status[n] /\ filled'[n] = filled[n]
        BY <4>1, <1>4, <1>5
      <4>4. cache[n] # None => req'[n] # None /\ n # taker' /\ filled[n] <= filled'[n]
        BY <1>4, <1>7, <1>8
      <4>5. OrderCached(n)
        BY <1>8
      <4> QED BY <4>1, <4>2, <4>3, <4>4, <4>5, <1>1, KeptOrder
    <3> QED BY <3>1, <3>2
  <2> QED BY <2>2, <2>4
<1>10. CASE via # "object"
  <2>1. ReplyBytes
    BY <1>10 DEF SubmitReturns
  <2>2. /\ cache' = cache /\ hal_stats' = hal_stats
        /\ stale' = stale \union {"feed", "stats"} \union Makers(o)
    BY <2>1, <1>2 DEF ReplyBytes
  <2>3. ASSUME NEW n \in OrderId PROVE OrderCached(n)'
    <3>1. cache[n] # None /\ n \notin stale' => n \notin stale /\ n \notin JustTraded
      BY <2>2, <1>6
    <3>2. cache[n] # None => req'[n] # None /\ n # taker' /\ filled[n] <= filled'[n]
      BY <1>4, <1>7, <1>8
    <3>3. cache[n] # None => status'[n] = status[n] /\ filled'[n] = filled[n]
      BY <1>4, <1>5, <1>8
    <3>4. OrderCached(n)
      BY <1>8
    <3> QED BY <3>1, <3>2, <3>3, <3>4, <2>2, <1>1, KeptOrder
  <2> QED BY <2>2, <2>3
<1> QED BY <1>9, <1>10

\* A cancelled order is read again, or marked; so is an order that is asked for.
LEMMA CacheReads ==
    ASSUME BookTypes, OrdersSound, BookTypes', CacheInv, NEW o \in OrderId,
           taker = None, taker' = None, req' = req, filled' = filled,
           \A n \in OrderId : n # o => status'[n] = status[n],
           \/ /\ cache' = [n \in OrderId |-> IF n = o /\ cache[n] # None
                                             THEN NativeState(n)' ELSE cache[n]]
              /\ \A n \in OrderId : n # o /\ n \notin stale' => n \notin stale
           \/ cache' = cache /\ stale' = stale \union {o, "feed", "stats"}
    PROVE  \A n \in OrderId : OrderCached(n)'
<1> SUFFICES ASSUME NEW n \in OrderId PROVE OrderCached(n)'
  OBVIOUS
<1>1. OrderCached(n)
  BY DEF CacheInv
<1>2. filled[n] <= filled'[n] /\ filled'[n] = filled[n] /\ n # None
  BY NoneAssumption DEF BookTypes
<1>3. cache[n] # None => req'[n] # None /\ n # taker' /\ filled[n] <= filled'[n]
  BY <1>1, <1>2 DEF OrderCached
<1>4. JustTraded = {}
  BY DEF JustTraded
<1>5. CASE cache'[n] = NativeState(n)' /\ cache[n] # None
  BY <1>3, <1>5, FreshOrder
<1>6. CASE cache[n] = None /\ cache'[n] = cache[n]
  BY <1>1, <1>6, KeptOrder
<1>7. CASE cache'[n] = cache[n] /\ n # o
  <2>1. n \notin stale' => n \notin stale
    BY <1>7
  <2> QED BY <2>1, <1>1, <1>2, <1>3, <1>4, <1>7, KeptOrder
<1>8. CASE cache'[n] = cache[n] /\ n \in stale'
  BY <1>1, <1>3, <1>8, KeptOrder
<1>9. \/ cache'[n] = NativeState(n)' /\ cache[n] # None
      \/ cache[n] = None /\ cache'[n] = cache[n]
      \/ cache'[n] = cache[n] /\ n # o
      \/ cache'[n] = cache[n] /\ n \in stale'
  OBVIOUS
<1> QED BY <1>5, <1>6, <1>7, <1>8, <1>9

\* What CancelOrder, CancelOrderBytes and GetOrder have in common.
LEMMA CacheCalls ==
    ASSUME BookInv, BookTypes', CacheInv, NEW o \in OrderId,
           CancelOrder(o) \/ CancelOrderBytes(o) \/ GetOrder(o)
    PROVE  \A n \in OrderId : OrderCached(n)'
<1>1. BookTypes /\ OrdersSound
  BY DEF BookInv
<1>2. \A n \in OrderId : n # "feed" /\ n # "stats"
  BY OrderIdAssumption
<1>3. ASSUME CancelResting(o)
      PROVE  /\ taker = None /\ taker' = None /\ req' = req /\ filled' = filled
             /\ \A n \in OrderId : n # o => status'[n] = status[n]
  BY <1>1, <1>3 DEF CancelResting, BookTypes
<1>4. ASSUME Refresh({o})
      PROVE  cache' = [n \in OrderId |-> IF n = o /\ cache[n] # None
                                         THEN NativeState(n)' ELSE cache[n]]
  BY <1>4 DEF Refresh
<1>5. CASE CancelOrder(o)
  <2>1. CancelResting(o) /\ Refresh({o}) /\ stale' = stale \ {o, "feed", "stats"}
    BY <1>5 DEF CancelOrder, NativeCancel
  <2>2. \A n \in OrderId : n # o /\ n \notin stale' => n \notin stale
    BY <2>1, <1>2
  <2> QED BY <2>1, <2>2, <1>1, <1>3, <1>4, CacheReads
<1>6. CASE CancelOrderBytes(o)
  <2>1. CancelResting(o) /\ cache' = cache /\ stale' = stale \union {o, "feed", "stats"}
    BY <1>6 DEF CancelOrderBytes, NativeCancel
  <2> QED BY <2>1, <1>1, <1>3, CacheReads
<1>7. CASE GetOrder(o)
  <2>1. Refresh({o}) /\ stale' = stale \ {o}
    BY <1>7 DEF GetOrder
  <2>2. /\ taker = None /\ taker' = None /\ req' = req /\ filled' = filled
        /\ \A n \in OrderId : n # o => status'[n] = status[n]
    BY <1>7 DEF GetOrder, vars
  <2>3. \A n \in OrderId : n # o /\ n \notin stale' => n \notin stale
    BY <2>1
  <2> QED BY <2>1, <2>2, <2>3, <1>1, <1>4, CacheReads
<1> QED BY <1>5, <1>6, <1>7

\* The same of the counters.
LEMMA CountersCalls ==
    ASSUME CountersCopied, Counted, NEW o \in OrderId,
           CancelOrder(o) \/ CancelOrderBytes(o) \/ GetOrder(o)
    PROVE  CountersCopied'
<1>1. CASE CancelOrder(o)
  <2>1. hal_stats' = stats'
    BY <1>1 DEF CancelOrder, CopyNativeCounters
  <2> QED BY <2>1, CountersKeep
<1>2. CASE CancelOrderBytes(o)
  <2>1. hal_stats' = hal_stats /\ "stats" \in stale'
    BY <1>2 DEF CancelOrderBytes
  <2> QED BY <2>1, CountersKeep
<1>3. CASE GetOrder(o)
  <2>1. hal_stats' = hal_stats /\ stats' = stats /\ stale' = stale \ {o} /\ taker' = taker
    BY <1>3 DEF GetOrder, vars
  <2>2. "stats" \notin stale' => "stats" \notin stale
    BY <2>1, OrderIdAssumption
  <2>3. taker' = None /\ "stats" \notin stale' => hal_stats' = stats'
    BY <2>1, <2>2 DEF CountersCopied
  <2> QED BY <2>1, <2>3, CountersKeep
<1> QED BY <1>1, <1>2, <1>3

\* A call that leaves the book, the cache and the counters alone.
LEMMA CacheStutter ==
    ASSUME BookTypes, CacheInv, UNCHANGED <<vars, cache, stats, hal_stats, stale>>
    PROVE  CacheInv'
<1>1. \A o \in OrderId : OrderCached(o)'
  BY CacheIdle
<1>2. taker' = taker /\ stats' = stats /\ hal_stats' = hal_stats /\ stale' = stale
  BY DEF vars
<1>3. CountersCopied'
  BY <1>2 DEF CacheInv, CountersCopied
<1> QED BY <1>1, <1>3 DEF CacheInv

\* The steps of the backend, as far as Python's view is concerned.
LEMMA CacheStep ==
    ASSUME BookInv, CacheInv, [HALNext]_halVars
    PROVE  CacheInv'
<1>1. BookTypes /\ BookTypes'
  BY BookStep DEF BookInv
<1>2. CountersCopied /\ Counted
  <2>1. stats \in [Counters -> Nat]
    BY DEF CacheInv, CountersCopied
  <2> QED BY <2>1, <1>1, StatsGrow DEF CacheInv
<1>3. CASE UNCHANGED <<vars, cache, stats, hal_stats, stale>>
  BY <1>1, <1>3, CacheStutter
<1>4. CASE UNCHANGED halVars
  BY <1>3, <1>4 DEF halVars
<1>5. CASE RegisterSymbol
  BY <1>3, <1>5 DEF RegisterSymbol
<1>6. ASSUME NEW order, SubmitRaises(order) PROVE CacheInv'
  BY <1>4, <1>6 DEF SubmitRaises
<1>7. ASSUME NEW order, NEW path, RejectOrder(order, path) PROVE CacheInv'
  <2>1. \/ hal_stats' = stats' /\ stale' = stale \ {"stats"}
        \/ hal_stats' = hal_stats /\ stale' = stale \union {"stats"}
    BY <1>7 DEF RejectOrder, CopyNativeCounters
  <2>2. UNCHANGED <<vars, cache>>
    BY <1>7 DEF RejectOrder
  <2>3. \A o \in OrderId : o \notin stale' => o \notin stale
    BY <2>1, OrderIdAssumption
  <2>4. \A o \in OrderId : OrderCached(o)'
    BY <2>2, <2>3, <1>1, CacheIdle
  <2>5. CountersCopied'
    BY <2>1, <1>2, CountersKeep
  <2> QED BY <2>4, <2>5 DEF CacheInv
<1>8. ASSUME NEW path \in Path, NEW order \in Submissions[path], AcceptOrder(order, path)
      PROVE  CacheInv'
  <2>1. order \in Submission
    BY SubmissionsAssumption
  <2>2. taker' # None /\ \A n \in OrderId : OrderCached(n)'
    BY <2>1, <1>1, <1>8, CacheAccept
  <2>3. hal_stats' = hal_stats
    BY <1>8 DEF AcceptOrder
  <2>4. CountersCopied'
    BY <2>2, <2>3, <1>2, CountersKeep
  <2> QED BY <2>2, <2>4 DEF CacheInv
<1>9. CASE MatchStep
  <2>1. taker' # None /\ \A n \in OrderId : OrderCached(n)'
    BY <1>1, <1>9, CacheMatch
  <2>2. hal_stats' = hal_stats
    BY <1>9 DEF MatchStep
  <2>3. CountersCopied'
    BY <2>1, <2>2, <1>2, CountersKeep
  <2> QED BY <2>1, <2>3 DEF CacheInv
<1>10. CASE SubmitReturns
  <2>1. /\ \A n \in OrderId : OrderCached(n)'
        /\ hal_stats' = stats' \/ (hal_stats' = hal_stats /\ "stats" \in stale')
    BY <1>1, <1>10, CacheReturns
  <2>2. CountersCopied'
    BY <2>1, <1>2, CountersKeep
  <2> QED BY <2>1, <2>2 DEF CacheInv
<1>11. ASSUME NEW o, CancelMisses(o) PROVE CacheInv'
  BY <1>4, <1>11 DEF CancelMisses
<1>12. ASSUME NEW o \in OrderId, CancelOrder(o) \/ CancelOrderBytes(o) \/ GetOrder(o)
       PROVE  CacheInv'
  <2>1. \A n \in OrderId : OrderCached(n)'
    BY <1>1, <1>12, CacheCalls
  <2>2. CountersCopied'
    BY <1>2, <1>12, CountersCalls
  <2> QED BY <2>1, <2>2 DEF CacheInv
<1> QED BY <1>4, <1>5, <1>6, <1>7, <1>8, <1>9, <1>10, <1>11, <1>12 DEF HALNext

\* At first nothing is cached and nothing is counted.
LEMMA CacheInitInv == HALInit => CacheInv
<1> SUFFICES ASSUME HALInit PROVE CacheInv
  OBVIOUS
<1>1. stats = [k \in Counters |-> 0] /\ hal_stats = stats
  BY DEF HALInit
<1>2. CountersCopied
  <2>1. stats \in [Counters -> Nat] /\ \A k \in Counters : stats[k] <= stats[k]
    BY <1>1
  <2> QED BY <2>1, <1>1 DEF CountersCopied
<1>3. \A o \in OrderId : OrderCached(o)
  BY DEF HALInit, OrderCached
<1> QED BY <1>2, <1>3 DEF CacheInv

\* Between calls, what Python reports of orders and counters is what the engine holds,
\* or is behind it where a call on the bytes path went past Python.
THEOREM CacheStaysNative == HALSpec => []CacheIsNative
<1>1. HALInit => BookInv /\ CacheInv
  BY BookInitInv, CacheInitInv DEF HALInit
<1>2. BookInv /\ CacheInv /\ [HALNext]_halVars => BookInv' /\ CacheInv'
  BY BookStep, CacheStep
<1>3. BookInv /\ CacheInv => CacheIsNative
  <2> SUFFICES ASSUME CacheInv, taker = None
               PROVE  /\ \A o \in OrderId : cache[o] # None =>
                           IF o \notin stale
                           THEN cache[o] = [status |-> status[o], filled |-> filled[o]]
                           ELSE cache[o].filled <= filled[o]
                      /\ "stats" \notin stale => hal_stats = stats
                      /\ \A k \in Counters \ {"orders_resting"} : hal_stats[k] <= stats[k]
    BY DEF CacheIsNative
  <2>1. JustTraded = {}
    BY DEF JustTraded
  <2>2. \A o \in OrderId : cache[o] # None =>
          IF o \notin stale
          THEN cache[o] = [status |-> status[o], filled |-> filled[o]]
          ELSE cache[o].filled <= filled[o]
    BY <2>1 DEF CacheInv, OrderCached
  <2> QED BY <2>2 DEF CacheInv, CountersCopied
<1> QED BY <1>1, <1>2, <1>3, PTL DEF HALSpec
-----------------------------------------------------------------------------
(* The frames of the two languages.                                        *)

\* A frame that has each field of v where the layout puts it, and nothing else, is
\* the one Pack makes.
LEMMA PackIs ==
    ASSUME NEW layout, NEW v, NEW E, NEW frame,
           \A a, b \in DOMAIN v : layout[a] = layout[b] => a = b,
           \A name \in DOMAIN v : layout[name] \in E,
           \A e \in E : \E name \in DOMAIN v : e = layout[name],
           frame = [e \in E |-> frame[e]],
           \A name \in DOMAIN v : frame[layout[name]] = v[name]
    PROVE  Pack(layout, v) = frame
<1>1. \A name \in DOMAIN v : Pack(layout, v)[layout[name]] = v[name]
  BY PackFacts
<1>2. Pack(layout, v) = [e \in E |-> Pack(layout, v)[e]]
  <2>1. E = {layout[name] : name \in DOMAIN v}
    OBVIOUS
  <2> QED BY <2>1 DEF Pack
<1>3. ASSUME NEW e \in E PROVE Pack(layout, v)[e] = frame[e]
  <2>1. PICK name \in DOMAIN v : e = layout[name]
    OBVIOUS
  <2> QED BY <1>1, <2>1
<1> QED BY <1>2, <1>3

\* Each enumeration has the same bytes in both languages, and each byte one meaning.
LEMMA BytesAgree ==
    /\ \A k \in DOMAIN SIDE_TO_WIRE : CppByte("side", k) = SIDE_TO_WIRE[k]
    /\ \A k \in DOMAIN TYPE_TO_WIRE : CppByte("order_type", k) = TYPE_TO_WIRE[k]
    /\ \A k \in DOMAIN TIF_TO_WIRE : CppByte("time_in_force", k) = TIF_TO_WIRE[k]
    /\ \A k \in DOMAIN STATUS_TO_WIRE : CppByte("status", k) = STATUS_TO_WIRE[k]
    /\ \A k \in DOMAIN SIDE_TO_WIRE : FromWire(SIDE_TO_WIRE, SIDE_TO_WIRE[k]) = k
    /\ \A k \in DOMAIN STATUS_TO_WIRE : FromWire(STATUS_TO_WIRE, STATUS_TO_WIRE[k]) = k
<1>1. \A k \in DOMAIN SIDE_TO_WIRE : CppByte("side", k) = SIDE_TO_WIRE[k]
  BY DEF CppByte, CppEnums, SIDE_TO_WIRE
<1>2. \A k \in DOMAIN TYPE_TO_WIRE : CppByte("order_type", k) = TYPE_TO_WIRE[k]
  BY DEF CppByte, CppEnums, TYPE_TO_WIRE
<1>3. \A k \in DOMAIN TIF_TO_WIRE : CppByte("time_in_force", k) = TIF_TO_WIRE[k]
  BY DEF CppByte, CppEnums, TIF_TO_WIRE
<1>4. ASSUME NEW k \in DOMAIN STATUS_TO_WIRE PROVE CppByte("status", k) = STATUS_TO_WIRE[k]
  <2>1. k \in {"PENDING", "OPEN", "PARTIALLY_FILLED", "FILLED", "CANCELLED", "REJECTED"}
    BY <1>4 DEF STATUS_TO_WIRE
  <2> QED BY <2>1 DEF CppByte, CppEnums, STATUS_TO_WIRE
<1>5. \A a, b \in DOMAIN SIDE_TO_WIRE : SIDE_TO_WIRE[a] = SIDE_TO_WIRE[b] => a = b
  BY DEF SIDE_TO_WIRE
<1>6. \A a, b \in DOMAIN STATUS_TO_WIRE : STATUS_TO_WIRE[a] = STATUS_TO_WIRE[b] => a = b
  BY DEF STATUS_TO_WIRE
<1>7. \A k \in DOMAIN SIDE_TO_WIRE : FromWire(SIDE_TO_WIRE, SIDE_TO_WIRE[k]) = k
  BY <1>5 DEF FromWire
<1>8. \A k \in DOMAIN STATUS_TO_WIRE : FromWire(STATUS_TO_WIRE, STATUS_TO_WIRE[k]) = k
  BY <1>6 DEF FromWire
<1> QED BY <1>1, <1>2, <1>3, <1>4, <1>7, <1>8

\* The layout of a trade frame.
LEMMA TradeLayout ==
    /\ TradeFormat["price"] = <<16, 8>>
    /\ TradeFormat["quantity"] = <<24, 4>>
    /\ TradeFormat["aggressor_side"] = <<28, 1>>
    /\ TradeFormat["maker_hi"] = <<48, 8>>
    /\ TradeFormat["maker_lo"] = <<56, 8>>
<1>1. PICK format : format =
        <<<<"trade_id", 16>>, <<"price", 8>>, <<"quantity", 4>>,
          <<"aggressor_side", 1>>, <<"x", 3>>, <<"timestamp_ns", 8>>,
          <<"sequence", 8>>, <<"maker_hi", 8>>, <<"maker_lo", 8>>>>
  OBVIOUS
<1>2. PICK offset : offset = <<0, 16, 24, 28, 29, 32, 40, 48, 56>>
  OBVIOUS
<1>3. IsFormat(format, 9)
  BY <1>1 DEF IsFormat
<1>4. IsOffset(offset, format)
  <2>1. DOMAIN offset = 1..9 /\ offset = [i \in 1..9 |-> offset[i]]
    BY <1>2
  <2>2. \A i \in 1..9 : offset[i] = IF i = 1 THEN 0 ELSE offset[i - 1] + format[i - 1][2]
    BY <1>1, <1>2
  <2> QED BY <2>1, <2>2, <1>3 DEF IsOffset, IsFormat
<1>5. PutsAt(Layout(format), format, offset, 9)
  BY <1>3, <1>4, LayoutFacts
<1>6. TradeFormat = Layout(format)
  BY <1>1 DEF TradeFormat
<1>7. PutsAt(TradeFormat, format, offset, 9)
  BY <1>5, <1>6
<1>8. \A i \in 1..9 : TradeFormat[format[i][1]] = <<offset[i], format[i][2]>>
  BY ONLY <1>7 DEF PutsAt
<1> QED BY ONLY <1>1, <1>2, <1>8

\* The layout of the header of a match result.
LEMMA HeaderLayout ==
    /\ HeaderFormat["trade_count"] = <<0, 2>>
    /\ HeaderFormat["total_filled"] = <<2, 4>>
    /\ HeaderFormat["status"] = <<6, 1>>
    /\ HeaderFormat["is_resting"] = <<7, 1>>
<1>1. PICK format : format =
        <<<<"trade_count", 2>>, <<"total_filled", 4>>, <<"status", 1>>,
          <<"is_resting", 1>>>>
  OBVIOUS
<1>2. PICK offset : offset = <<0, 2, 6, 7>>
  OBVIOUS
<1>3. IsFormat(format, 4)
  BY <1>1 DEF IsFormat
<1>4. IsOffset(offset, format)
  <2>1. DOMAIN offset = 1..4 /\ offset = [i \in 1..4 |-> offset[i]]
    BY <1>2
  <2>2. \A i \in 1..4 : offset[i] = IF i = 1 THEN 0 ELSE offset[i - 1] + format[i - 1][2]
    BY <1>1, <1>2
  <2> QED BY <2>1, <2>2, <1>3 DEF IsOffset, IsFormat
<1>5. PutsAt(Layout(format), format, offset, 4)
  BY <1>3, <1>4, LayoutFacts
<1>6. HeaderFormat = Layout(format)
  BY <1>1 DEF HeaderFormat
<1>7. PutsAt(HeaderFormat, format, offset, 4)
  BY <1>5, <1>6
<1>8. \A i \in 1..4 : HeaderFormat[format[i][1]] = <<offset[i], format[i][2]>>
  BY ONLY <1>7 DEF PutsAt
<1> QED BY ONLY <1>1, <1>2, <1>8

\* The layout of the header of a snapshot.
LEMMA SnapshotLayout ==
    /\ SnapshotFormat["symbol"] = <<0, 6>>
    /\ SnapshotFormat["bid_count"] = <<6, 2>>
    /\ SnapshotFormat["ask_count"] = <<8, 2>>
    /\ SnapshotFormat["sequence"] = <<12, 4>>
<1>1. PICK format : format =
        <<<<"symbol", 6>>, <<"bid_count", 2>>, <<"ask_count", 2>>, <<"x", 2>>,
          <<"sequence", 4>>, <<"timestamp_ns", 8>>>>
  OBVIOUS
<1>2. PICK offset : offset = <<0, 6, 8, 10, 12, 16>>
  OBVIOUS
<1>3. IsFormat(format, 6)
  BY <1>1 DEF IsFormat
<1>4. IsOffset(offset, format)
  <2>1. DOMAIN offset = 1..6 /\ offset = [i \in 1..6 |-> offset[i]]
    BY <1>2
  <2>2. \A i \in 1..6 : offset[i] = IF i = 1 THEN 0 ELSE offset[i - 1] + format[i - 1][2]
    BY <1>1, <1>2
  <2> QED BY <2>1, <2>2, <1>3 DEF IsOffset, IsFormat
<1>5. PutsAt(Layout(format), format, offset, 6)
  BY <1>3, <1>4, LayoutFacts
<1>6. SnapshotFormat = Layout(format)
  BY <1>1 DEF SnapshotFormat
<1>7. PutsAt(SnapshotFormat, format, offset, 6)
  BY <1>5, <1>6
<1>8. \A i \in 1..6 : SnapshotFormat[format[i][1]] = <<offset[i], format[i][2]>>
  BY ONLY <1>7 DEF PutsAt
<1> QED BY ONLY <1>1, <1>2, <1>8

\* The layout of a level of a snapshot.
LEMMA LevelLayout ==
    /\ LevelFormat["price"] = <<0, 8>>
    /\ LevelFormat["quantity"] = <<8, 4>>
    /\ LevelFormat["order_count"] = <<12, 4>>
<1>1. PICK format : format = <<<<"price", 8>>, <<"quantity", 4>>, <<"order_count", 4>>>>
  OBVIOUS
<1>2. PICK offset : offset = <<0, 8, 12>>
  OBVIOUS
<1>3. IsFormat(format, 3)
  BY <1>1 DEF IsFormat
<1>4. IsOffset(offset, format)
  <2>1. DOMAIN offset = 1..3 /\ offset = [i \in 1..3 |-> offset[i]]
    BY <1>2
  <2>2. \A i \in 1..3 : offset[i] = IF i = 1 THEN 0 ELSE offset[i - 1] + format[i - 1][2]
    BY <1>1, <1>2
  <2> QED BY <2>1, <2>2, <1>3 DEF IsOffset, IsFormat
<1>5. PutsAt(Layout(format), format, offset, 3)
  BY <1>3, <1>4, LayoutFacts
<1>6. LevelFormat = Layout(format)
  BY <1>1 DEF LevelFormat
<1>7. PutsAt(LevelFormat, format, offset, 3)
  BY <1>5, <1>6
<1>8. \A i \in 1..3 : LevelFormat[format[i][1]] = <<offset[i], format[i][2]>>
  BY ONLY <1>7 DEF PutsAt
<1> QED BY ONLY <1>1, <1>2, <1>8

\* An order has one frame in both languages.
LEMMA OrderFrames ==
    ASSUME BookTypes, NEW o \in OrderId, req[o] # None
    PROVE  CppEncodeOrder(Node(o)) =
             EncodeOrder([Node(o) EXCEPT !.symbol = Listed,
                                         !.price = IF @ = 0 THEN None ELSE @])
<1>1. PICK r : r = req[o]
  OBVIOUS
<1>2. r \in Request
  BY <1>1 DEF BookTypes
<1>3. /\ r.side \in {"BUY", "SELL"} /\ r.order_type \in {"LIMIT", "MARKET"}
      /\ r.time_in_force \in {"GTC", "IOC", "FOK", "GTD"} /\ r.price \in Price \union {0}
  BY <1>2 DEF Request, Side
<1>4. PICK node : node = Node(o)
  OBVIOUS
<1>5. node = [order_id |-> o, symbol |-> SixBytes[Listed], filled_quantity |-> filled[o],
              status |-> status[o], side |-> r.side, order_type |-> r.order_type,
              price |-> r.price, quantity |-> r.quantity, time_in_force |-> r.time_in_force]
  BY <1>1, <1>4 DEF Node
<1>6. PICK order : order = [node EXCEPT !.symbol = Listed,
                                        !.price = IF @ = 0 THEN None ELSE @]
  OBVIOUS
<1>7. /\ order.order_id = o /\ order.symbol = Listed /\ order.quantity = r.quantity
      /\ order.price = (IF r.price = 0 THEN None ELSE r.price)
      /\ order.filled_quantity = filled[o] /\ order.status = status[o]
      /\ order.side = r.side /\ order.order_type = r.order_type
      /\ order.time_in_force = r.time_in_force
  BY <1>5, <1>6
<1>8. (IF order.price = None THEN 0 ELSE order.price) = r.price
  BY <1>3, <1>7, NoneAssumption
<1>9. PICK v : v =
        [order_id |-> o, price |-> r.price, quantity |-> r.quantity,
         filled_quantity |-> filled[o], symbol |-> SixBytes[Listed],
         side |-> SIDE_TO_WIRE[r.side], order_type |-> TYPE_TO_WIRE[r.order_type],
         time_in_force |-> TIF_TO_WIRE[r.time_in_force],
         status |-> STATUS_TO_WIRE[status[o]]]
  OBVIOUS
<1>10. EncodeOrder(order) = Pack(OrderFormat, v)
  BY <1>7, <1>8, <1>9 DEF EncodeOrder
<1>11. DOMAIN v = {"order_id", "price", "quantity", "filled_quantity", "symbol",
                   "side", "order_type", "time_in_force", "status"}
  BY <1>9
<1>12. \A a, b \in DOMAIN v : OrderFormat[a] = OrderFormat[b] => a = b
  BY ONLY <1>11, OrderLayout
<1>13. PICK frame : frame = CppEncodeOrder(node)
  OBVIOUS
<1>14. PICK E : E = {<<0, 16>>, <<16, 8>>, <<24, 4>>, <<28, 4>>, <<48, 6>>, <<54, 1>>,
                     <<55, 1>>, <<56, 1>>, <<57, 1>>}
  OBVIOUS
<1>15. /\ \A name \in DOMAIN v : OrderFormat[name] \in E
      /\ \A e \in E : \E name \in DOMAIN v : e = OrderFormat[name]
  BY ONLY <1>11, <1>14, OrderLayout, SMTT(30)
<1>16. frame = [e \in E |-> frame[e]]
  <2> DEFINE Field(e) ==
               CASE e = <<0, 16>> -> node.order_id
                 [] e = <<16, 8>> -> node.price
                 [] e = <<24, 4>> -> node.quantity
                 [] e = <<28, 4>> -> node.filled_quantity
                 [] e = <<48, 6>> -> node.symbol
                 [] e = <<54, 1>> -> CppByte("side", node.side)
                 [] e = <<55, 1>> -> CppByte("order_type", node.order_type)
                 [] e = <<56, 1>> -> CppByte("time_in_force", node.time_in_force)
                 [] e = <<57, 1>> -> CppByte("status", node.status)
  <2>1. frame = [e \in E |-> Field(e)]
    BY ONLY <1>13, <1>14, Zenon DEF CppEncodeOrder
  <2> HIDE DEF Field
  <2> QED BY ONLY <2>1
<1>17. /\ frame[<<0, 16>>] = node.order_id /\ frame[<<16, 8>>] = node.price
       /\ frame[<<24, 4>>] = node.quantity /\ frame[<<28, 4>>] = node.filled_quantity
       /\ frame[<<48, 6>>] = node.symbol
  BY <1>13 DEF CppEncodeOrder
<1>18. /\ frame[<<54, 1>>] = CppByte("side", node.side)
       /\ frame[<<55, 1>>] = CppByte("order_type", node.order_type)
       /\ frame[<<56, 1>>] = CppByte("time_in_force", node.time_in_force)
       /\ frame[<<57, 1>>] = CppByte("status", node.status)
  BY <1>13 DEF CppEncodeOrder
<1>19. /\ CppByte("side", r.side) = SIDE_TO_WIRE[r.side]
       /\ CppByte("order_type", r.order_type) = TYPE_TO_WIRE[r.order_type]
       /\ CppByte("time_in_force", r.time_in_force) = TIF_TO_WIRE[r.time_in_force]
       /\ CppByte("status", status[o]) = STATUS_TO_WIRE[status[o]]
  <2>1. /\ r.side \in DOMAIN SIDE_TO_WIRE /\ r.order_type \in DOMAIN TYPE_TO_WIRE
        /\ r.time_in_force \in DOMAIN TIF_TO_WIRE
    BY <1>3 DEF SIDE_TO_WIRE, TYPE_TO_WIRE, TIF_TO_WIRE
  <2>2. status[o] \in DOMAIN STATUS_TO_WIRE
    BY DEF BookTypes
  <2> QED BY <2>1, <2>2, BytesAgree
<1>20. /\ node.order_id = o /\ node.price = r.price /\ node.quantity = r.quantity
       /\ node.filled_quantity = filled[o] /\ node.symbol = SixBytes[Listed]
       /\ node.side = r.side /\ node.order_type = r.order_type
       /\ node.time_in_force = r.time_in_force /\ node.status = status[o]
  BY <1>5
<1>21. /\ v.order_id = o /\ v.price = r.price /\ v.quantity = r.quantity
       /\ v.filled_quantity = filled[o] /\ v.symbol = SixBytes[Listed]
       /\ v.side = SIDE_TO_WIRE[r.side] /\ v.order_type = TYPE_TO_WIRE[r.order_type]
       /\ v.time_in_force = TIF_TO_WIRE[r.time_in_force]
       /\ v.status = STATUS_TO_WIRE[status[o]]
  BY <1>9
<1>22. \A name \in DOMAIN v : frame[OrderFormat[name]] = v[name]
  BY ONLY <1>11, <1>17, <1>18, <1>19, <1>20, <1>21, OrderLayout
<1>23. Pack(OrderFormat, v) = frame
  BY <1>12, <1>15, <1>16, <1>22, PackIs
<1> QED BY <1>4, <1>6, <1>10, <1>13, <1>23

\* A trade has one frame in both languages, and Python reads in it what C++ wrote.
LEMMA TradeFrames ==
    ASSUME NEW t, t.aggressor_side \in Side
    PROVE  /\ CppEncodeTrade(t) = EncodeTrade(t)
           /\ DecodeTrade(CppEncodeTrade(t)) =
                [price |-> t.price, quantity |-> t.quantity,
                 aggressor_side |-> t.aggressor_side, maker |-> t.maker]
<1>1. PICK side : side = SIDE_TO_WIRE[t.aggressor_side]
  OBVIOUS
<1>2. t.aggressor_side \in DOMAIN SIDE_TO_WIRE
  BY DEF Side, SIDE_TO_WIRE
<1>3. CppByte("side", t.aggressor_side) = side /\ FromWire(SIDE_TO_WIRE, side) = t.aggressor_side
  BY <1>1, <1>2, BytesAgree
<1>4. PICK frame : frame = CppEncodeTrade(t)
  OBVIOUS
<1>5. /\ frame[<<16, 8>>] = t.price /\ frame[<<24, 4>>] = t.quantity
      /\ frame[<<28, 1>>] = side
      /\ frame[<<48, 8>>] = <<t.maker, 1>> /\ frame[<<56, 8>>] = <<t.maker, 2>>
  BY <1>3, <1>4 DEF CppEncodeTrade, Half
<1>6. PICK v : v = [price |-> t.price, quantity |-> t.quantity, aggressor_side |-> side,
                    maker_hi |-> <<t.maker, 1>>, maker_lo |-> <<t.maker, 2>>]
  OBVIOUS
<1>7. EncodeTrade(t) = Pack(TradeFormat, v)
  BY <1>1, <1>6 DEF EncodeTrade, Half
<1>8. DOMAIN v = {"price", "quantity", "aggressor_side", "maker_hi", "maker_lo"}
  BY <1>6
<1>9. \A a, b \in DOMAIN v : TradeFormat[a] = TradeFormat[b] => a = b
  BY ONLY <1>8, TradeLayout
<1>10. PICK E : E = {<<16, 8>>, <<24, 4>>, <<28, 1>>, <<48, 8>>, <<56, 8>>}
  OBVIOUS
<1>11. /\ \A name \in DOMAIN v : TradeFormat[name] \in E
      /\ \A e \in E : \E name \in DOMAIN v : e = TradeFormat[name]
  BY ONLY <1>8, <1>10, TradeLayout
<1>12. frame = [e \in E |-> frame[e]]
  BY <1>4, <1>10 DEF CppEncodeTrade
<1>13. \A name \in DOMAIN v : frame[TradeFormat[name]] = v[name]
  BY ONLY <1>5, <1>6, <1>8, TradeLayout
<1>14. Pack(TradeFormat, v) = frame
  BY <1>9, <1>11, <1>12, <1>13, PackIs
<1>15. frame[<<48, 8>>][1] = t.maker /\ frame[<<56, 8>>][1] = t.maker
  BY <1>5
<1>16. DecodeTrade(frame) =
         [price |-> t.price, quantity |-> t.quantity,
          aggressor_side |-> t.aggressor_side, maker |-> t.maker]
  BY <1>3, <1>5, <1>15, TradeLayout DEF DecodeTrade, Unpack
<1> QED BY <1>4, <1>7, <1>14, <1>16

\* A number that fits a field is not changed by it.
LEMMA LowFits ==
    ASSUME NEW w \in {2, 4}, NEW v \in 0 .. Span[w] - 1
    PROVE  Low(w, v) = v
<1>1. PICK m : m = Span[w]
  OBVIOUS
<1>2. m \in Nat \ {0}
  BY <1>1, SpanAssumption
<1>3. v \in Int /\ 0 <= v /\ v < m
  BY <1>1, <1>2
<1>4. v % m = v
  BY <1>2, <1>3
<1> QED BY <1>1, <1>4 DEF Low

\* A level has one frame in both languages, and Python reads in it what C++ wrote.
LEMMA LevelFrames ==
    ASSUME NEW n, NEW levels, DOMAIN levels = 1..n,
           \A i \in 1..n : levels[i] = <<levels[i][1], levels[i][2], levels[i][3]>>
    PROVE  /\ CppEncodeLevels(levels) =
                [i \in 1..n |-> Pack(LevelFormat,
                    [price |-> levels[i][1], quantity |-> levels[i][2],
                     order_count |-> levels[i][3]])]
           /\ DOMAIN CppEncodeLevels(levels) = 1..n
           /\ \A i \in 1..n : DecodeLevel(CppEncodeLevels(levels)[i]) = levels[i]
<1>1. PICK frames : frames = CppEncodeLevels(levels)
  OBVIOUS
<1>2. PICK E : E = {<<0, 8>>, <<8, 4>>, <<12, 4>>}
  OBVIOUS
<1>3. DOMAIN frames = 1..n /\ frames = [i \in 1..n |-> frames[i]]
  BY <1>1 DEF CppEncodeLevels
<1>4. ASSUME NEW i \in 1..n
      PROVE  /\ frames[i] = Pack(LevelFormat,
                  [price |-> levels[i][1], quantity |-> levels[i][2],
                   order_count |-> levels[i][3]])
             /\ DecodeLevel(frames[i]) = levels[i]
  <2>1. PICK frame : frame = frames[i]
    OBVIOUS
  <2>2. frame = [e \in E |-> frame[e]]
    BY <2>1, <1>1, <1>2 DEF CppEncodeLevels
  <2>3. /\ frame[<<0, 8>>] = levels[i][1] /\ frame[<<8, 4>>] = levels[i][2]
        /\ frame[<<12, 4>>] = levels[i][3]
    BY <2>1, <1>1 DEF CppEncodeLevels
  <2>4. PICK v : v = [price |-> levels[i][1], quantity |-> levels[i][2],
                      order_count |-> levels[i][3]]
    OBVIOUS
  <2>5. DOMAIN v = {"price", "quantity", "order_count"}
    BY <2>4
  <2>6. \A a, b \in DOMAIN v : LevelFormat[a] = LevelFormat[b] => a = b
    BY ONLY <2>5, LevelLayout
  <2>7. /\ \A name \in DOMAIN v : LevelFormat[name] \in E
      /\ \A e \in E : \E name \in DOMAIN v : e = LevelFormat[name]
    BY ONLY <2>5, <1>2, LevelLayout
  <2>8. \A name \in DOMAIN v : frame[LevelFormat[name]] = v[name]
    BY ONLY <2>3, <2>4, <2>5, LevelLayout
  <2>9. Pack(LevelFormat, v) = frame
    BY <2>2, <2>6, <2>7, <2>8, PackIs
  <2>10. DecodeLevel(frame) = <<levels[i][1], levels[i][2], levels[i][3]>>
    BY <2>3, LevelLayout DEF DecodeLevel, Unpack
  <2> QED BY <2>1, <2>4, <2>9, <2>10
<1> QED BY <1>1, <1>3, <1>4

\* A match result whose numbers fit has one frame in both languages, and Python reads
\* in it what C++ wrote.
LEMMA ResultFrames ==
    ASSUME NEW r, NEW n \in 0 .. Span[2] - 1,
           DOMAIN r.trades = 1..n, Len(r.trades) = n,
           r.total_filled \in 0 .. Span[4] - 1, r.status \in DOMAIN STATUS_TO_WIRE,
           r.resting \in BOOLEAN, \A i \in 1..n : r.trades[i].aggressor_side \in Side
    PROVE  /\ CppEncodeResult(r) = EncodeResult(r)
           /\ Tells(DecodeResult(CppEncodeResult(r)), r)
<1>1. PICK data : data = CppEncodeResult(r)
  OBVIOUS
<1>2. PICK status_byte : status_byte = STATUS_TO_WIRE[r.status]
  OBVIOUS
<1>3. CppByte("status", r.status) = status_byte /\ FromWire(STATUS_TO_WIRE, status_byte) = r.status
  BY <1>2, BytesAgree
<1>4. Low(2, n) = n /\ Low(4, r.total_filled) = r.total_filled
  BY LowFits
<1>5. PICK flag : flag = IF r.resting THEN 1 ELSE 0
  OBVIOUS
<1>6. PICK frame : frame = data.header
  OBVIOUS
<1>7. PICK E : E = {<<0, 2>>, <<2, 4>>, <<6, 1>>, <<7, 1>>}
  OBVIOUS
<1>8. frame = [e \in E |-> frame[e]]
  BY <1>1, <1>6, <1>7 DEF CppEncodeResult
<1>9. /\ frame[<<0, 2>>] = Low(2, n) /\ frame[<<2, 4>>] = Low(4, r.total_filled)
      /\ frame[<<6, 1>>] = CppByte("status", r.status) /\ frame[<<7, 1>>] = flag
  BY <1>1, <1>5, <1>6 DEF CppEncodeResult
<1>10. PICK v : v = [trade_count |-> n, total_filled |-> r.total_filled,
                     status |-> status_byte, is_resting |-> flag]
  OBVIOUS
<1>11. DOMAIN v = {"trade_count", "total_filled", "status", "is_resting"}
  BY <1>10
<1>12. \A a, b \in DOMAIN v : HeaderFormat[a] = HeaderFormat[b] => a = b
  BY ONLY <1>11, HeaderLayout
<1>13. /\ \A name \in DOMAIN v : HeaderFormat[name] \in E
       /\ \A e \in E : \E name \in DOMAIN v : e = HeaderFormat[name]
  BY ONLY <1>7, <1>11, HeaderLayout
<1>14. \A name \in DOMAIN v : frame[HeaderFormat[name]] = v[name]
  BY ONLY <1>3, <1>4, <1>9, <1>10, <1>11, HeaderLayout
<1>15. Pack(HeaderFormat, v) = frame
  BY <1>8, <1>12, <1>13, <1>14, PackIs
<1>16. data = [header |-> frame, trades |-> [i \in 1..n |-> CppEncodeTrade(r.trades[i])]]
  BY <1>1, <1>6 DEF CppEncodeResult
<1>17. EncodeResult(r) = [header |-> frame, trades |-> [i \in 1..n |-> EncodeTrade(r.trades[i])]]
  BY <1>2, <1>5, <1>10, <1>15 DEF EncodeResult
<1>18. \A i \in 1..n : CppEncodeTrade(r.trades[i]) = EncodeTrade(r.trades[i])
  BY TradeFrames
<1>19. data = EncodeResult(r)
  BY <1>16, <1>17, <1>18
<1>20. PICK told : told = DecodeResult(data)
  OBVIOUS
<1>21. /\ told.total_filled = r.total_filled
       /\ told.status = r.status
       /\ told.resting = (flag = 1)
       /\ told.trades = [i \in 1..n |-> DecodeTrade(data.trades[i])]
  BY <1>3, <1>4, <1>6, <1>9, <1>20, HeaderLayout DEF DecodeResult, Unpack
<1>22. told.resting = r.resting
  BY <1>5, <1>21
<1>23. \A i \in 1..n : told.trades[i] =
          [price |-> r.trades[i].price, quantity |-> r.trades[i].quantity,
           aggressor_side |-> r.trades[i].aggressor_side, maker |-> r.trades[i].maker]
  <2>1. \A i \in 1..n : told.trades[i] = DecodeTrade(CppEncodeTrade(r.trades[i]))
    BY <1>16, <1>21
  <2> QED BY <2>1, TradeFrames
<1>24. DOMAIN told.trades = 1..n /\ Len(told.trades) = n
  BY <1>21, SpanAssumption
<1>25. Tells(told, r)
  <2>1. \A f \in {"total_filled", "status", "resting"} : told[f] = r[f]
    BY <1>21, <1>22
  <2>2. ASSUME NEW i \in 1..n, NEW f \in {"price", "quantity", "aggressor_side", "maker"}
        PROVE  told.trades[i][f] = r.trades[i][f]
    <3>1. PICK t, u : t = told.trades[i] /\ u = r.trades[i]
      OBVIOUS
    <3>2. t = [price |-> u.price, quantity |-> u.quantity,
               aggressor_side |-> u.aggressor_side, maker |-> u.maker]
      BY <1>23, <3>1
    <3>3. /\ t["price"] = u["price"] /\ t["quantity"] = u["quantity"]
          /\ t["aggressor_side"] = u["aggressor_side"] /\ t["maker"] = u["maker"]
      BY ONLY <3>2
    <3> QED BY ONLY <3>1, <3>3, f \in {"price", "quantity", "aggressor_side", "maker"}
  <2> QED BY <1>24, <2>1, <2>2 DEF Tells
<1> QED BY <1>1, <1>19, <1>20, <1>25

\* The tuples of submit_order_detail tell the same.
LEMMA DetailTells ==
    ASSUME NEW r, NEW n \in Nat, DOMAIN r.trades = 1..n, Len(r.trades) = n,
           {"trades", "total_filled", "status", "resting"} \subseteq DOMAIN r,
           \A i \in 1..n : r.trades[i].aggressor_side \in Side
    PROVE  Tells(Detail(r), r)
<1>1. PICK told : told = Detail(r)
  OBVIOUS
<1>2. /\ told.total_filled = r.total_filled /\ told.status = r.status
      /\ told.resting = r.resting
      /\ told.trades = [i \in 1..n |-> TradeFromTuple(TradeTuple(r.trades[i]))]
  BY <1>1 DEF Detail
<1>3. ASSUME NEW t, t.aggressor_side \in Side
      PROVE  TradeFromTuple(TradeTuple(t)) =
               [price |-> t.price, quantity |-> t.quantity,
                aggressor_side |-> t.aggressor_side, maker |-> t.maker, taker |-> t.taker]
  BY <1>3 DEF TradeFromTuple, TradeTuple, Side
<1>4. \A i \in 1..n : told.trades[i] =
          [price |-> r.trades[i].price, quantity |-> r.trades[i].quantity,
           aggressor_side |-> r.trades[i].aggressor_side, maker |-> r.trades[i].maker,
           taker |-> r.trades[i].taker]
  BY <1>2, <1>3
<1>5. DOMAIN told.trades = 1..n /\ Len(told.trades) = n
  BY <1>2
<1>6. \A f \in {"total_filled", "status", "resting"} : told[f] = r[f]
  BY <1>2
<1>7. ASSUME NEW i \in 1..n, NEW f \in {"price", "quantity", "aggressor_side", "maker"}
      PROVE  told.trades[i][f] = r.trades[i][f]
  <2>1. PICK t, u : t = told.trades[i] /\ u = r.trades[i]
    OBVIOUS
  <2>2. t = [price |-> u.price, quantity |-> u.quantity, aggressor_side |-> u.aggressor_side,
             maker |-> u.maker, taker |-> u.taker]
    BY <1>4, <2>1
  <2>3. /\ t["price"] = u["price"] /\ t["quantity"] = u["quantity"]
        /\ t["aggressor_side"] = u["aggressor_side"] /\ t["maker"] = u["maker"]
    BY ONLY <2>2
  <2> QED BY ONLY <2>1, <2>3, f \in {"price", "quantity", "aggressor_side", "maker"}
<1> QED BY <1>1, <1>5, <1>6, <1>7 DEF Tells

\* One side of a snapshot: n levels, each a price, a quantity and a count.
IsLevels(levels, n) ==
    /\ levels = [i \in 1..n |-> levels[i]]
    /\ \A i \in 1..n : levels[i] = <<levels[i][1], levels[i][2], levels[i][3]>>

\* The two sides in a row, and each of them again.
LEMMA SidesInRow ==
    ASSUME NEW m \in Nat, NEW n \in Nat, NEW bids, NEW asks,
           IsLevels(bids, m), IsLevels(asks, n)
    PROVE  /\ IsLevels(bids \o asks, m + n) /\ DOMAIN (bids \o asks) = 1..(m + n)
           /\ Len(bids) = m /\ Len(asks) = n
           /\ SubSeq(bids \o asks, 1, m) = bids
           /\ SubSeq(bids \o asks, m + 1, m + n) = asks
<1>1. PICK X : X = {bids[i] : i \in 1..m} \union {asks[i] : i \in 1..n}
  OBVIOUS
<1>2. bids \in [1..m -> X] /\ asks \in [1..n -> X]
  BY <1>1 DEF IsLevels
<1>3. bids \in Seq(X) /\ asks \in Seq(X) /\ Len(bids) = m /\ Len(asks) = n
  BY <1>2
<1>4. PICK row : row = bids \o asks
  OBVIOUS
<1>5. /\ row \in Seq(X) /\ Len(row) = m + n
      /\ \A i \in 1..m : row[i] = bids[i]
      /\ \A i \in 1..n : row[m + i] = asks[i]
  BY <1>3, <1>4
<1>6. DOMAIN row = 1..(m + n) /\ row = [i \in 1..(m + n) |-> row[i]]
  BY <1>5
<1>7. ASSUME NEW i \in 1..(m + n) PROVE row[i] = <<row[i][1], row[i][2], row[i][3]>>
  <2>1. CASE i \in 1..m
    BY <2>1, <1>5 DEF IsLevels
  <2>2. CASE i \notin 1..m
    <3>1. i - m \in 1..n /\ i = m + (i - m)
      BY <2>2
    <3> QED BY <3>1, <1>5 DEF IsLevels
  <2> QED BY <2>1, <2>2
<1>8. SubSeq(row, 1, m) = bids
  <2>1. SubSeq(row, 1, m) = [i \in 1..m |-> row[i]]
    BY <1>5
  <2> QED BY <2>1, <1>5 DEF IsLevels
<1>9. SubSeq(row, m + 1, m + n) = asks
  <2>1. SubSeq(row, m + 1, m + n) = [i \in 1..n |-> row[m + i]]
    BY <1>5
  <2> QED BY <2>1, <1>5 DEF IsLevels
<1> QED BY <1>3, <1>4, <1>6, <1>7, <1>8, <1>9 DEF IsLevels

\* A snapshot whose numbers fit has one frame in both languages, and Python reads in it
\* what C++ wrote.
LEMMA SnapshotFrames ==
    ASSUME NEW symbol, NEW seq \in 0 .. Span[4] - 1, NEW bids, NEW asks,
           NEW m \in 0 .. Span[2] - 1, NEW n \in 0 .. Span[2] - 1,
           IsLevels(bids, m), IsLevels(asks, n),
           NEW snap, snap = [symbol |-> SixBytes[symbol], sequence |-> seq,
                             bids |-> bids, asks |-> asks],
           NEW named, named = [symbol |-> symbol, sequence |-> seq,
                               bids |-> bids, asks |-> asks]
    PROVE  /\ CppEncodeSnapshot(snap) = EncodeSnapshot(named)
           /\ DecodeSnapshot(CppEncodeSnapshot(snap)) = snap
<1>1. m \in Nat /\ n \in Nat
  BY SpanAssumption
<1>2. PICK row : row = bids \o asks
  OBVIOUS
<1>3. /\ IsLevels(row, m + n) /\ DOMAIN row = 1..(m + n)
      /\ Len(bids) = m /\ Len(asks) = n
      /\ SubSeq(row, 1, m) = bids /\ SubSeq(row, m + 1, m + n) = asks
  BY <1>1, <1>2, SidesInRow
<1>4. Low(2, m) = m /\ Low(2, n) = n /\ Low(4, seq) = seq
  BY LowFits
<1>5. PICK frame : frame = CppEncodeHeader(snap)
  OBVIOUS
<1>6. PICK E : E = {<<0, 6>>, <<6, 2>>, <<8, 2>>, <<12, 4>>}
  OBVIOUS
<1>7. frame = [e \in E |-> frame[e]]
  BY <1>5, <1>6 DEF CppEncodeHeader
<1>8. /\ frame[<<0, 6>>] = SixBytes[symbol] /\ frame[<<6, 2>>] = m
      /\ frame[<<8, 2>>] = n /\ frame[<<12, 4>>] = seq
  BY <1>3, <1>4, <1>5 DEF CppEncodeHeader
<1>9. PICK v : v = [symbol |-> SixBytes[symbol], bid_count |-> m, ask_count |-> n,
                    sequence |-> seq]
  OBVIOUS
<1>10. DOMAIN v = {"symbol", "bid_count", "ask_count", "sequence"}
  BY <1>9
<1>11. \A a, b \in DOMAIN v : SnapshotFormat[a] = SnapshotFormat[b] => a = b
  BY ONLY <1>10, SnapshotLayout
<1>12. /\ \A name \in DOMAIN v : SnapshotFormat[name] \in E
       /\ \A e \in E : \E name \in DOMAIN v : e = SnapshotFormat[name]
  BY ONLY <1>6, <1>10, SnapshotLayout
<1>13. \A name \in DOMAIN v : frame[SnapshotFormat[name]] = v[name]
  BY ONLY <1>8, <1>9, <1>10, SnapshotLayout
<1>14. Pack(SnapshotFormat, v) = frame
  BY <1>7, <1>11, <1>12, <1>13, PackIs
<1>15. PICK frames : frames = CppEncodeLevels(row)
  OBVIOUS
<1>16. /\ frames = [i \in 1..(m + n) |-> Pack(LevelFormat,
                       [price |-> row[i][1], quantity |-> row[i][2],
                        order_count |-> row[i][3]])]
       /\ DOMAIN frames = 1..(m + n)
       /\ \A i \in 1..(m + n) : DecodeLevel(frames[i]) = row[i]
  <2>1. PICK k : k = m + n
    OBVIOUS
  <2>2. DOMAIN row = 1..k /\ \A i \in 1..k : row[i] = <<row[i][1], row[i][2], row[i][3]>>
    BY <1>3, <2>1 DEF IsLevels
  <2> QED BY <1>15, <2>1, <2>2, LevelFrames, SMTT(30)
<1>17. CppEncodeSnapshot(snap) = [header |-> frame, levels |-> frames]
  BY <1>2, <1>5, <1>15 DEF CppEncodeSnapshot
<1>18. EncodeSnapshot(named) = [header |-> frame, levels |-> frames]
  BY <1>2, <1>3, <1>9, <1>14, <1>16 DEF EncodeSnapshot
<1>19. PICK data : data = [header |-> frame, levels |-> frames]
  OBVIOUS
<1>20. [i \in DOMAIN data.levels |-> DecodeLevel(data.levels[i])] = row
  BY <1>3, <1>16, <1>19 DEF IsLevels
<1>21. DecodeSnapshot(data) =
         [symbol |-> SixBytes[symbol], sequence |-> seq,
          bids |-> SubSeq(row, 1, m), asks |-> SubSeq(row, m + 1, m + n)]
  BY <1>8, <1>19, <1>20, SnapshotLayout DEF DecodeSnapshot, Unpack
<1> QED BY <1>3, <1>17, <1>18, <1>19, <1>21

-----------------------------------------------------------------------------
(* What callers and listeners are told.                                    *)

\* The last n trades are those of order o, and no others are.
LastTrades(o, n) ==
    /\ n <= Len(trades)
    /\ \A i \in DOMAIN trades : trades[i].taker = o <=> i > Len(trades) - n

\* What was traded in the last n trades.
Quantities(n) == [i \in 1..n |-> trades[Len(trades) - n + i].quantity]

\* Takers were submitted; the order being matched made the last trades, which add up to
\* what it has got.
TakerTrades ==
    /\ \A i \in DOMAIN trades : req[trades[i].taker] # None
    /\ taker # None =>
         \E n \in Nat : LastTrades(taker, n) /\ SumFunction(Quantities(n)) = filled[taker]

\* Each submit that reached the engine advanced the sequence number by at most one.
Numbered ==
    /\ stats \in [Counters -> Nat]
    /\ sequence <= stats["orders_received"]
    /\ stats["orders_received"] <= MaxReceived

AnswerInv == AnswerExact /\ (answer # None => taker = None)

WireInv == Numbered /\ TakerTrades /\ AnswerInv /\ FeedExact

\* One side of a snapshot is a sequence of levels, and not too long.
LEMMA LevelsShown ==
    ASSUME NEW side, NEW k \in Nat, NEW sorted, sorted = [i \in 1..k |-> sorted[i]],
           NEW best, best = SubSeq(sorted, 1, Least(Depth, Len(sorted))),
           NEW levels, levels = [i \in DOMAIN best |->
               <<best[i], side[best[i]].total, side[best[i]].count>>]
    PROVE  \E n \in 0 .. Span[2] - 1 : IsLevels(levels, n)
<1>1. PICK X : X = {sorted[i] : i \in 1..k}
  OBVIOUS
<1>2. sorted \in [1..k -> X]
  BY <1>1
<1>3. sorted \in Seq(X) /\ Len(sorted) = k
  BY <1>2
<1>4. Depth \in Nat /\ Depth \in 0 .. Span[2] - 1
  BY DepthAssumption, SpanAssumption
<1>5. PICK n : n = Least(Depth, k)
  OBVIOUS
<1>6. n \in Nat /\ n <= Depth /\ n <= k
  BY <1>4, <1>5 DEF Least
<1>7. n \in 0 .. Span[2] - 1
  BY <1>4, <1>6, SpanAssumption
<1>8. DOMAIN best = 1..n
  BY <1>3, <1>5, <1>6
<1>9. levels = [i \in 1..n |-> levels[i]]
  BY <1>8
<1>10. ASSUME NEW i \in 1..n PROVE levels[i] = <<levels[i][1], levels[i][2], levels[i][3]>>
  <2>1. PICK l : l = levels[i]
    OBVIOUS
  <2>2. PICK a, b, c : l = <<a, b, c>>
    BY <2>1, <1>8
  <2>3. l = <<l[1], l[2], l[3]>>
    BY ONLY <2>2
  <2> QED BY <2>1, <2>3
<1> QED BY <1>7, <1>9, <1>10 DEF IsLevels

\* Snapshots are the same in both languages.
LEMMA SnapshotSound ==
    ASSUME BookTypes, Numbered
    PROVE  SnapshotOnWire
<1>1. ASSUME NEW s \in Side
      PROVE  \E n \in 0 .. Span[2] - 1 : IsLevels(LevelsOf(s, Depth), n)
  <2>1. IsFiniteSet(DOMAIN book[s])
    BY LevelsFacts DEF BookTypes
  <2>2. PICK k \in Nat : k = Cardinality(DOMAIN book[s])
    BY <2>1, FS_CardinalityType
  <2>3. PICK sorted : sorted = Sorted(s)
    OBVIOUS
  <2>4. sorted = [i \in 1..k |-> sorted[i]]
    <3>1. sorted = [i \in DOMAIN sorted |-> sorted[i]]
      BY <2>3 DEF Sorted
    <3>2. DOMAIN sorted = 1..k
      BY <2>2, <2>3 DEF Sorted
    <3> QED BY <3>1, <3>2
  <2>5. PICK best : best = SubSeq(sorted, 1, Least(Depth, Len(sorted)))
    OBVIOUS
  <2>6. PICK levels : levels = LevelsOf(s, Depth)
    OBVIOUS
  <2>7. PICK side : side = book[s]
    OBVIOUS
  <2>8. levels = [i \in DOMAIN best |->
          <<best[i], side[best[i]].total, side[best[i]].count>>]
    BY <2>3, <2>5, <2>6, <2>7 DEF LevelsOf
  <2>9. \E n \in 0 .. Span[2] - 1 : IsLevels(levels, n)
    BY <2>4, <2>5, <2>8, LevelsShown
  <2> QED BY <2>6, <2>9
<1>2. PICK bids, asks : bids = LevelsOf("BUY", Depth) /\ asks = LevelsOf("SELL", Depth)
  OBVIOUS
<1>3. PICK m \in 0 .. Span[2] - 1 : IsLevels(bids, m)
  BY <1>1, <1>2 DEF Side
<1>4. PICK n \in 0 .. Span[2] - 1 : IsLevels(asks, n)
  BY <1>1, <1>2 DEF Side
<1>5. sequence \in 0 .. Span[4] - 1
  <2>1. stats["orders_received"] \in Nat
    BY DEF Numbered, Counters
  <2> QED BY <2>1, MaxReceivedAssumption, SpanAssumption DEF Numbered, BookTypes
<1>6. PICK snap : snap = Snapshot(SixBytes[Listed], Depth)
  OBVIOUS
<1>7. PICK named : named = Snapshot(Listed, Depth)
  OBVIOUS
<1>8. snap = [symbol |-> SixBytes[Listed], sequence |-> sequence, bids |-> bids, asks |-> asks]
  BY <1>2, <1>6 DEF Snapshot
<1>9. named = [symbol |-> Listed, sequence |-> sequence, bids |-> bids, asks |-> asks]
  BY <1>2, <1>7 DEF Snapshot
<1>10. CppEncodeSnapshot(snap) = EncodeSnapshot(named)
  BY <1>3, <1>4, <1>5, <1>8, <1>9, SnapshotFrames
<1> QED BY <1>6, <1>7, <1>10 DEF SnapshotOnWire

\* What Python decodes after a step is the snapshot of the book.
LEMMA SnapshotRead ==
    ASSUME BookTypes', Numbered'
    PROVE  GetSnapshot' = Snapshot(SixBytes[Listed], Depth)'
<1>1. ASSUME NEW s \in Side
      PROVE  \E n \in 0 .. Span[2] - 1 : IsLevels(LevelsOf(s, Depth)', n)
  <2>1. IsFiniteSet(DOMAIN book'[s])
    BY LevelsFacts DEF BookTypes
  <2>2. PICK k \in Nat : k = Cardinality(DOMAIN book'[s])
    BY <2>1, FS_CardinalityType
  <2>3. PICK sorted : sorted = Sorted(s)'
    OBVIOUS
  <2>4. sorted = [i \in 1..k |-> sorted[i]]
    <3>1. sorted = [i \in DOMAIN sorted |-> sorted[i]]
      BY <2>3 DEF Sorted
    <3>2. DOMAIN sorted = 1..k
      BY <2>2, <2>3 DEF Sorted
    <3> QED BY <3>1, <3>2
  <2>5. PICK best : best = SubSeq(sorted, 1, Least(Depth, Len(sorted)))
    OBVIOUS
  <2>6. PICK levels : levels = LevelsOf(s, Depth)'
    OBVIOUS
  <2>7. PICK side : side = book'[s]
    OBVIOUS
  <2>8. levels = [i \in DOMAIN best |->
          <<best[i], side[best[i]].total, side[best[i]].count>>]
    BY <2>3, <2>5, <2>6, <2>7 DEF LevelsOf
  <2>9. \E n \in 0 .. Span[2] - 1 : IsLevels(levels, n)
    BY <2>4, <2>5, <2>8, LevelsShown
  <2> QED BY <2>6, <2>9
<1>2. PICK bids, asks : bids = LevelsOf("BUY", Depth)' /\ asks = LevelsOf("SELL", Depth)'
  OBVIOUS
<1>3. PICK m \in 0 .. Span[2] - 1 : IsLevels(bids, m)
  BY <1>1, <1>2 DEF Side
<1>4. PICK n \in 0 .. Span[2] - 1 : IsLevels(asks, n)
  BY <1>1, <1>2 DEF Side
<1>5. sequence' \in 0 .. Span[4] - 1
  <2>1. stats'["orders_received"] \in Nat
    BY DEF Numbered, Counters
  <2> QED BY <2>1, MaxReceivedAssumption, SpanAssumption DEF Numbered, BookTypes
<1>6. PICK snap : snap = Snapshot(SixBytes[Listed], Depth)'
  OBVIOUS
<1>7. PICK named : named = Snapshot(Listed, Depth)'
  OBVIOUS
<1>8. snap = [symbol |-> SixBytes[Listed], sequence |-> sequence', bids |-> bids, asks |-> asks]
  BY <1>2, <1>6 DEF Snapshot
<1>9. named = [symbol |-> Listed, sequence |-> sequence', bids |-> bids, asks |-> asks]
  BY <1>2, <1>7 DEF Snapshot
<1>10. DecodeSnapshot(CppEncodeSnapshot(snap)) = snap
  BY <1>3, <1>4, <1>5, <1>8, <1>9, SnapshotFrames
<1>11. GetSnapshot' = DecodeSnapshot(CppEncodeSnapshot(snap))
  BY <1>6 DEF GetSnapshot
<1> QED BY <1>6, <1>10, <1>11

\* The trades of an order that made the last n.
LEMMA TradesOfLast ==
    ASSUME BookTypes, NEW o, NEW n \in Nat, LastTrades(o, n)
    PROVE  /\ DOMAIN TradesOf(o) = 1..n /\ Len(TradesOf(o)) = n
           /\ \A i \in 1..n : /\ TradesOf(o)[i].aggressor_side = req[o].side
                              /\ TradesOf(o)[i].quantity = Quantities(n)[i]
           /\ TotalFilled(TradesOf(o)) = Low(4, SumFunction(Quantities(n)))
<1>1. PICK len \in Nat : len = Len(trades) /\ DOMAIN trades = 1..len
  BY DEF BookTypes
<1>2. n <= len /\ \A i \in 1..len : trades[i].taker = o <=> i > len - n
  BY <1>1 DEF LastTrades
<1>3. PICK I : I = {i \in DOMAIN trades : trades[i].taker = o}
  OBVIOUS
<1>4. I = (len - n + 1) .. len
  <2>1. \A i \in I : i \in (len - n + 1) .. len
    BY <1>1, <1>2, <1>3
  <2>2. \A i \in (len - n + 1) .. len : i \in I
    BY <1>1, <1>2, <1>3
  <2> QED BY <2>1, <2>2
<1>5. Cardinality(I) = n
  <2>1. len - n + 1 \in Int /\ len \in Int
    OBVIOUS
  <2>2. PICK a \in Int : a = len - n + 1
    BY <2>1
  <2>3. Cardinality(a .. len) = IF a > len THEN 0 ELSE len - a + 1
    BY <2>1, FS_Interval
  <2>4. I = a .. len
    BY <2>2, <1>4
  <2> QED BY <2>2, <2>3, <2>4, <1>2
<1>6. PICK mine : mine = SubSeq(trades, len - n + 1, len)
  OBVIOUS
<1>7. \A i \in 1..n : mine[i] = trades[len - n + i]
  <2>1. trades \in Seq(Trade)
    BY DEF BookTypes
  <2>2. \A i \in 1..n : (len - n + 1) + i - 1 = len - n + i
    OBVIOUS
  <2>3. mine = [i \in 1..n |-> trades[(len - n + 1) + i - 1]]
    BY <2>1, <1>1, <1>2, <1>6
  <2> QED BY <2>2, <2>3
<1>8. PICK ts : ts = [i \in 1..n |->
          [maker |-> mine[i].maker, taker |-> mine[i].taker, price |-> mine[i].price,
           quantity |-> mine[i].quantity, aggressor_side |-> req[o].side]]
  OBVIOUS
<1>9. TradesOf(o) = ts
  BY <1>1, <1>3, <1>5, <1>6, <1>8 DEF TradesOf
<1>10. DOMAIN ts = 1..n /\ Len(ts) = n
  BY <1>8
<1>11. \A i \in 1..n : /\ ts[i].aggressor_side = req[o].side
                       /\ ts[i].quantity = Quantities(n)[i]
  BY <1>1, <1>7, <1>8 DEF Quantities
<1>12. [i \in DOMAIN ts |-> ts[i].quantity] = Quantities(n)
  BY <1>10, <1>11 DEF Quantities
<1>13. TotalFilled(ts) = Low(4, SumFunction(Quantities(n)))
  BY <1>12 DEF TotalFilled
<1> QED BY <1>9, <1>10, <1>11, <1>13

\* What is in a trade.
LEMMA TradeTypes ==
    ASSUME BookTypes
    PROVE  \A i \in DOMAIN trades : trades[i].taker \in OrderId /\ trades[i].quantity \in Nat
<1>1. trades \in Seq(Trade)
  BY DEF BookTypes
<1>2. \A i \in DOMAIN trades : trades[i] \in Trade
  BY <1>1
<1>3. \A t \in Trade : t.taker \in OrderId /\ t.quantity \in Nat
  BY DEF Trade
<1> QED BY <1>2, <1>3

\* A call that leaves the book alone and goes past what was told.
LEMMA WireIdle ==
    ASSUME WireInv, UNCHANGED <<vars, stats, feed, answer>>,
           "feed" \notin stale' => "feed" \notin stale
    PROVE  WireInv'
<1>1. /\ req' = req /\ filled' = filled /\ status' = status /\ taker' = taker
      /\ trades' = trades /\ book' = book /\ cancel_map' = cancel_map /\ sequence' = sequence
      /\ stats' = stats /\ feed' = feed /\ answer' = answer
  BY DEF vars
<1>2. Numbered'
  BY <1>1 DEF WireInv, Numbered
<1>3. TakerTrades'
  BY <1>1 DEF WireInv, TakerTrades, LastTrades, Quantities
<1>4. AnswerInv'
  BY <1>1, ZenonT(60) DEF WireInv, AnswerInv, AnswerExact, Native, TradesOf
<1>5. Snapshot(SixBytes[Listed], Depth)' = Snapshot(SixBytes[Listed], Depth)
  BY <1>1 DEF Snapshot, LevelsOf, Sorted, Nth
<1>6. FeedExact'
  BY <1>1, <1>5 DEF WireInv, FeedExact
<1> QED BY <1>2, <1>3, <1>4, <1>6 DEF WireInv

\* A counter that is not orders_received does not matter to the sequence number.
LEMMA NumberedKept ==
    ASSUME Numbered, Counted, sequence' = sequence,
           stats'["orders_received"] = stats["orders_received"]
    PROVE  Numbered'
BY DEF Numbered, Counted

\* A rejected order changes the counters and nothing else.
LEMMA WireReject ==
    ASSUME BookTypes, WireInv, Counted, NEW order, NEW path, RejectOrder(order, path)
    PROVE  WireInv'
<1>1. /\ req' = req /\ filled' = filled /\ status' = status /\ taker' = taker
      /\ trades' = trades /\ book' = book /\ cancel_map' = cancel_map /\ sequence' = sequence
      /\ feed' = feed /\ answer' = None
  BY DEF RejectOrder, vars
<1>2. "feed" \notin stale' => "feed" \notin stale
  BY DEF RejectOrder
<1>3. stats["orders_received"] < MaxReceived
  BY DEF RejectOrder, Reaches
<1>4. Numbered'
  <2>1. stats' = [stats EXCEPT !.orders_received = @ + 1, !.orders_rejected = @ + 1]
    BY DEF RejectOrder
  <2>2. stats'["orders_received"] = stats["orders_received"] + 1
    BY <2>1 DEF WireInv, Numbered, Counters
  <2>3. stats["orders_received"] \in Nat /\ sequence \in Nat
    BY DEF WireInv, Numbered, Counters, BookTypes
  <2>4. MaxReceived \in Nat
    BY MaxReceivedAssumption, SpanAssumption
  <2> QED BY <2>2, <2>3, <2>4, <1>1, <1>3 DEF WireInv, Numbered, Counted
<1>5. TakerTrades'
  BY <1>1 DEF WireInv, TakerTrades, LastTrades, Quantities
<1>6. AnswerInv'
  BY <1>1 DEF AnswerInv, AnswerExact
<1>7. Snapshot(SixBytes[Listed], Depth)' = Snapshot(SixBytes[Listed], Depth)
  BY <1>1 DEF Snapshot, LevelsOf, Sorted, Nth
<1>8. FeedExact'
  BY <1>1, <1>2, <1>7 DEF WireInv, FeedExact
<1> QED BY <1>4, <1>5, <1>6, <1>8 DEF WireInv

\* A new order has no trades yet.
LEMMA WireAccept ==
    ASSUME BookInv, WireInv, Counted, NEW order \in Submission, NEW path,
           AcceptOrder(order, path)
    PROVE  WireInv'
<1>1. BookTypes
  BY DEF BookInv
<1>2. PICK o \in OrderId : \E r \in Request :
        /\ req[o] = None
        /\ r.order_type = "LIMIT" => r.price \in Price
        /\ Submit(o, r)
  BY AcceptedOrder
<1>3. PICK r \in Request : req[o] = None /\ Submit(o, r)
  BY <1>2
<1>4. /\ req' = [req EXCEPT ![o] = r] /\ filled' = [filled EXCEPT ![o] = 0]
      /\ taker' = o /\ trades' = trades /\ sequence' = sequence + 1
  BY <1>3 DEF Submit
<1>5. o # None /\ r # None
  BY NoneAssumption
<1>6. answer' = None
  BY DEF AcceptOrder
<1>7. Numbered'
  <2>1. stats' = [stats EXCEPT !.orders_received = @ + 1]
    BY DEF AcceptOrder
  <2>2. stats'["orders_received"] = stats["orders_received"] + 1
    BY <2>1 DEF WireInv, Numbered, Counters
  <2>3. stats["orders_received"] \in Nat /\ sequence \in Nat
    BY <1>1 DEF WireInv, Numbered, Counters, BookTypes
  <2>4. MaxReceived \in Nat
    BY MaxReceivedAssumption, SpanAssumption
  <2>5. stats["orders_received"] < MaxReceived
    BY DEF AcceptOrder, Reaches
  <2> QED BY <2>2, <2>3, <2>4, <2>5, <1>4 DEF WireInv, Numbered, Counted
<1>8. TakerTrades'
  <2>1. PICK len \in Nat : len = Len(trades) /\ DOMAIN trades = 1..len
    BY <1>1 DEF BookTypes
  <2>2. \A i \in 1..len : trades[i].taker \in OrderId
    BY <2>1, <1>1, TradeTypes
  <2>3. \A i \in 1..len : trades[i].taker # o /\ req[trades[i].taker] # None
    BY <2>1, <1>3 DEF WireInv, TakerTrades
  <2>4. \A i \in 1..len : req'[trades[i].taker] # None
    BY <2>2, <2>3, <1>1, <1>4 DEF BookTypes
  <2>5. LastTrades(o, 0)'
    BY <2>1, <2>3, <1>4 DEF LastTrades
  <2>6. PICK s : s = Quantities(0)'
    OBVIOUS
  <2>7. DOMAIN s = {}
    BY <2>6 DEF Quantities
  <2>8. SumFunction(s) = 0
    BY <2>7, SumEmpty DEF SumFunction
  <2>9. filled'[o] = 0
    BY <1>1, <1>4 DEF BookTypes
  <2>10. \E n \in Nat : LastTrades(taker, n)' /\ SumFunction(Quantities(n)') = filled'[taker']
    <3>1. LastTrades(taker, 0)' /\ SumFunction(Quantities(0)') = filled'[taker']
      BY <2>5, <2>6, <2>8, <2>9, <1>4 DEF LastTrades
    <3> QED BY <3>1
  <2> QED BY <2>1, <2>4, <2>10, <1>4 DEF TakerTrades
<1>9. AnswerInv'
  BY <1>6 DEF AnswerInv, AnswerExact
<1>10. FeedExact'
  BY <1>4, <1>5 DEF FeedExact
<1> QED BY <1>7, <1>8, <1>9, <1>10 DEF WireInv

\* A fill is one more trade of the order being matched.
LEMMA WireMatch ==
    ASSUME BookInv, BookTypes', WireInv, Counted, MatchStep
    PROVE  WireInv'
<1>1. BookTypes /\ OrdersSound /\ Fill
  BY DEF BookInv, MatchStep
<1>2. PICK s \in Side, p \in Price, r \in OrderId, q \in Nat : FillOf(s, p, r, q)
  BY <1>1, FillFacts
<1>3. filled'[taker] = filled[taker] + q
  BY <1>1, <1>2, FillOrders
<1>4. /\ taker \in OrderId /\ taker # None /\ taker' = taker /\ req' = req
      /\ sequence' = sequence /\ req[taker] # None
  BY <1>2, NoneAssumption DEF FillOf
<1>5. stats' = stats /\ answer' = answer
  BY DEF MatchStep
<1>6. answer = None
  BY <1>4 DEF WireInv, AnswerInv
<1>7. PICK t : t = [maker |-> r, taker |-> taker, price |-> req[r].price, quantity |-> q]
  OBVIOUS
<1>8. trades' = Append(trades, t) /\ t.quantity = q /\ t.taker = taker
  BY <1>2, <1>7 DEF FillOf
<1>9. PICK len \in Nat : len = Len(trades) /\ DOMAIN trades = 1..len
  BY <1>1 DEF BookTypes
<1>10. /\ DOMAIN trades' = 1..len + 1 /\ Len(trades') = len + 1
       /\ trades'[len + 1] = t /\ \A i \in 1..len : trades'[i] = trades[i]
  BY <1>1, <1>8, <1>9 DEF BookTypes
<1>11. PICK n \in Nat : LastTrades(taker, n) /\ SumFunction(Quantities(n)) = filled[taker]
  BY <1>4 DEF WireInv, TakerTrades
<1>12. n <= len /\ \A i \in 1..len : trades[i].taker = taker <=> i > len - n
  BY <1>9, <1>11 DEF LastTrades
<1>13. LastTrades(taker, n + 1)'
  <2>1. n + 1 <= len + 1 /\ (len + 1) - (n + 1) = len - n /\ len + 1 > len - n
    BY <1>12
  <2>2. \A i \in 1..len + 1 : i \in 1..len \/ i = len + 1
    OBVIOUS
  <2>3. \A i \in 1..len + 1 : trades'[i].taker = taker <=> i > len - n
    BY <2>1, <2>2, <1>8, <1>10, <1>12
  <2> QED BY <2>1, <2>3, <1>4, <1>10 DEF LastTrades
<1>14. PICK old : old = Quantities(n)
  OBVIOUS
<1>15. PICK new : new = Quantities(n + 1)'
  OBVIOUS
<1>16. old \in Seq(Int) /\ Len(old) = n
  <2>1. \A i \in 1..n : len - n + i \in 1..len
    BY <1>12
  <2>2. \A j \in 1..len : trades[j].quantity \in Nat
    BY <1>1, <1>9, TradeTypes
  <2>3. old \in [1..n -> Int]
    BY <2>1, <2>2, <1>9, <1>14 DEF Quantities
  <2> QED BY <2>3
<1>17. new = old \o <<q>>
  <2>1. new = [i \in 1..n + 1 |-> trades'[(len + 1) - (n + 1) + i].quantity]
    BY <1>10, <1>15 DEF Quantities
  <2>2. \A i \in 1..n : /\ len - n + i \in 1..len
                        /\ (len + 1) - (n + 1) + i = len - n + i
    BY <1>12
  <2>3. \A i \in 1..n : new[i] = old[i]
    <3>1. \A i \in 1..n : i \in 1..n + 1
      OBVIOUS
    <3>2. \A i \in 1..n : new[i] = trades'[len - n + i].quantity
      BY <2>1, <2>2, <3>1
    <3> QED BY <3>2, <2>2, <1>9, <1>10, <1>14 DEF Quantities
  <2>4. new[n + 1] = q
    <3>1. n + 1 \in 1..n + 1 /\ (len + 1) - (n + 1) + (n + 1) = len + 1
      OBVIOUS
    <3> QED BY <3>1, <2>1, <1>8, <1>10
  <2>5. new = [i \in 1..n + 1 |-> new[i]]
    BY <2>1
  <2>6. old \o <<q>> = [i \in 1..n + 1 |-> IF i <= n THEN old[i] ELSE q]
    BY <1>16
  <2>7. \A i \in 1..n + 1 : new[i] = IF i <= n THEN old[i] ELSE q
    BY <2>3, <2>4
  <2> QED BY <2>5, <2>6, <2>7
<1>18. SumFunction(new) = filled'[taker']
  <2>1. PICK one : one = <<q>>
    OBVIOUS
  <2>2. one \in Seq(Int) /\ one # <<>> /\ one[1] = q /\ Tail(one) = <<>>
    BY <2>1
  <2>3. SumFunction(<<>>) = 0
    <3>1. DOMAIN <<>> = {}
      OBVIOUS
    <3> QED BY <3>1, SumEmpty DEF SumFunction
  <2>4. SumFunction(one) = one[1] + SumFunction(Tail(one))
    BY <2>2, SumTail
  <2>5. SumFunction(one) = q
    <3>1. SumFunction(Tail(one)) = 0
      BY <2>2, <2>3
    <3>2. q + 0 = q
      OBVIOUS
    <3> QED BY ONLY <2>2, <2>4, <3>1, <3>2
  <2>6. SumFunction(old \o one) = SumFunction(old) + SumFunction(one)
    BY <2>2, <1>16, SumConcat
  <2>7. SumFunction(old) = filled[taker]
    BY <1>11, <1>14
  <2> QED BY <2>1, <2>5, <2>6, <2>7, <1>3, <1>4, <1>17
<1>19. TakerTrades'
  <2>1. \A i \in DOMAIN trades' : req'[trades'[i].taker] # None
    <3>1. \A i \in 1..len + 1 : i \in 1..len \/ i = len + 1
      OBVIOUS
    <3> QED BY <3>1, <1>4, <1>8, <1>9, <1>10 DEF WireInv, TakerTrades
  <2>2. n + 1 \in Nat
    OBVIOUS
  <2> QED BY <2>1, <2>2, <1>13, <1>15, <1>18 DEF TakerTrades
<1>20. Numbered'
  BY <1>4, <1>5, NumberedKept DEF WireInv
<1>21. AnswerInv'
  BY <1>5, <1>6 DEF AnswerInv, AnswerExact
<1>22. FeedExact'
  BY <1>4 DEF FeedExact
<1> QED BY <1>19, <1>20, <1>21, <1>22 DEF WireInv

\* submit returns: its caller is told what happened, and so are the listeners unless the
\* call came with bytes.
LEMMA WireReturns ==
    ASSUME BookInv, BookTypes', WireInv, Counted, SubmitReturns
    PROVE  WireInv'
<1>1. BookTypes /\ OrdersSound /\ Finish
  BY DEF BookInv, SubmitReturns
<1>2. PICK o : o = taker
  OBVIOUS
<1>3. o \in OrderId /\ o # None /\ req[o] # None
  BY <1>1, <1>2 DEF Finish, BookTypes, OrdersSound
<1>4. /\ taker' = None /\ req' = req /\ filled' = filled /\ trades' = trades
      /\ sequence' = sequence
  BY <1>1 DEF Finish
<1>5. PICK n \in Nat : LastTrades(o, n) /\ SumFunction(Quantities(n)) = filled[o]
  BY <1>2, <1>3 DEF WireInv, TakerTrades
<1>6. PICK ts : ts = TradesOf(o)
  OBVIOUS
<1>7. /\ DOMAIN ts = 1..n /\ Len(ts) = n
      /\ \A i \in 1..n : ts[i].aggressor_side = req[o].side
      /\ TotalFilled(ts) = Low(4, SumFunction(Quantities(n)))
  BY <1>1, <1>5, <1>6, TradesOfLast
<1>8. /\ req[o].side \in Side /\ filled[o] \in 0 .. Span[4] - 1
  <2>1. req[o] \in Request
    BY <1>1, <1>3 DEF BookTypes
  <2>2. req[o].side \in Side /\ req[o].quantity \in 0 .. Span[4] - 1
    BY <2>1 DEF Request
  <2>3. filled[o] \in Nat /\ filled[o] <= req[o].quantity
    BY <1>1, <1>3 DEF BookTypes, OrdersSound
  <2> QED BY <2>2, <2>3, SpanAssumption
<1>9. TotalFilled(ts) = filled[o]
  BY <1>5, <1>7, <1>8, LowFits
<1>10. PICK st, resting : st = status'[o] /\ resting = (cancel_map'[o] # None)
  OBVIOUS
<1>11. st \in DOMAIN STATUS_TO_WIRE /\ resting \in BOOLEAN
  BY <1>3, <1>10 DEF BookTypes
<1>12. PICK r : r = [trades |-> ts, total_filled |-> filled[o], status |-> st,
                     resting |-> resting]
  OBVIOUS
<1>13. Result(o) = r
  BY <1>6, <1>9, <1>10, <1>12 DEF Result
<1>14. Native(o)' = r
  <2>1. TradesOf(o)' = ts
    BY <1>4, <1>6 DEF TradesOf
  <2> QED BY <2>1, <1>4, <1>10, <1>12 DEF Native
<1>15. /\ DOMAIN r.trades = 1..n /\ Len(r.trades) = n
       /\ r.total_filled \in 0 .. Span[4] - 1 /\ r.status \in DOMAIN STATUS_TO_WIRE
       /\ r.resting \in BOOLEAN
       /\ \A i \in 1..n : r.trades[i].aggressor_side \in Side
       /\ {"trades", "total_filled", "status", "resting"} \subseteq DOMAIN r
  BY <1>7, <1>8, <1>11, <1>12
<1>16. ASSUME n < Span[2]
       PROVE  /\ CppEncodeResult(r) = EncodeResult(r)
              /\ Tells(DecodeResult(CppEncodeResult(r)), r)
  <2>1. n \in 0 .. Span[2] - 1
    BY <1>16, SpanAssumption
  <2> QED BY <2>1, <1>15, ResultFrames
<1>17. Tells(Detail(r), r)
  BY <1>15, DetailTells
<1>18. answer' = [order |-> o, result |-> Detail(r)]
       \/ answer' = [order |-> o, result |-> DecodeResult(CppEncodeResult(r))]
  BY <1>2, <1>13 DEF SubmitReturns, ProjectSubmission, ReplyBytes
<1>19. AnswerInv'
  <2>1. answer'.order = o
    BY <1>18
  <2>2. answer'.result = Detail(r) \/ answer'.result = DecodeResult(CppEncodeResult(r))
    BY <1>18
  <2>3. Len(TradesOf(o)') = n
    BY <1>4, <1>6, <1>7 DEF TradesOf
  <2>4. Len(TradesOf(answer.order)') = n /\ Native(answer.order)' = r
    <3>1. TradesOf(answer.order)' = TradesOf(o)'
      BY <2>1 DEF TradesOf
    <3>2. Native(answer.order)' = Native(o)'
      BY <2>1, <3>1 DEF Native
    <3> QED BY <2>3, <3>1, <3>2, <1>14
  <2>5. n < Span[2] => /\ CppEncodeResult(r) = EncodeResult(r)
                       /\ Tells(answer'.result, r)
    BY <2>2, <1>16, <1>17
  <2>6. AnswerExact'
    BY <2>4, <2>5 DEF AnswerExact
  <2> QED BY <2>6, <1>4 DEF AnswerInv
<1>20. TakerTrades'
  BY <1>4 DEF WireInv, TakerTrades
<1>21. Numbered'
  <2>1. PICK res : stats' = [stats EXCEPT
            !.orders_resting  = @ + (IF res.resting THEN 1 ELSE 0),
            !.orders_matched  = @ + (IF res.trades # <<>> THEN 1 ELSE 0),
            !.trades_executed = @ + Len(res.trades),
            !.total_volume    = @ + res.total_filled]
    BY DEF SubmitReturns
  <2>2. stats'["orders_received"] = stats["orders_received"]
    BY <2>1 DEF WireInv, Numbered, Counters
  <2> QED BY <2>2, <1>4, NumberedKept DEF WireInv
<1>22. FeedExact'
  <2>1. CASE via = "object"
    <3>1. feed' = GetSnapshot'
      BY <2>1 DEF SubmitReturns, ProjectSubmission, Emit
    <3>2. feed' = Snapshot(SixBytes[Listed], Depth)'
      BY <3>1, <1>21, SnapshotRead
    <3> QED BY <3>2 DEF FeedExact
  <2>2. CASE via # "object"
    <3>1. "feed" \in stale'
      BY <2>2 DEF SubmitReturns, ReplyBytes
    <3> QED BY <3>1 DEF FeedExact
  <2> QED BY <2>1, <2>2
<1> QED BY <1>19, <1>20, <1>21, <1>22 DEF WireInv

\* A cancel sends out the book as it is then, or leaves the last event stale.
LEMMA WireCancel ==
    ASSUME BookInv, BookTypes', WireInv, Counted, NEW o \in OrderId,
           CancelOrder(o) \/ CancelOrderBytes(o)
    PROVE  WireInv'
<1>1. NativeCancel(o) /\ CancelResting(o)
  BY DEF CancelOrder, CancelOrderBytes, NativeCancel
<1>2. taker' = taker /\ taker = None /\ req' = req /\ trades' = trades /\ sequence' = sequence
  BY <1>1 DEF CancelResting
<1>3. answer' = None
  BY <1>1 DEF NativeCancel
<1>4. TakerTrades'
  BY <1>2 DEF WireInv, TakerTrades
<1>5. Numbered'
  <2>1. stats' = [stats EXCEPT !.orders_cancelled = @ + 1,
                               !.orders_resting = IF @ > 0 THEN @ - 1 ELSE @]
    BY <1>1 DEF NativeCancel
  <2>2. stats'["orders_received"] = stats["orders_received"]
    BY <2>1 DEF WireInv, Numbered, Counters
  <2> QED BY <2>2, <1>2, NumberedKept DEF WireInv
<1>6. AnswerInv'
  BY <1>3 DEF AnswerInv, AnswerExact
<1>7. FeedExact'
  <2>1. CASE CancelOrder(o)
    <3>1. feed' = GetSnapshot'
      BY <2>1 DEF CancelOrder, Emit
    <3>2. feed' = Snapshot(SixBytes[Listed], Depth)'
      BY <3>1, <1>5, SnapshotRead
    <3> QED BY <3>2 DEF FeedExact
  <2>2. CASE CancelOrderBytes(o)
    <3>1. "feed" \in stale'
      BY <2>2 DEF CancelOrderBytes
    <3> QED BY <3>1 DEF FeedExact
  <2> QED BY <2>1, <2>2
<1> QED BY <1>4, <1>5, <1>6, <1>7 DEF WireInv

\* The steps of the backend, as far as callers and listeners are concerned.
LEMMA WireStep ==
    ASSUME BookInv, WireInv, [HALNext]_halVars
    PROVE  WireInv'
<1>1. BookTypes /\ BookTypes'
  BY BookStep DEF BookInv
<1>2. Counted
  BY <1>1, StatsGrow DEF WireInv, Numbered
<1>3. CASE UNCHANGED halVars
  BY <1>3, WireIdle DEF halVars
<1>4. CASE RegisterSymbol
  BY <1>4, WireIdle DEF RegisterSymbol
<1>5. ASSUME NEW order, SubmitRaises(order) PROVE WireInv'
  BY <1>3, <1>5 DEF SubmitRaises
<1>6. ASSUME NEW order, NEW path, RejectOrder(order, path) PROVE WireInv'
  BY <1>1, <1>2, <1>6, WireReject
<1>7. ASSUME NEW path \in Path, NEW order \in Submissions[path], AcceptOrder(order, path)
      PROVE  WireInv'
  <2>1. order \in Submission
    BY SubmissionsAssumption
  <2> QED BY <2>1, <1>2, <1>7, WireAccept
<1>8. CASE MatchStep
  BY <1>1, <1>2, <1>8, WireMatch
<1>9. CASE SubmitReturns
  BY <1>1, <1>2, <1>9, WireReturns
<1>10. ASSUME NEW o, CancelMisses(o) PROVE WireInv'
  BY <1>3, <1>10 DEF CancelMisses
<1>11. ASSUME NEW o \in OrderId, CancelOrder(o) \/ CancelOrderBytes(o) PROVE WireInv'
  BY <1>1, <1>2, <1>11, WireCancel
<1>12. ASSUME NEW o \in OrderId, GetOrder(o) PROVE WireInv'
  <2>1. stale' = stale \ {o} /\ UNCHANGED <<vars, stats, feed, answer>>
    BY <1>12 DEF GetOrder
  <2>2. "feed" \notin stale' => "feed" \notin stale
    BY <2>1, OrderIdAssumption
  <2> QED BY <2>1, <2>2, WireIdle
<1> QED BY <1>3, <1>4, <1>5, <1>6, <1>7, <1>8, <1>9, <1>10, <1>11, <1>12 DEF HALNext

\* At first nothing has been traded, told or sent out.
LEMMA WireInitInv == HALInit => WireInv
<1> SUFFICES ASSUME HALInit PROVE WireInv
  OBVIOUS
<1>1. /\ trades = <<>> /\ taker = None /\ sequence = 0 /\ answer = None /\ feed = None
      /\ stats = [k \in Counters |-> 0]
  BY DEF HALInit, BookInit
<1>2. Numbered
  <2>1. MaxReceived \in Nat
    BY MaxReceivedAssumption, SpanAssumption
  <2>2. stats \in [Counters -> Nat] /\ stats["orders_received"] = 0
    BY <1>1 DEF Counters
  <2> QED BY <2>1, <2>2, <1>1 DEF Numbered
<1>3. TakerTrades
  BY <1>1 DEF TakerTrades
<1>4. AnswerInv /\ FeedExact
  BY <1>1 DEF AnswerInv, AnswerExact, FeedExact
<1> QED BY <1>2, <1>3, <1>4 DEF WireInv

\* C++ and Python agree on every frame; each caller of submit learns the trades, the
\* fill and the fate of its order; the last event shows the book as it is, but for calls
\* on the bytes path since.
THEOREM WireStaysExact == HALSpec => []WireExact
<1>1. HALInit => BookInv /\ WireInv
  BY BookInitInv, WireInitInv DEF HALInit
<1>2. BookInv /\ WireInv /\ [HALNext]_halVars => BookInv' /\ WireInv'
  BY BookStep, WireStep
<1>3. BookInv /\ WireInv => WireExact
  <2> SUFFICES ASSUME BookInv, WireInv PROVE WireExact
    OBVIOUS
  <2>1. BookTypes
    BY DEF BookInv
  <2>2. OrdersOnWire
    BY <2>1, OrderFrames DEF OrdersOnWire
  <2>3. SnapshotOnWire
    BY <2>1, SnapshotSound DEF WireInv
  <2> QED BY <2>2, <2>3 DEF WireExact, WireInv, AnswerInv
<1> QED BY <1>1, <1>2, <1>3, PTL DEF HALSpec

-----------------------------------------------------------------------------
(* The lists of the C++ book and the queues of the Python book.            *)

\* q holds the nodes A in order of arrival.
IsList(q, A, st) ==
    /\ q \in Seq(A)
    /\ \A a \in A : \E i \in 1..Len(q) : q[i] = a
    /\ \A i, j \in 1..Len(q) : i < j => st[q[i]] < st[q[j]]

\* What such a list is, element by element.
LEMMA ListFacts ==
    ASSUME NEW A, NEW st, NEW q, IsList(q, A, st)
    PROVE  /\ Len(q) \in Nat /\ DOMAIN q = 1..Len(q)
           /\ \A i \in 1..Len(q) : q[i] \in A
BY LenProperties, ElementOfSeq DEF IsList

\* Of two lists of the same nodes, each begins with the other.
LEMMA ListPrefix ==
    ASSUME NEW A, NEW st, \A a \in A : st[a] \in Nat,
           NEW q, IsList(q, A, st), NEW r, IsList(r, A, st)
    PROVE  \A k \in 1..Len(q) : k \in 1..Len(r) /\ q[k] = r[k]
<1> DEFINE Same(k) == k \in 1..Len(r) /\ q[k] = r[k]
           Bad == {k \in 1..Len(q) : ~Same(k)}
<1>1. /\ Len(q) \in Nat /\ Len(r) \in Nat
      /\ \A i \in 1..Len(q) : q[i] \in A /\ st[q[i]] \in Nat
      /\ \A i \in 1..Len(r) : r[i] \in A /\ st[r[i]] \in Nat
  BY ListFacts
<1> SUFFICES ASSUME Bad # {} PROVE FALSE
  OBVIOUS
<1>2. PICK k \in Bad : \A j \in Bad : k <= j
  <2>1. Bad \in SUBSET Nat
    BY <1>1
  <2> QED BY <2>1, LeastNumber
<1>3. k \in 1..Len(q) /\ ~Same(k)
  OBVIOUS
<1>4. \A j \in 1..Len(q) : j < k => j \in 1..Len(r) /\ q[j] = r[j]
  BY <1>1, <1>2
<1>5. PICK j \in 1..Len(r) : r[j] = q[k]
  BY <1>1, <1>3 DEF IsList
<1>6. j > k
  <2>1. CASE j < k
    <3>1. q[j] = q[k] /\ j \in 1..Len(q)
      BY <2>1, <1>1, <1>3, <1>4, <1>5
    <3>2. st[q[j]] < st[q[k]]
      BY <3>1, <2>1, <1>3 DEF IsList
    <3> QED BY <3>1, <3>2, <1>1, <1>3
  <2>2. j # k
    BY <1>3, <1>5
  <2> QED BY <2>1, <2>2, <1>1, <1>3
<1>7. k \in 1..Len(r)
  BY <1>1, <1>3, <1>6
<1>8. PICK l \in 1..Len(q) : q[l] = r[k]
  BY <1>1, <1>7 DEF IsList
<1>9. l > k
  <2>1. CASE l < k
    <3>1. r[l] = r[k] /\ l \in 1..Len(r)
      BY <2>1, <1>4, <1>8
    <3>2. st[r[l]] < st[r[k]]
      BY <3>1, <2>1, <1>7 DEF IsList
    <3> QED BY <3>1, <3>2, <1>1, <1>7
  <2>2. l # k
    BY <1>3, <1>7, <1>8
  <2> QED BY <2>1, <2>2, <1>1, <1>3
<1>10. st[r[k]] < st[r[j]]
  BY <1>6, <1>7 DEF IsList
<1>11. st[q[k]] < st[q[l]]
  BY <1>3, <1>9 DEF IsList
<1> QED BY <1>1, <1>3, <1>5, <1>7, <1>8, <1>10, <1>11

\* Nodes have one list.
LEMMA ListUnique ==
    ASSUME NEW A, NEW st, \A a \in A : st[a] \in Nat,
           NEW q, IsList(q, A, st), NEW r, IsList(r, A, st)
    PROVE  q = r
<1>1. \A k \in 1..Len(q) : k \in 1..Len(r) /\ q[k] = r[k]
  BY ListPrefix
<1>2. \A k \in 1..Len(r) : k \in 1..Len(q) /\ r[k] = q[k]
  BY ListPrefix
<1>3. Len(q) \in Nat /\ Len(r) \in Nat
  BY ListFacts
<1>4. Len(q) = Len(r)
  BY <1>1, <1>2, <1>3
<1>5. q \in Seq(A) /\ r \in Seq(A)
  BY DEF IsList
<1> QED BY <1>1, <1>4, <1>5, SeqEqual

\* A node that came later goes to the end.
LEMMA ListAppend ==
    ASSUME NEW A, NEW st, \A a \in A : st[a] \in Nat, NEW q, IsList(q, A, st),
           NEW o, o \notin A, \A a \in A : st[a] < st[o]
    PROVE  IsList(Append(q, o), A \union {o}, st)
<1>1. /\ Len(q) \in Nat /\ \A i \in 1..Len(q) : q[i] \in A
  BY ListFacts
<1>2. q \in Seq(A \union {o})
  BY DEF IsList
<1>3. PICK r : r = Append(q, o)
  OBVIOUS
<1>4. /\ r \in Seq(A \union {o}) /\ Len(r) = Len(q) + 1
      /\ r[Len(q) + 1] = o /\ \A i \in 1..Len(q) : r[i] = q[i]
  BY <1>2, <1>3, AppendProperties
<1>5. \A a \in A \union {o} : \E i \in 1..Len(r) : r[i] = a
  <2>1. Len(q) + 1 \in 1..Len(r)
    BY <1>1, <1>4
  <2>2. ASSUME NEW a \in A PROVE \E i \in 1..Len(r) : r[i] = a
    <3>1. PICK i \in 1..Len(q) : q[i] = a
      BY DEF IsList
    <3>2. i \in 1..Len(r)
      BY <1>1, <1>4
    <3> QED BY <3>1, <3>2, <1>4
  <2> QED BY <2>1, <2>2, <1>4
<1>6. ASSUME NEW i \in 1..Len(r), NEW j \in 1..Len(r), i < j PROVE st[r[i]] < st[r[j]]
  <2>1. i \in 1..Len(q) /\ r[i] = q[i] /\ q[i] \in A
    BY <1>1, <1>4, <1>6
  <2>2. CASE j \in 1..Len(q)
    BY <2>1, <2>2, <1>4, <1>6 DEF IsList
  <2>3. CASE j = Len(q) + 1
    BY <2>1, <2>3, <1>4
  <2> QED BY <2>2, <2>3, <1>1, <1>4
<1> QED BY <1>3, <1>4, <1>5, <1>6 DEF IsList

\* A node that came before goes to the front.
LEMMA ListCons ==
    ASSUME NEW A, NEW st, \A a \in A : st[a] \in Nat, NEW q, IsList(q, A, st),
           NEW o, \A a \in A : st[o] < st[a]
    PROVE  IsList(<<o>> \o q, A \union {o}, st)
<1>1. /\ Len(q) \in Nat /\ \A i \in 1..Len(q) : q[i] \in A
  BY ListFacts
<1>2. q \in Seq(A \union {o}) /\ <<o>> \in Seq(A \union {o}) /\ Len(<<o>>) = 1
  BY DEF IsList
<1>3. PICK r : r = <<o>> \o q
  OBVIOUS
<1>4. /\ r \in Seq(A \union {o}) /\ Len(r) = 1 + Len(q)
      /\ \A i \in 1..Len(q) : 1 + i \in 1..Len(r) /\ r[1 + i] = q[i]
  BY <1>2, <1>3, ConcatIndices
<1>5. 1 \in 1..Len(r) /\ r[1] = o
  <2>1. \A i \in 1..Len(<<o>>) : i \in 1..Len(r) /\ r[i] = <<o>>[i]
    BY <1>2, <1>3, ConcatIndices
  <2> QED BY <2>1, <1>2
<1>6. \A a \in A \union {o} : \E i \in 1..Len(r) : r[i] = a
  <2>1. ASSUME NEW a \in A PROVE \E i \in 1..Len(r) : r[i] = a
    <3>1. PICK i \in 1..Len(q) : q[i] = a
      BY DEF IsList
    <3> QED BY <3>1, <1>4
  <2> QED BY <2>1, <1>5
<1>7. ASSUME NEW i \in 1..Len(r), NEW j \in 1..Len(r), i < j PROVE st[r[i]] < st[r[j]]
  <2>1. PICK k \in 1..Len(q) : j = 1 + k
    <3>1. j - 1 \in 1..Len(q) /\ j = 1 + (j - 1)
      BY <1>1, <1>4, <1>7
    <3> QED BY <3>1
  <2>2. r[j] = q[k] /\ q[k] \in A
    BY <2>1, <1>1, <1>4
  <2>3. CASE i = 1
    BY <2>2, <2>3, <1>5
  <2>4. CASE i # 1
    <3>1. PICK l \in 1..Len(q) : i = 1 + l
      <4>1. i - 1 \in 1..Len(q)
        BY <2>4, <1>1, <1>4
      <4> QED BY <4>1
    <3>2. r[i] = q[l] /\ l < k
      BY <3>1, <2>1, <1>1, <1>4, <1>7
    <3> QED BY <3>2, <2>2 DEF IsList
  <2> QED BY <2>3, <2>4
<1> QED BY <1>3, <1>4, <1>6, <1>7 DEF IsList

\* A node may go from anywhere.
LEMMA ListRemove ==
    ASSUME NEW A, NEW st, \A a \in A : st[a] \in Nat, NEW q, IsList(q, A, st),
           NEW i \in 1..Len(q)
    PROVE  IsList(RemoveAt(q, i), A \ {q[i]}, st)
<1>1. /\ Len(q) \in Nat /\ \A j \in 1..Len(q) : q[j] \in A /\ st[q[j]] \in Nat
  BY ListFacts
<1>2. q \in Seq(A)
  BY DEF IsList
<1>3. PICK r : r = RemoveAt(q, i)
  OBVIOUS
<1>4. /\ r \in Seq(A) /\ Len(r) = Len(q) - 1
      /\ \A j \in 1..Len(q) - 1 : r[j] = IF j < i THEN q[j] ELSE q[j + 1]
  BY <1>2, <1>3, RemoveAtProperties
<1>5. \A j, k \in 1..Len(q) : j < k => st[q[j]] < st[q[k]]
  BY DEF IsList
<1>6. \A j \in 1..Len(q) : j # i => q[j] # q[i]
  <2> SUFFICES ASSUME NEW j \in 1..Len(q), j # i PROVE q[j] # q[i]
    OBVIOUS
  <2>1. j < i \/ i < j
    BY <1>1
  <2> QED BY <2>1, <1>1, <1>5
<1>7. ASSUME NEW j \in 1..Len(r) PROVE r[j] \in A \ {q[i]}
  <2>1. CASE j < i
    BY <2>1, <1>1, <1>4, <1>6
  <2>2. CASE ~(j < i)
    <3>1. j + 1 \in 1..Len(q) /\ j + 1 # i
      BY <2>2, <1>1, <1>4
    <3> QED BY <3>1, <2>2, <1>1, <1>4, <1>6
  <2> QED BY <2>1, <2>2
<1>8. r \in Seq(A \ {q[i]})
  <2>1. DOMAIN r = 1..Len(r) /\ Len(r) \in Nat
    BY <1>4, LenProperties
  <2>2. r \in [1..Len(r) -> A \ {q[i]}]
    BY <2>1, <1>4, <1>7, LenProperties
  <2> QED BY <2>1, <2>2, SeqDef
<1>9. ASSUME NEW a \in A \ {q[i]} PROVE \E j \in 1..Len(r) : r[j] = a
  <2>1. PICK k \in 1..Len(q) : q[k] = a
    BY DEF IsList
  <2>2. CASE k < i
    <3>1. k \in 1..Len(r)
      BY <2>2, <1>1, <1>4
    <3> QED BY <3>1, <2>1, <2>2, <1>4
  <2>3. CASE k > i
    <3>1. PICK j : j = k - 1
      OBVIOUS
    <3>2. j \in 1..Len(r) /\ ~(j < i) /\ j + 1 = k
      BY <3>1, <2>3, <1>1, <1>4
    <3> QED BY <3>2, <2>1, <1>4
  <2>4. k # i
    BY <2>1
  <2> QED BY <2>2, <2>3, <2>4, <1>1
<1>10. ASSUME NEW j \in 1..Len(r), NEW k \in 1..Len(r), j < k PROVE st[r[j]] < st[r[k]]
  <2>1. PICK x \in 1..Len(q) : r[j] = q[x] /\ x = (IF j < i THEN j ELSE j + 1)
    <3>1. (IF j < i THEN j ELSE j + 1) \in 1..Len(q)
      BY <1>1, <1>4
    <3> QED BY <3>1, <1>4
  <2>2. PICK y \in 1..Len(q) : r[k] = q[y] /\ y = (IF k < i THEN k ELSE k + 1)
    <3>1. (IF k < i THEN k ELSE k + 1) \in 1..Len(q)
      BY <1>1, <1>4
    <3> QED BY <3>1, <1>4
  <2>3. x < y
    BY <2>1, <2>2, <1>1, <1>4, <1>10
  <2> QED BY <2>1, <2>2, <2>3, <1>5
<1> QED BY <1>3, <1>8, <1>9, <1>10 DEF IsList

\* The first node may go.
LEMMA ListTail ==
    ASSUME NEW A, NEW st, \A a \in A : st[a] \in Nat, NEW q, IsList(q, A, st), A # {}
    PROVE  /\ q # <<>> /\ Len(q) >= 1 /\ Head(q) = q[1] /\ q[1] \in A
           /\ IsList(Tail(q), A \ {q[1]}, st)
<1>1. /\ Len(q) \in Nat /\ \A j \in 1..Len(q) : q[j] \in A
  BY ListFacts
<1>2. q \in Seq(A)
  BY DEF IsList
<1>3. Len(q) >= 1
  <2>1. PICK a \in A : TRUE
    OBVIOUS
  <2>2. PICK i \in 1..Len(q) : q[i] = a
    BY DEF IsList
  <2> QED BY <2>2, <1>1
<1>4. q # <<>>
  BY <1>3
<1>5. /\ Head(q) = q[1] /\ Tail(q) \in Seq(A) /\ Len(Tail(q)) = Len(q) - 1
      /\ \A j \in 1..Len(Tail(q)) : Tail(q)[j] = q[j + 1]
  BY <1>2, <1>4, HeadTailProperties
<1>6. 1 \in 1..Len(q)
  BY <1>1, <1>3
<1>7. /\ RemoveAt(q, 1) \in Seq(A) /\ Len(RemoveAt(q, 1)) = Len(q) - 1
      /\ \A j \in 1..Len(q) - 1 : RemoveAt(q, 1)[j] = IF j < 1 THEN q[j] ELSE q[j + 1]
  BY <1>2, <1>6, RemoveAtProperties
<1>8. \A j \in 1..Len(Tail(q)) : Tail(q)[j] = RemoveAt(q, 1)[j]
  <2> SUFFICES ASSUME NEW j \in 1..Len(Tail(q)) PROVE Tail(q)[j] = RemoveAt(q, 1)[j]
    OBVIOUS
  <2>1. j \in 1..Len(q) - 1 /\ ~(j < 1)
    BY <1>1, <1>5
  <2> QED BY <2>1, <1>5, <1>7
<1>9. Tail(q) = RemoveAt(q, 1)
  BY <1>5, <1>7, <1>8, SeqEqual
<1>10. IsList(RemoveAt(q, 1), A \ {q[1]}, st)
  BY <1>6, ListRemove
<1> QED BY <1>1, <1>3, <1>4, <1>5, <1>6, <1>9, <1>10

\* Nothing has the empty list.
LEMMA ListEmpty == \A st : IsList(<<>>, {}, st)
<1>1. <<>> \in Seq({}) /\ Len(<<>>) = 0
  OBVIOUS
<1> QED BY <1>1 DEF IsList

\* Nodes that arrived one by one, up to some moment, have a list.
LEMMA ListExists ==
    ASSUME NEW A, NEW st, NEW last \in Nat, \A a \in A : st[a] \in Nat /\ st[a] <= last,
           \A a, b \in A : st[a] = st[b] => a = b
    PROVE  \E q : IsList(q, A, st)
<1> DEFINE UpTo(n) == {a \in A : st[a] <= n}
           Bad == {n \in Nat : ~\E q : IsList(q, UpTo(n), st)}
<1>1. CASE last \notin Bad
  <2>1. UpTo(last) = A
    OBVIOUS
  <2> QED BY <2>1, <1>1
<1>2. CASE last \in Bad
  <2>1. PICK k \in Bad : \A j \in Bad : k <= j
    <3>1. Bad \in SUBSET Nat /\ Bad # {}
      BY <1>2
    <3> HIDE DEF Bad
    <3> QED BY <3>1, LeastNumber
  <2>2. k \in Nat /\ ~\E q : IsList(q, UpTo(k), st)
    OBVIOUS
  <2>3. PICK B \in SUBSET A : /\ \E q : IsList(q, B, st)
                              /\ B = {a \in A : st[a] < k}
    <3>1. CASE k = 0
      <4>1. {a \in A : st[a] < k} = {}
        BY <3>1
      <4> QED BY <4>1, ListEmpty
    <3>2. CASE k # 0
      <4>1. k - 1 \in Nat /\ k - 1 \notin Bad
        <5> HIDE DEF Bad
        <5>1. \A j \in Bad : k <= j
          BY <2>1
        <5>2. k - 1 \in Nat /\ ~(k <= k - 1)
          BY <3>2, <2>2
        <5> QED BY <5>1, <5>2
      <4>2. {a \in A : st[a] < k} = UpTo(k - 1)
        BY <2>2
      <4> QED BY <4>1, <4>2
    <3> QED BY <3>1, <3>2
  <2>4. PICK q : IsList(q, B, st)
    BY <2>3
  <2>5. CASE \E a \in A : st[a] = k
    <3>1. PICK a \in A : st[a] = k
      BY <2>5
    <3>2. UpTo(k) = B \union {a}
      <4>1. \A b \in A : st[b] <= k <=> st[b] < k \/ b = a
        BY <3>1, <2>2
      <4> QED BY <4>1, <2>3
    <3>3. a \notin B /\ \A b \in B : st[b] \in Nat /\ st[b] < st[a]
      BY <3>1, <2>2, <2>3
    <3>4. IsList(Append(q, a), B \union {a}, st)
      BY <3>3, <2>4, ListAppend
    <3> QED BY <3>2, <3>4, <2>2
  <2>6. CASE ~\E a \in A : st[a] = k
    <3>1. UpTo(k) = B
      BY <2>2, <2>3, <2>6
    <3> QED BY <3>1, <2>2, <2>4
  <2> QED BY <2>5, <2>6
<1> QED BY <1>1, <1>2

\* The head of a chain came first, and no node arrived between two neighbours.
LEMMA ChainOrder ==
    ASSUME NEW A, NEW lk, NEW st, NEW level, Chain(A, lk, st, level), None \notin A,
           \A a \in A : st[a] \in Nat, \A a, b \in A : st[a] = st[b] => a = b
    PROVE  /\ \A x \in A : st[level.head] <= st[x]
           /\ \A a, x \in A : st[a] < st[x] =>
                lk[a].next \in A /\ st[a] < st[lk[a].next] /\ st[lk[a].next] <= st[x]
<1>1. level.head \in A
  BY DEF Chain
<1>2. \A x \in A : lk[x].prev = None => x = level.head
  BY DEF Chain
<1>3. \A x \in A : lk[x].prev # None => lk[x].prev \in A /\ lk[lk[x].prev].next = x
  BY DEF Chain
<1>4. \A x \in A : lk[x].next # None => lk[x].next \in A /\ st[x] < st[lk[x].next]
  BY DEF Chain
<1>5. \A x \in A : lk[x].prev # None => st[lk[x].prev] < st[x]
  BY <1>3, <1>4
<1>6. \A x \in A : st[level.head] <= st[x]
  <2> DEFINE Early == {st[x] : x \in A}
  <2>1. Early \in SUBSET Nat /\ Early # {}
    BY <1>1
  <2>2. PICK k \in Early : \A m \in Early : k <= m
    BY <2>1, LeastNumber
  <2>3. PICK y \in A : st[y] = k
    OBVIOUS
  <2>4. \A x \in A : st[y] <= st[x]
    BY <2>2, <2>3
  <2>5. y = level.head
    <3>1. CASE lk[y].prev = None
      BY <3>1, <2>3, <1>2
    <3>2. CASE lk[y].prev # None
      <4>1. PICK z \in A : z = lk[y].prev
        BY <3>2, <2>3, <1>3
      <4>2. st[z] < st[y] /\ st[y] <= st[z]
        BY <4>1, <3>2, <2>3, <2>4, <1>5
      <4> QED BY <4>1, <4>2, <2>3
    <3> QED BY <3>1, <3>2
  <2> QED BY <2>4, <2>5
<1> DEFINE Close(a, x) == lk[a].next \in A /\ st[lk[a].next] <= st[x]
           Bad == {st[x] : x \in {y \in A : \E a \in A : st[a] < st[y] /\ ~Close(a, y)}}
<1>7. Bad = {}
  <2> SUFFICES ASSUME Bad # {} PROVE FALSE
    OBVIOUS
  <2>1. Bad \in SUBSET Nat
    OBVIOUS
  <2>2. PICK k \in Bad : \A m \in Bad : k <= m
    <3> HIDE DEF Bad
    <3> QED BY <2>1, LeastNumber
  <2>3. PICK x \in A : st[x] = k /\ \E a \in A : st[a] < st[x] /\ ~Close(a, x)
    OBVIOUS
  <2>4. PICK a \in A : st[a] < st[x] /\ ~Close(a, x)
    BY <2>3
  <2>5. \A y, b \in A : st[y] < st[x] /\ st[b] < st[y] => Close(b, y)
    <3> SUFFICES ASSUME NEW y \in A, NEW b \in A, st[y] < st[x], st[b] < st[y], ~Close(b, y)
                 PROVE  FALSE
      OBVIOUS
    <3>1. st[y] \in Bad
      OBVIOUS
    <3> HIDE DEF Bad
    <3> QED BY <3>1, <2>2, <2>3
  <2> HIDE DEF Bad
  <2>6. lk[x].prev # None
    <3>1. st[level.head] <= st[a] /\ st[level.head] \in Nat
      BY <1>1, <1>6
    <3> QED BY <3>1, <2>4, <1>2
  <2>7. PICK y \in A : y = lk[x].prev
    BY <2>6, <1>3
  <2>8. lk[y].next = x /\ st[y] < st[x]
    BY <2>6, <2>7, <1>3, <1>5
  <2>9. CASE y = a
    BY <2>4, <2>8, <2>9
  <2>10. CASE st[a] < st[y]
    <3>1. Close(a, y)
      BY <2>5, <2>8, <2>10
    <3> QED BY <3>1, <2>4, <2>8
  <2>11. CASE st[y] < st[a]
    <3>1. Close(y, a)
      BY <2>4, <2>5, <2>11
    <3> QED BY <3>1, <2>4, <2>8
  <2> QED BY <2>9, <2>10, <2>11
<1>8. ASSUME NEW a \in A, NEW x \in A, st[a] < st[x] PROVE Close(a, x)
  <2>1. st[x] \notin Bad
    BY <1>7
  <2> QED BY <2>1, <1>8
<1> HIDE DEF Bad
<1>9. \A a \in A : lk[a].next \in A => st[a] < st[lk[a].next]
  BY <1>4
<1> QED BY <1>6, <1>8, <1>9

-----------------------------------------------------------------------------
(* A walk along the links.                                                 *)

\* The node o and those behind it in its level.
Later(cm, st, o) == {n \in OrderId : cm[n] = cm[o] /\ st[n] >= st[o]}

\* The links lk of the nodes that cm places, which arrived by the time last, follow
\* their order of arrival, and the other nodes have none.
Linked(cm, lk, st, last) ==
    /\ last \in Nat
    /\ \A o \in OrderId : /\ st[o] \in Nat /\ st[o] <= last
                          /\ cm[o] = None => lk[o].next = None
    /\ \A o \in OrderId : cm[o] # None =>
         /\ \A n \in OrderId : cm[n] = cm[o] /\ st[n] = st[o] => n = o
         /\ lk[o].next = None => Later(cm, st, o) = {o}
         /\ lk[o].next # None =>
              /\ lk[o].next \in OrderId /\ cm[lk[o].next] = cm[o] /\ st[o] < st[lk[o].next]
              /\ Later(cm, st, o) = Later(cm, st, lk[o].next) \union {o}

IsWalk(g, lk) ==
    g = [o \in OrderId \union {None} |->
            IF o = None THEN <<>> ELSE <<o>> \o g[lk[o].next]]

\* The walk from a node, given the one from the next.
LEMMA WalkStep ==
    ASSUME NEW cm, NEW lk, NEW st, NEW last, Linked(cm, lk, st, last),
           NEW o \in OrderId, cm[o] # None, NEW rest,
           lk[o].next = None => rest = <<>>,
           lk[o].next # None => IsList(rest, Later(cm, st, lk[o].next), st)
    PROVE  IsList(<<o>> \o rest, Later(cm, st, o), st)
<1>1. CASE lk[o].next = None
  <2>1. Later(cm, st, o) = {} \union {o}
    BY <1>1 DEF Linked
  <2>2. IsList(<<>>, {}, st)
    BY ListEmpty
  <2>3. IsList(<<o>> \o <<>>, {} \union {o}, st)
    BY <2>2, ListCons
  <2> QED BY <2>1, <2>3, <1>1
<1>2. CASE lk[o].next # None
  <2>1. PICK n \in OrderId : n = lk[o].next
    BY <1>2 DEF Linked
  <2>2. st[o] < st[n] /\ Later(cm, st, o) = Later(cm, st, n) \union {o}
    BY <2>1, <1>2 DEF Linked
  <2>3. st[o] \in Nat /\ \A a \in Later(cm, st, n) : st[a] \in Nat /\ st[a] >= st[n]
    BY DEF Linked, Later
  <2>4. \A a \in Later(cm, st, n) : st[o] < st[a]
    BY <2>1, <2>2, <2>3 DEF Linked
  <2>5. IsList(rest, Later(cm, st, n), st)
    BY <2>1, <1>2
  <2>6. IsList(<<o>> \o rest, Later(cm, st, n) \union {o}, st)
    BY <2>3, <2>4, <2>5, ListCons
  <2> QED BY <2>2, <2>6
<1> QED BY <1>1, <1>2

\* The list of the nodes behind o.
ListFrom(cm, st, o) == CHOOSE q : IsList(q, Later(cm, st, o), st)

\* That list exists.
LEMMA ListFromFacts ==
    ASSUME NEW cm, NEW lk, NEW st, NEW last, Linked(cm, lk, st, last),
           NEW o \in OrderId, cm[o] # None
    PROVE  IsList(ListFrom(cm, st, o), Later(cm, st, o), st)
<1>1. PICK A : A = Later(cm, st, o)
  OBVIOUS
<1>2. /\ last \in Nat /\ \A a \in A : a \in OrderId /\ cm[a] = cm[o]
      /\ \A a \in A : st[a] \in Nat /\ st[a] <= last
  BY <1>1 DEF Linked, Later
<1>3. \A a, b \in A : st[a] = st[b] => a = b
  BY <1>2 DEF Linked
<1>4. \E q : IsList(q, A, st)
  BY <1>2, <1>3, ListExists
<1> QED BY <1>1, <1>4 DEF ListFrom

\* There is a walk.
LEMMA WalkExists ==
    ASSUME NEW cm, NEW lk, NEW st, NEW last, Linked(cm, lk, st, last)
    PROVE  \E g : IsWalk(g, lk)
<1> DEFINE At1(o) == IF o = None THEN <<>>
                     ELSE IF cm[o] = None THEN <<o>> ELSE ListFrom(cm, st, o)
           g == [o \in OrderId \union {None} |-> At1(o)]
<1>1. None \notin OrderId
  BY NoneAssumption
<1>2. ASSUME NEW o \in OrderId PROVE g[o] = <<o>> \o g[lk[o].next]
  <2>1. CASE cm[o] = None
    <3>1. lk[o].next = None /\ g[None] = <<>> /\ g[o] = <<o>>
      BY <2>1, <1>1 DEF Linked
    <3>2. <<o>> \o <<>> = <<o>>
      OBVIOUS
    <3> QED BY <3>1, <3>2
  <2>2. CASE cm[o] # None
    <3>1. PICK rest : rest = g[lk[o].next]
      OBVIOUS
    <3>2. lk[o].next = None => rest = <<>>
      BY <3>1
    <3>3. ASSUME lk[o].next # None PROVE IsList(rest, Later(cm, st, lk[o].next), st)
      <4>1. PICK n \in OrderId : n = lk[o].next
        BY <3>3, <2>2 DEF Linked
      <4>2. cm[n] # None
        BY <4>1, <3>3, <2>2 DEF Linked
      <4>3. rest = ListFrom(cm, st, n)
        BY <4>1, <4>2, <3>1, <1>1
      <4> QED BY <4>1, <4>2, <4>3, ListFromFacts
    <3>4. IsList(<<o>> \o rest, Later(cm, st, o), st)
      BY <3>2, <3>3, <2>2, WalkStep
    <3>5. IsList(ListFrom(cm, st, o), Later(cm, st, o), st)
      BY <2>2, ListFromFacts
    <3>6. \A a \in Later(cm, st, o) : st[a] \in Nat
      BY DEF Later, Linked
    <3>7. <<o>> \o rest = ListFrom(cm, st, o)
      BY <3>4, <3>5, <3>6, ListUnique
    <3>8. g[o] = ListFrom(cm, st, o)
      BY <2>2, <1>1
    <3> QED BY <3>1, <3>7, <3>8
  <2> QED BY <2>1, <2>2
<1>3. g[None] = <<>>
  OBVIOUS
<1>4. \A o \in OrderId \union {None} : g[o] = IF o = None THEN <<>> ELSE <<o>> \o g[lk[o].next]
  BY <1>1, <1>2, <1>3
<1>5. g = [o \in OrderId \union {None} |-> g[o]]
  OBVIOUS
<1>6. IsWalk(g, lk)
  <2> HIDE DEF g
  <2> QED BY <1>4, <1>5 DEF IsWalk
<1> QED BY <1>6

\* Following is a walk.
LEMMA FollowingWalks ==
    ASSUME NEW lk, \E g : IsWalk(g, lk)
    PROVE  IsWalk(Following(lk), lk)
BY DEF Following, IsWalk

\* A walk from a node visits the nodes behind it in order of arrival.
LEMMA WalkIsList ==
    ASSUME NEW cm, NEW lk, NEW st, NEW last, Linked(cm, lk, st, last), NEW g, IsWalk(g, lk)
    PROVE  \A o \in OrderId : cm[o] # None => IsList(g[o], Later(cm, st, o), st)
<1> DEFINE Good(o) == IsList(g[o], Later(cm, st, o), st)
           Bad == {last - st[o] : o \in {n \in OrderId : cm[n] # None /\ ~Good(n)}}
<1> SUFFICES ASSUME Bad # {} PROVE FALSE
  OBVIOUS
<1>1. Bad \in SUBSET Nat
  BY DEF Linked
<1>2. PICK k \in Bad : \A m \in Bad : k <= m
  <2> HIDE DEF Bad
  <2> QED BY <1>1, LeastNumber
<1>3. PICK o \in OrderId : k = last - st[o] /\ cm[o] # None /\ ~Good(o)
  OBVIOUS
<1>4. \A n \in OrderId : cm[n] # None /\ st[o] < st[n] => Good(n)
  <2> SUFFICES ASSUME NEW n \in OrderId, cm[n] # None, st[o] < st[n], ~Good(n) PROVE FALSE
    OBVIOUS
  <2>1. last - st[n] \in Bad
    OBVIOUS
  <2>2. last \in Nat /\ st[n] \in Nat /\ st[o] \in Nat
    BY DEF Linked
  <2> HIDE DEF Bad, Good
  <2> QED BY <2>1, <2>2, <1>2, <1>3
<1>5. None \notin OrderId
  BY NoneAssumption
<1>6. g[o] = <<o>> \o g[lk[o].next] /\ g[None] = <<>>
  BY <1>5 DEF IsWalk
<1>7. PICK rest : rest = g[lk[o].next]
  OBVIOUS
<1>8. lk[o].next = None => rest = <<>>
  BY <1>6, <1>7
<1>9. ASSUME lk[o].next # None PROVE IsList(rest, Later(cm, st, lk[o].next), st)
  <2>1. PICK n \in OrderId : n = lk[o].next
    BY <1>3, <1>9 DEF Linked
  <2>2. cm[n] # None /\ st[o] < st[n]
    BY <2>1, <1>3, <1>9 DEF Linked
  <2>3. Good(n)
    BY <2>2, <1>4
  <2> QED BY <2>1, <2>3, <1>7
<1>10. Good(o)
  BY <1>3, <1>6, <1>7, <1>8, <1>9, WalkStep
<1> QED BY <1>3, <1>10

-----------------------------------------------------------------------------
(* The Python view of the book.                                            *)

\* No two orders have the same stamp, only limit orders rest, and market orders
\* have no price.
StampsDiffer ==
    \A m, n \in OrderId : req[m] # None /\ req[n] # None /\ stamp[m] = stamp[n] => m = n

RestingAreLimits == \A o \in OrderId : cancel_map[o] # None => req[o].order_type = "LIMIT"

MarketsUnpriced ==
    \A o \in OrderId : req[o] # None /\ req[o].order_type = "MARKET" => req[o].price = 0

ParityInv == StampsDiffer /\ RestingAreLimits /\ MarketsUnpriced

\* The links of the book follow the order of arrival.
LEMMA InvLinked ==
    ASSUME BookInv, StampsDiffer
    PROVE  Linked(cancel_map, link, stamp, sequence)
<1>1. BookTypes /\ OrdersSound /\ ListInv
  BY DEF BookInv
<1>2. /\ sequence \in Nat
      /\ \A o \in OrderId : stamp[o] \in Nat /\ stamp[o] <= sequence
  BY <1>1 DEF BookTypes, OrdersSound
<1>3. ASSUME NEW o \in OrderId, cancel_map[o] = None PROVE link[o].next = None
  BY <1>1, <1>3 DEF ListInv, Lists, Unlinked
<1>4. ASSUME NEW o \in OrderId, cancel_map[o] # None
      PROVE  /\ \A n \in OrderId : cancel_map[n] = cancel_map[o] /\ stamp[n] = stamp[o] => n = o
             /\ link[o].next = None => Later(cancel_map, stamp, o) = {o}
             /\ link[o].next # None =>
                  /\ link[o].next \in OrderId /\ cancel_map[link[o].next] = cancel_map[o]
                  /\ stamp[o] < stamp[link[o].next]
                  /\ Later(cancel_map, stamp, o) =
                       Later(cancel_map, stamp, link[o].next) \union {o}
  <2>1. PICK s \in Side, p \in Price : cancel_map[o] = <<s, p>>
    BY <1>1, <1>4 DEF BookTypes
  <2>2. PICK A : A = Placed(cancel_map, s, p)
    OBVIOUS
  <2>3. p \in DOMAIN book[s]
    BY <2>1, RestingFacts
  <2>4. Chain(A, link, stamp, book[s][p])
    BY <2>2, <2>3, <1>1 DEF ListInv, Lists, LevelSound
  <2>5. None \notin A /\ \A n \in A : n \in OrderId /\ cancel_map[n] = cancel_map[o] /\ cancel_map[n] # None
    BY <2>1, <2>2, PlacedFacts
  <2>6. o \in A /\ \A n \in OrderId : cancel_map[n] = cancel_map[o] => n \in A
    BY <2>1, <2>2 DEF Placed
  <2>7. \A n \in A : req[n] # None /\ stamp[n] \in Nat
    BY <2>5, <1>1, <1>2 DEF OrdersSound
  <2>8. \A a, b \in A : stamp[a] = stamp[b] => a = b
    BY <2>5, <2>7 DEF StampsDiffer
  <2>9. \A a, x \in A : stamp[a] < stamp[x] =>
          link[a].next \in A /\ stamp[a] < stamp[link[a].next] /\ stamp[link[a].next] <= stamp[x]
    BY <2>4, <2>5, <2>7, <2>8, ChainOrder
  <2>10. \A n : n \in Later(cancel_map, stamp, o) <=> n \in A /\ stamp[n] >= stamp[o]
    BY <2>5, <2>6 DEF Later
  <2>11. ASSUME link[o].next = None PROVE Later(cancel_map, stamp, o) = {o}
    <3>1. ASSUME NEW n \in A, stamp[n] >= stamp[o] PROVE n = o
      <4>1. ~(stamp[o] < stamp[n])
        BY <2>5, <2>6, <2>9, <2>11
      <4> QED BY <4>1, <3>1, <2>6, <2>7, <2>8
    <3>2. stamp[o] >= stamp[o]
      BY <1>2
    <3> QED BY <3>1, <3>2, <2>6, <2>10
  <2>12. ASSUME link[o].next # None
         PROVE  /\ link[o].next \in OrderId /\ cancel_map[link[o].next] = cancel_map[o]
                /\ stamp[o] < stamp[link[o].next]
                /\ Later(cancel_map, stamp, o) =
                     Later(cancel_map, stamp, link[o].next) \union {o}
    <3>1. PICK n \in A : n = link[o].next /\ stamp[o] < stamp[n]
      BY <2>4, <2>6, <2>12 DEF Chain
    <3>2. n \in OrderId /\ cancel_map[n] = cancel_map[o]
      BY <2>5
    <3>3. \A x : x \in Later(cancel_map, stamp, n) <=> x \in A /\ stamp[x] >= stamp[n]
      BY <3>2, <2>5, <2>6 DEF Later
    <3>4. ASSUME NEW x \in A PROVE stamp[x] >= stamp[o] <=> stamp[x] >= stamp[n] \/ x = o
      <4>1. stamp[x] \in Nat /\ stamp[o] \in Nat /\ stamp[n] \in Nat
        BY <2>6, <2>7
      <4>2. stamp[x] = stamp[o] => x = o
        BY <2>6, <2>8
      <4>3. stamp[o] < stamp[x] => stamp[n] <= stamp[x]
        BY <3>1, <2>6, <2>9
      <4> QED BY <4>1, <4>2, <4>3, <3>1
    <3>5. Later(cancel_map, stamp, o) = Later(cancel_map, stamp, n) \union {o}
      BY <3>3, <3>4, <2>6, <2>10
    <3> QED BY <3>1, <3>2, <3>5
  <2> QED BY <2>5, <2>6, <2>8, <2>11, <2>12
<1> QED BY <1>2, <1>3, <1>4 DEF Linked

\* f has an entry for each price of each side.
Table(f) == f = [s \in Side |-> [p \in Price |-> f[s][p]]]

\* The levels lv, queues qu and totals to are those of the orders that cm places.
PyMap(lv, qu, to, cm, st, rem) ==
    /\ lv = [s \in Side |-> lv[s]] /\ \A s \in Side : lv[s] \subseteq Price
    /\ Table(qu)
    /\ Table(to)
    /\ \A s \in Side : \A p \in Price :
         /\ p \in lv[s] <=> Placed(cm, s, p) # {}
         /\ IsList(qu[s][p], Placed(cm, s, p), st)
         /\ to[s][p] = SumFunctionOnSet(rem, Placed(cm, s, p))

PyTypes(cm, st, rem) ==
    /\ cm \in [OrderId -> (Side \X Price) \union {None}]
    /\ \A o \in OrderId : st[o] \in Nat
    /\ \A o \in OrderId : cm[o] # None => rem[o] \in Int
    /\ \A s \in Side : \A p \in Price : IsFiniteSet(Placed(cm, s, p))

PythonView == PyMap(PythonLevels, PythonQueue, PythonTotal, cancel_map, stamp, Rem)

\* Each level of the book, walked from its head, is the queue of that price.
LEMMA MappedBook ==
    BookInv /\ StampsDiffer => PythonView /\ PyTypes(cancel_map, stamp, Rem)
<1> SUFFICES ASSUME BookInv, StampsDiffer
             PROVE  PythonView /\ PyTypes(cancel_map, stamp, Rem)
  OBVIOUS
<1>1. BookTypes /\ OrdersSound /\ ListInv
  BY DEF BookInv
<1>2. Linked(cancel_map, link, stamp, sequence)
  BY InvLinked
<1>3. IsWalk(Following(link), link)
  BY <1>2, WalkExists, FollowingWalks
<1>4. PICK g : g = Following(link)
  OBVIOUS
<1>5. \A o \in OrderId : cancel_map[o] # None =>
        IsList(g[o], Later(cancel_map, stamp, o), stamp)
  BY <1>2, <1>3, <1>4, WalkIsList
<1>6. /\ PythonLevels = [s \in Side |-> PythonLevels[s]]
      /\ \A s \in Side : PythonLevels[s] = DOMAIN book[s]
  BY DEF PythonLevels
<1>7. /\ Table(PythonQueue)
      /\ \A s \in Side : \A p \in Price : PythonQueue[s][p] = Walk(s, p)
  BY DEF PythonQueue, Table
<1>8. /\ Table(PythonTotal)
      /\ \A s \in Side : \A p \in Price : PythonTotal[s][p] = Wanted(s, p)
  BY DEF PythonTotal, Table
<1>9. \A s \in Side : DOMAIN book[s] \subseteq Price
  BY <1>1, LevelsFacts DEF BookTypes
<1>10. ListTypes(book, cancel_map, link, stamp, Rem)
  BY <1>1, InvListTypes
<1>11. ASSUME NEW s \in Side, NEW p \in Price
       PROVE  /\ p \in DOMAIN book[s] <=> Placed(cancel_map, s, p) # {}
              /\ IsList(Walk(s, p), Placed(cancel_map, s, p), stamp)
              /\ Wanted(s, p) = SumFunctionOnSet(Rem, Placed(cancel_map, s, p))
              /\ IsFiniteSet(Placed(cancel_map, s, p))
  <2>1. PICK A : A = Placed(cancel_map, s, p)
    OBVIOUS
  <2>2. \A o \in A : o \in OrderId /\ cancel_map[o] = <<s, p>> /\ cancel_map[o] # None
    BY <2>1, PlacedFacts
  <2>3. p \in DOMAIN book[s] => LevelSound(A, link, stamp, Rem, book[s][p])
    BY <2>1, <1>1 DEF ListInv, Lists
  <2>4. p \in DOMAIN book[s] => book[s][p].head \in A
    BY <2>3 DEF LevelSound, Chain
  <2>5. A # {} => p \in DOMAIN book[s]
    BY <2>2, RestingFacts
  <2>6. p \in DOMAIN book[s] <=> A # {}
    BY <2>4, <2>5
  <2>7. IsFiniteSet(A)
    BY <2>3, <2>6, FS_EmptySet DEF LevelSound
  <2>8. IsList(Walk(s, p), A, stamp)
    <3>1. CASE p \notin DOMAIN book[s]
      BY <3>1, <2>6, ListEmpty DEF Walk
    <3>2. CASE p \in DOMAIN book[s]
      <4>1. PICK h \in A : h = book[s][p].head
        BY <3>2, <2>4
      <4>2. Walk(s, p) = g[h]
        BY <4>1, <3>2, <1>4 DEF Walk
      <4>3. IsList(g[h], Later(cancel_map, stamp, h), stamp)
        BY <4>1, <2>2, <1>5
      <4>4. Chain(A, link, stamp, book[s][p]) /\ None \notin A
        BY <3>2, <2>1, <2>3, PlacedFacts DEF LevelSound
      <4>5. \A a \in A : stamp[a] \in Nat /\ req[a] # None
        BY <2>2, <1>1 DEF BookTypes, OrdersSound
      <4>6. \A a, b \in A : stamp[a] = stamp[b] => a = b
        BY <4>5, <2>2 DEF StampsDiffer
      <4>7. \A x \in A : stamp[h] <= stamp[x]
        BY <4>1, <4>4, <4>5, <4>6, ChainOrder
      <4>8. \A x : x \in Later(cancel_map, stamp, h) <=> x \in A
        <5>1. \A x \in OrderId : cancel_map[x] = cancel_map[h] <=> x \in A
          BY <4>1, <2>1, <2>2 DEF Placed
        <5>2. \A x \in A : stamp[x] >= stamp[h]
          BY <4>1, <4>5, <4>7
        <5> QED BY <5>1, <5>2, <2>2 DEF Later
      <4>9. Later(cancel_map, stamp, h) = A
        BY <4>8
      <4> QED BY <4>2, <4>3, <4>9
    <3> QED BY <3>1, <3>2
  <2>9. \A o \in A : Rem[o] \in Int
    BY <2>2, <1>10 DEF ListTypes
  <2>10. Wanted(s, p) = SumFunctionOnSet(Rem, A)
    <3>1. PICK f : f = [o \in A |-> Remaining(o)]
      OBVIOUS
    <3>2. DOMAIN f = A /\ \A o \in A : f[o] = Rem[o]
      BY <3>1, <2>2 DEF Rem
    <3>3. At(s, p) = A
      BY <2>1 DEF At, Placed
    <3>4. Wanted(s, p) = SumFunctionOnSet(f, A)
      BY <3>1, <3>2, <3>3 DEF Wanted, SumFunction
    <3> QED BY <3>2, <3>4, <2>7, <2>9, SumCongruence
  <2> QED BY <2>1, <2>6, <2>7, <2>8, <2>10
<1>12. PyTypes(cancel_map, stamp, Rem)
  BY <1>1, <1>10, <1>11 DEF PyTypes, ListTypes
<1>13. PythonView
  BY <1>6, <1>7, <1>8, <1>9, <1>11 DEF PythonView, PyMap
<1> QED BY <1>12, <1>13

\* Two maps that differ at one price of one side.
LEMMA DiffersAt ==
    ASSUME NEW f, Table(f),
           NEW g, Table(g),
           NEW s0 \in Side, NEW p0 \in Price,
           \A s \in Side : \A p \in Price : (s # s0 \/ p # p0) => g[s][p] = f[s][p]
    PROVE  g = [f EXCEPT ![s0][p0] = g[s0][p0]]
<1>1. PICK h : h = [f EXCEPT ![s0][p0] = g[s0][p0]]
  OBVIOUS
<1>2. h = [s \in Side |-> h[s]] /\ \A s \in Side : h[s] = [p \in Price |-> h[s][p]]
  BY <1>1 DEF Table
<1>3. \A s \in Side : \A p \in Price : h[s][p] = g[s][p]
  BY <1>1 DEF Table
<1>4. g = [s \in Side |-> g[s]] /\ \A s \in Side : g[s] = [p \in Price |-> g[s][p]]
  BY DEF Table
<1>5. \A s \in Side : h[s] = g[s]
  BY <1>2, <1>3, <1>4
<1>6. h = g
  BY <1>2, <1>4, <1>5
<1> QED BY <1>1, <1>6

\* Two maps that do not differ.
LEMMA DiffersNowhere ==
    ASSUME NEW f, Table(f),
           NEW g, Table(g),
           \A s \in Side : \A p \in Price : g[s][p] = f[s][p]
    PROVE  g = f
<1>1. f = [s \in Side |-> f[s]] /\ \A s \in Side : f[s] = [p \in Price |-> f[s][p]]
  BY DEF Table
<1>2. g = [s \in Side |-> g[s]] /\ \A s \in Side : g[s] = [p \in Price |-> g[s][p]]
  BY DEF Table
<1>3. \A s \in Side : f[s] = g[s]
  BY <1>1, <1>2
<1> QED BY <1>1, <1>2, <1>3

\* A level with the same orders, which want as much as before, looks the same.
LEMMA SameLevel ==
    ASSUME NEW lv, NEW qu, NEW to, NEW cm, NEW st, NEW rem,
           PyTypes(cm, st, rem), PyMap(lv, qu, to, cm, st, rem),
           NEW lv2, NEW qu2, NEW to2, NEW cm2, NEW st2, NEW rem2,
           PyMap(lv2, qu2, to2, cm2, st2, rem2), NEW s \in Side, NEW p \in Price,
           Placed(cm2, s, p) = Placed(cm, s, p),
           \A o \in Placed(cm, s, p) : st2[o] = st[o]
    PROVE  /\ p \in lv2[s] <=> p \in lv[s]
           /\ qu2[s][p] = qu[s][p]
           /\ (\A o \in Placed(cm, s, p) : rem2[o] = rem[o]) => to2[s][p] = to[s][p]
<1>1. PICK A : A = Placed(cm, s, p)
  OBVIOUS
<1>2. \A o \in A : st[o] \in Nat /\ rem[o] \in Int
  BY <1>1, PlacedFacts DEF PyTypes
<1>3. IsFiniteSet(A)
  BY <1>1 DEF PyTypes
<1>4. IsList(qu[s][p], A, st) /\ to[s][p] = SumFunctionOnSet(rem, A)
      /\ (p \in lv[s] <=> A # {})
  BY <1>1 DEF PyMap
<1>5. IsList(qu2[s][p], A, st2) /\ to2[s][p] = SumFunctionOnSet(rem2, A)
      /\ (p \in lv2[s] <=> A # {})
  BY <1>1 DEF PyMap
<1>6. IsList(qu2[s][p], A, st)
  <2>1. PICK q : q = qu2[s][p]
    OBVIOUS
  <2>2. IsList(q, A, st2)
    BY <2>1, <1>5
  <2>3. \A i \in 1..Len(q) : st2[q[i]] = st[q[i]]
    BY <2>2, <1>1, ListFacts
  <2>4. IsList(q, A, st)
    BY <2>2, <2>3 DEF IsList
  <2> QED BY <2>1, <2>4
<1>7. qu2[s][p] = qu[s][p]
  BY <1>2, <1>4, <1>6, ListUnique
<1>8. ASSUME \A o \in A : rem2[o] = rem[o] PROVE to2[s][p] = to[s][p]
  BY <1>2, <1>3, <1>4, <1>5, <1>8, SumCongruence
<1> QED BY <1>1, <1>4, <1>5, <1>7, <1>8

\* What the Python view is made of.
LEMMA MapParts ==
    ASSUME NEW lv, NEW qu, NEW to, NEW cm, NEW st, NEW rem, PyMap(lv, qu, to, cm, st, rem)
    PROVE  /\ lv = [s \in Side |-> lv[s]] /\ \A s \in Side : lv[s] \subseteq Price
           /\ Table(qu)
           /\ Table(to)
BY DEF PyMap

\* Nothing happens to the orders in the book.
LEMMA MapSame ==
    ASSUME NEW lv, NEW qu, NEW to, NEW cm, NEW st, NEW rem,
           PyTypes(cm, st, rem), PyMap(lv, qu, to, cm, st, rem),
           NEW lv2, NEW qu2, NEW to2, NEW st2, NEW rem2,
           PyMap(lv2, qu2, to2, cm, st2, rem2),
           \A o \in OrderId : cm[o] # None => st2[o] = st[o] /\ rem2[o] = rem[o]
    PROVE  lv2 = lv /\ qu2 = qu /\ to2 = to
<1>1. \A s \in Side : \A p \in Price : \A o \in Placed(cm, s, p) : st2[o] = st[o] /\ rem2[o] = rem[o]
  BY PlacedFacts
<1>2. \A s \in Side : \A p \in Price :
        /\ p \in lv2[s] <=> p \in lv[s]
        /\ qu2[s][p] = qu[s][p] /\ to2[s][p] = to[s][p]
  BY <1>1, SameLevel
<1>3. /\ lv = [s \in Side |-> lv[s]] /\ \A s \in Side : lv[s] \subseteq Price
      /\ Table(qu)
      /\ Table(to)
  BY MapParts
<1>4. /\ lv2 = [s \in Side |-> lv2[s]] /\ \A s \in Side : lv2[s] \subseteq Price
      /\ Table(qu2)
      /\ Table(to2)
  BY MapParts
<1>5. \A s \in Side : lv2[s] = lv[s]
  BY <1>2, <1>3, <1>4
<1>6. lv2 = lv
  BY <1>3, <1>4, <1>5
<1>7. qu2 = qu
  BY <1>2, <1>3, <1>4, DiffersNowhere
<1>8. to2 = to
  BY <1>2, <1>3, <1>4, DiffersNowhere
<1> QED BY <1>6, <1>7, <1>8

\* An order in the book wants less.
LEMMA MapLess ==
    ASSUME NEW lv, NEW qu, NEW to, NEW cm, NEW st, NEW rem,
           PyTypes(cm, st, rem), PyMap(lv, qu, to, cm, st, rem),
           NEW lv2, NEW qu2, NEW to2, NEW rem2, PyMap(lv2, qu2, to2, cm, st, rem2),
           NEW s0 \in Side, NEW p0 \in Price, NEW r \in Placed(cm, s0, p0), NEW d \in Int,
           WantsLess(cm, r, d, rem, rem2)
    PROVE  lv2 = lv /\ qu2 = qu /\ to2 = [to EXCEPT ![s0][p0] = to[s0][p0] - d]
<1>0. rem2[r] = rem[r] - d /\ \A o \in OrderId : cm[o] # None /\ o # r => rem2[o] = rem[o]
  BY DEF WantsLess, OthersWant
<1>1. \A s \in Side : \A p \in Price : (s # s0 \/ p # p0) =>
        \A o \in Placed(cm, s, p) : rem2[o] = rem[o]
  <2> SUFFICES ASSUME NEW s \in Side, NEW p \in Price, s # s0 \/ p # p0,
                      NEW o \in Placed(cm, s, p)
               PROVE  rem2[o] = rem[o]
    OBVIOUS
  <2>1. o \in OrderId /\ cm[o] = <<s, p>> /\ cm[o] # None /\ cm[r] = <<s0, p0>>
    BY PlacedFacts
  <2>2. o # r
    BY <2>1
  <2> QED BY <2>1, <2>2, <1>0
<1>2. \A s \in Side : \A p \in Price :
        (p \in lv2[s] <=> p \in lv[s]) /\ qu2[s][p] = qu[s][p]
  BY SameLevel
<1>3. \A s \in Side : \A p \in Price : (s # s0 \/ p # p0) => to2[s][p] = to[s][p]
  BY <1>1, SameLevel
<1>4. to2[s0][p0] = to[s0][p0] - d
  <2>1. PICK A : A = Placed(cm, s0, p0)
    OBVIOUS
  <2>2. \A o \in A : o \in OrderId /\ cm[o] # None /\ rem[o] \in Int
    BY <2>1, PlacedFacts DEF PyTypes
  <2>3. IsFiniteSet(A)
    BY <2>1 DEF PyTypes
  <2>4. to[s0][p0] = SumFunctionOnSet(rem, A) /\ to2[s0][p0] = SumFunctionOnSet(rem2, A)
    BY <2>1 DEF PyMap
  <2>5. r \in A /\ rem[r] \in Int /\ rem2[r] \in Int /\ \A o \in A \ {r} : rem2[o] = rem[o]
    BY <2>1, <2>2, <1>0
  <2>6. SumFunctionOnSet(rem2, A) = SumFunctionOnSet(rem, A) - rem[r] + rem2[r]
    BY <2>2, <2>3, <2>5, SumUpdate
  <2>7. SumFunctionOnSet(rem, A) \in Int
    BY <2>2, <2>3, SumSplit
  <2> QED BY <2>4, <2>5, <2>6, <2>7, <1>0
<1>5. /\ lv = [s \in Side |-> lv[s]] /\ \A s \in Side : lv[s] \subseteq Price
      /\ Table(qu)
      /\ Table(to)
  BY MapParts
<1>6. /\ lv2 = [s \in Side |-> lv2[s]] /\ \A s \in Side : lv2[s] \subseteq Price
      /\ Table(qu2)
      /\ Table(to2)
  BY MapParts
<1>7. \A s \in Side : lv2[s] = lv[s]
  BY <1>2, <1>5, <1>6
<1>8. lv2 = lv
  BY <1>5, <1>6, <1>7
<1>9. qu2 = qu
  BY <1>2, <1>5, <1>6, DiffersNowhere
<1>10. to2 = [to EXCEPT ![s0][p0] = to2[s0][p0]]
  BY <1>3, <1>5, <1>6, DiffersAt
<1> QED BY <1>4, <1>8, <1>9, <1>10

\* A list of one node.
LEMMA ListSingle ==
    ASSUME NEW A, NEW st, \A a \in A : st[a] \in Nat, NEW q, IsList(q, A, st), NEW r \in A
    PROVE  Len(q) = 1 <=> A \ {r} = {}
<1>1. /\ Len(q) \in Nat /\ \A i \in 1..Len(q) : q[i] \in A
  BY ListFacts
<1>2. PICK k \in 1..Len(q) : q[k] = r
  BY DEF IsList
<1>3. ASSUME Len(q) = 1, NEW a \in A PROVE a = r
  <2>1. PICK i \in 1..Len(q) : q[i] = a
    BY DEF IsList
  <2>2. i = 1 /\ k = 1
    BY <1>3
  <2> QED BY <2>1, <2>2, <1>2
<1>4. ASSUME A \ {r} = {} PROVE Len(q) = 1
  <2> SUFFICES ASSUME Len(q) # 1 PROVE FALSE
    OBVIOUS
  <2>1. 1 \in 1..Len(q) /\ 2 \in 1..Len(q)
    <3>1. PICK n \in Nat : n = Len(q)
      BY <1>1
    <3>2. n >= 2
      BY <3>1, <1>2
    <3> QED BY <3>1, <3>2
  <2>2. q[1] = r /\ q[2] = r
    BY <2>1, <1>1, <1>4
  <2>3. st[q[1]] < st[q[2]]
    BY <2>1 DEF IsList
  <2> QED BY <2>2, <2>3
<1> QED BY <1>3, <1>4

\* Order r leaves price p of side s, and left is what it leaves of the list.
Leaves(cm, st, rem, cm2, rem2, s, p, r, left) ==
    /\ r \in Placed(cm, s, p)
    /\ \A o \in OrderId : cm2[o] = IF o = r THEN None ELSE cm[o]
    /\ \A o \in OrderId : cm[o] # None /\ o # r => rem2[o] = rem[o]
    /\ IsList(left, Placed(cm, s, p) \ {r}, st)

\* What the Python book looks like then: d is what the order still wanted.
Without(lv, qu, to, lv2, qu2, to2, s, p, left, d) ==
    /\ lv2 = IF Len(qu[s][p]) = 1 THEN [lv EXCEPT ![s] = lv[s] \ {p}] ELSE lv
    /\ qu2 = [qu EXCEPT ![s][p] = left]
    /\ to2 = [to EXCEPT ![s][p] = to[s][p] - d]

\* An order leaves the book.
LEMMA MapRemove ==
    ASSUME NEW lv, NEW qu, NEW to, NEW cm, NEW st, NEW rem,
           PyTypes(cm, st, rem), PyMap(lv, qu, to, cm, st, rem),
           NEW lv2, NEW qu2, NEW to2, NEW cm2, NEW rem2, PyMap(lv2, qu2, to2, cm2, st, rem2),
           NEW s0 \in Side, NEW p0 \in Price, NEW r, NEW left,
           Leaves(cm, st, rem, cm2, rem2, s0, p0, r, left)
    PROVE  Without(lv, qu, to, lv2, qu2, to2, s0, p0, left, rem[r])
<1>0. /\ r \in Placed(cm, s0, p0)
      /\ \A o \in OrderId : cm2[o] = IF o = r THEN None ELSE cm[o]
      /\ \A o \in OrderId : cm[o] # None /\ o # r => rem2[o] = rem[o]
      /\ IsList(left, Placed(cm, s0, p0) \ {r}, st)
  BY DEF Leaves
<1>1. r \in OrderId /\ cm[r] = <<s0, p0>>
  BY <1>0, PlacedFacts
<1>2. cm \in [OrderId -> (Side \X Price) \union {None}]
  BY DEF PyTypes
<1>3. \A o \in OrderId : cm2[o] = IF o = r THEN None ELSE cm[o]
  BY <1>0
<1>4. \A s \in Side : \A p \in Price : Placed(cm2, s, p) = Placed(cm, s, p) \ {r}
  <2> SUFFICES ASSUME NEW s \in Side, NEW p \in Price
               PROVE  Placed(cm2, s, p) = Placed(cm, s, p) \ {r}
    OBVIOUS
  <2>1. <<s, p>> # None
    BY PlacedFacts
  <2> QED BY <2>1, <1>3 DEF Placed
<1>5. \A s \in Side : \A p \in Price : (s # s0 \/ p # p0) => Placed(cm2, s, p) = Placed(cm, s, p)
  <2> SUFFICES ASSUME NEW s \in Side, NEW p \in Price, s # s0 \/ p # p0
               PROVE  Placed(cm2, s, p) = Placed(cm, s, p)
    OBVIOUS
  <2>1. r \notin Placed(cm, s, p)
    BY <1>1 DEF Placed
  <2>2. Placed(cm2, s, p) = Placed(cm, s, p) \ {r}
    BY <1>4
  <2> QED BY <2>1, <2>2
<1>6. \A s \in Side : \A p \in Price : (s # s0 \/ p # p0) =>
        \A o \in Placed(cm, s, p) : rem2[o] = rem[o]
  <2> SUFFICES ASSUME NEW s \in Side, NEW p \in Price, s # s0 \/ p # p0,
                      NEW o \in Placed(cm, s, p)
               PROVE  rem2[o] = rem[o]
    OBVIOUS
  <2>1. o \in OrderId /\ cm[o] = <<s, p>> /\ cm[o] # None
    BY PlacedFacts
  <2>2. o # r
    BY <2>1, <1>1
  <2> QED BY <2>1, <2>2, <1>0
<1>7. \A s \in Side : \A p \in Price : (s # s0 \/ p # p0) =>
        /\ p \in lv2[s] <=> p \in lv[s]
        /\ qu2[s][p] = qu[s][p] /\ to2[s][p] = to[s][p]
  <2> SUFFICES ASSUME NEW s \in Side, NEW p \in Price, s # s0 \/ p # p0
               PROVE  /\ p \in lv2[s] <=> p \in lv[s]
                      /\ qu2[s][p] = qu[s][p] /\ to2[s][p] = to[s][p]
    OBVIOUS
  <2>1. Placed(cm2, s, p) = Placed(cm, s, p)
    BY <1>5
  <2>2. \A o \in Placed(cm, s, p) : rem2[o] = rem[o]
    BY <1>6
  <2>3. \A o \in Placed(cm, s, p) : st[o] = st[o]
    OBVIOUS
  <2> QED BY <2>1, <2>2, <2>3, SameLevel
<1>8. PICK A : A = Placed(cm, s0, p0)
  OBVIOUS
<1>9. r \in A /\ \A o \in A : o \in OrderId /\ cm[o] # None /\ rem[o] \in Int /\ st[o] \in Nat
  BY <1>0, <1>8, PlacedFacts DEF PyTypes
<1>10. IsFiniteSet(A) /\ IsFiniteSet(A \ {r})
  BY <1>8, FS_RemoveElement DEF PyTypes
<1>11. /\ IsList(qu[s0][p0], A, st) /\ to[s0][p0] = SumFunctionOnSet(rem, A) /\ p0 \in lv[s0]
  BY <1>8, <1>9 DEF PyMap
<1>12. /\ IsList(qu2[s0][p0], A \ {r}, st) /\ to2[s0][p0] = SumFunctionOnSet(rem2, A \ {r})
       /\ p0 \in lv2[s0] <=> A \ {r} # {}
  BY <1>4, <1>8 DEF PyMap
<1>13. qu2[s0][p0] = left
  <2>1. IsList(left, A \ {r}, st) /\ \A o \in A \ {r} : st[o] \in Nat
    BY <1>0, <1>8, <1>9
  <2> QED BY <2>1, <1>12, ListUnique
<1>14. to2[s0][p0] = to[s0][p0] - rem[r]
  <2>1. SumFunctionOnSet(rem2, A \ {r}) = SumFunctionOnSet(rem, A \ {r})
    <3>1. \A o \in A \ {r} : rem[o] \in Int /\ rem2[o] = rem[o]
      BY <1>0, <1>9
    <3> QED BY <3>1, <1>10, SumCongruence
  <2>2. /\ SumFunctionOnSet(rem, A \ {r}) \in Int
        /\ SumFunctionOnSet(rem, A) = rem[r] + SumFunctionOnSet(rem, A \ {r})
    BY <1>9, <1>10, SumSplit
  <2> QED BY <2>1, <2>2, <1>9, <1>11, <1>12
<1>15. /\ lv = [s \in Side |-> lv[s]] /\ \A s \in Side : lv[s] \subseteq Price
       /\ Table(qu) /\ Table(to)
  BY MapParts
<1>16. /\ lv2 = [s \in Side |-> lv2[s]] /\ \A s \in Side : lv2[s] \subseteq Price
       /\ Table(qu2) /\ Table(to2)
  BY MapParts
<1>17. Len(qu[s0][p0]) = 1 <=> p0 \notin lv2[s0]
  BY <1>9, <1>11, <1>12, ListSingle
<1>18. \A s \in Side : s # s0 => lv2[s] = lv[s]
  BY <1>7, <1>15, <1>16
<1>19. lv2[s0] = IF p0 \in lv2[s0] THEN lv[s0] ELSE lv[s0] \ {p0}
  <2>1. \A p \in Price : p # p0 => (p \in lv2[s0] <=> p \in lv[s0])
    BY <1>7
  <2> QED BY <2>1, <1>11, <1>15, <1>16
<1>20. lv2 = IF Len(qu[s0][p0]) = 1 THEN [lv EXCEPT ![s0] = lv[s0] \ {p0}] ELSE lv
  <2>1. CASE p0 \in lv2[s0]
    <3>1. \A s \in Side : lv2[s] = lv[s]
      BY <2>1, <1>18, <1>19
    <3> QED BY <3>1, <2>1, <1>15, <1>16, <1>17
  <2>2. CASE p0 \notin lv2[s0]
    <3>1. PICK v : v = [lv EXCEPT ![s0] = lv[s0] \ {p0}]
      OBVIOUS
    <3>2. v = [s \in Side |-> v[s]] /\ \A s \in Side : v[s] = lv2[s]
      BY <3>1, <2>2, <1>15, <1>18, <1>19
    <3> QED BY <3>1, <3>2, <2>2, <1>16, <1>17
  <2> QED BY <2>1, <2>2
<1>21. qu2 = [qu EXCEPT ![s0][p0] = qu2[s0][p0]] /\ to2 = [to EXCEPT ![s0][p0] = to2[s0][p0]]
  <2>1. Table(qu) /\ Table(qu2)
    BY <1>15, <1>16
  <2>2. Table(to) /\ Table(to2)
    BY <1>15, <1>16
  <2>3. qu2 = [qu EXCEPT ![s0][p0] = qu2[s0][p0]]
    BY <2>1, <1>7, DiffersAt
  <2>4. to2 = [to EXCEPT ![s0][p0] = to2[s0][p0]]
    BY <2>2, <1>7, DiffersAt
  <2> QED BY <2>3, <2>4
<1> QED BY <1>13, <1>14, <1>20, <1>21 DEF Without

\* Order o, the last to arrive, comes to rest at price p of side s.
Rests(cm, st, rem, cm2, s, p, o) ==
    /\ o \in OrderId /\ cm[o] = None /\ rem[o] \in Int
    /\ \A n \in OrderId : cm2[n] = IF n = o THEN <<s, p>> ELSE cm[n]
    /\ \A n \in OrderId : n # o => st[n] < st[o]

\* What the Python book looks like then: d is what the order wants.
With(lv, qu, to, lv2, qu2, to2, s, p, o, d) ==
    /\ lv2 = [lv EXCEPT ![s] = lv[s] \union {p}]
    /\ qu2 = [qu EXCEPT ![s][p] = Append(IF p \in lv[s] THEN qu[s][p] ELSE <<>>, o)]
    /\ to2 = [to EXCEPT ![s][p] = (IF p \in lv[s] THEN to[s][p] ELSE 0) + d]

\* An order comes to rest.
LEMMA MapRest ==
    ASSUME NEW lv, NEW qu, NEW to, NEW cm, NEW st, NEW rem,
           PyTypes(cm, st, rem), PyMap(lv, qu, to, cm, st, rem),
           NEW lv2, NEW qu2, NEW to2, NEW cm2, PyMap(lv2, qu2, to2, cm2, st, rem),
           NEW s0 \in Side, NEW p0 \in Price, NEW o, Rests(cm, st, rem, cm2, s0, p0, o)
    PROVE  With(lv, qu, to, lv2, qu2, to2, s0, p0, o, rem[o])
<1>0. /\ o \in OrderId /\ cm[o] = None /\ rem[o] \in Int
      /\ \A n \in OrderId : cm2[n] = IF n = o THEN <<s0, p0>> ELSE cm[n]
      /\ \A n \in OrderId : n # o => st[n] < st[o]
  BY DEF Rests
<1>1. cm \in [OrderId -> (Side \X Price) \union {None}]
  BY DEF PyTypes
<1>2. \A n \in OrderId : cm2[n] = IF n = o THEN <<s0, p0>> ELSE cm[n]
  BY <1>0
<1>3. \A s \in Side : \A p \in Price : (s # s0 \/ p # p0) => Placed(cm2, s, p) = Placed(cm, s, p)
  <2> SUFFICES ASSUME NEW s \in Side, NEW p \in Price, s # s0 \/ p # p0
               PROVE  Placed(cm2, s, p) = Placed(cm, s, p)
    OBVIOUS
  <2>1. <<s, p>> # None
    BY PlacedFacts
  <2> QED BY <2>1, <1>0, <1>2 DEF Placed
<1>4. PICK A : A = Placed(cm, s0, p0)
  OBVIOUS
<1>5. o \notin A /\ Placed(cm2, s0, p0) = A \union {o}
  <2>1. <<s0, p0>> # None
    BY PlacedFacts
  <2> QED BY <2>1, <1>0, <1>2, <1>4 DEF Placed
<1>6. \A s \in Side : \A p \in Price : (s # s0 \/ p # p0) =>
        /\ p \in lv2[s] <=> p \in lv[s]
        /\ qu2[s][p] = qu[s][p] /\ to2[s][p] = to[s][p]
  <2> SUFFICES ASSUME NEW s \in Side, NEW p \in Price, s # s0 \/ p # p0
               PROVE  /\ p \in lv2[s] <=> p \in lv[s]
                      /\ qu2[s][p] = qu[s][p] /\ to2[s][p] = to[s][p]
    OBVIOUS
  <2>1. Placed(cm2, s, p) = Placed(cm, s, p)
    BY <1>3
  <2>2. \A n \in Placed(cm, s, p) : st[n] = st[n] /\ rem[n] = rem[n]
    OBVIOUS
  <2> QED BY <2>1, <2>2, SameLevel
<1>7. \A n \in A : n \in OrderId /\ cm[n] # None /\ rem[n] \in Int /\ st[n] \in Nat
  BY <1>4, PlacedFacts DEF PyTypes
<1>8. IsFiniteSet(A) /\ st[o] \in Nat
  BY <1>0, <1>4 DEF PyTypes
<1>9. /\ IsList(qu[s0][p0], A, st) /\ to[s0][p0] = SumFunctionOnSet(rem, A)
      /\ p0 \in lv[s0] <=> A # {}
  BY <1>4 DEF PyMap
<1>10. /\ IsList(qu2[s0][p0], A \union {o}, st) /\ to2[s0][p0] = SumFunctionOnSet(rem, A \union {o})
       /\ p0 \in lv2[s0]
  BY <1>5 DEF PyMap
<1>11. (IF p0 \in lv[s0] THEN qu[s0][p0] ELSE <<>>) = qu[s0][p0]
  <2>1. CASE A = {}
    <3>1. IsList(<<>>, A, st)
      BY <2>1, ListEmpty
    <3> QED BY <3>1, <1>7, <1>9, ListUnique
  <2> QED BY <2>1, <1>9
<1>12. (IF p0 \in lv[s0] THEN to[s0][p0] ELSE 0) = to[s0][p0]
  BY <1>9, SumEmpty
<1>13. qu2[s0][p0] = Append(qu[s0][p0], o)
  <2>1. \A n \in A : st[n] < st[o]
    BY <1>0, <1>5, <1>7
  <2>2. IsList(Append(qu[s0][p0], o), A \union {o}, st)
    BY <2>1, <1>5, <1>7, <1>9, ListAppend
  <2>3. \A n \in A \union {o} : st[n] \in Nat
    BY <1>7, <1>8
  <2> QED BY <2>2, <2>3, <1>10, ListUnique
<1>14. to2[s0][p0] = to[s0][p0] + rem[o]
  <2>1. \A n \in A \union {o} : rem[n] \in Int
    BY <1>0, <1>7
  <2>2. SumFunctionOnSet(rem, A \union {o}) = rem[o] + SumFunctionOnSet(rem, A)
    BY <2>1, <1>5, <1>8, SumAdd
  <2>3. SumFunctionOnSet(rem, A) \in Int
    BY <1>7, <1>8, SumSplit
  <2> QED BY <2>2, <2>3, <1>0, <1>9, <1>10
<1>15. /\ lv = [s \in Side |-> lv[s]] /\ \A s \in Side : lv[s] \subseteq Price
       /\ Table(qu) /\ Table(to)
  BY MapParts
<1>16. /\ lv2 = [s \in Side |-> lv2[s]] /\ \A s \in Side : lv2[s] \subseteq Price
       /\ Table(qu2) /\ Table(to2)
  BY MapParts
<1>17. \A s \in Side : s # s0 => lv2[s] = lv[s]
  BY <1>6, <1>15, <1>16
<1>18. lv2[s0] = lv[s0] \union {p0}
  <2>1. \A p \in Price : p # p0 => (p \in lv2[s0] <=> p \in lv[s0])
    BY <1>6
  <2> QED BY <2>1, <1>10, <1>15, <1>16
<1>19. lv2 = [lv EXCEPT ![s0] = lv[s0] \union {p0}]
  <2>1. PICK v : v = [lv EXCEPT ![s0] = lv[s0] \union {p0}]
    OBVIOUS
  <2>2. v = [s \in Side |-> v[s]] /\ \A s \in Side : v[s] = lv2[s]
    BY <2>1, <1>15, <1>17, <1>18
  <2> QED BY <2>1, <2>2, <1>16
<1>20. qu2 = [qu EXCEPT ![s0][p0] = qu2[s0][p0]] /\ to2 = [to EXCEPT ![s0][p0] = to2[s0][p0]]
  <2>1. Table(qu) /\ Table(qu2)
    BY <1>15, <1>16
  <2>2. Table(to) /\ Table(to2)
    BY <1>15, <1>16
  <2>3. qu2 = [qu EXCEPT ![s0][p0] = qu2[s0][p0]]
    BY <2>1, <1>6, DiffersAt
  <2>4. to2 = [to EXCEPT ![s0][p0] = to2[s0][p0]]
    BY <2>2, <1>6, DiffersAt
  <2> QED BY <2>3, <2>4
<1> QED BY <1>11, <1>12, <1>13, <1>14, <1>19, <1>20 DEF With

-----------------------------------------------------------------------------
(* Every step of the C++ book is a step of the Python book.                *)

\* MARKET orders carry no price.
UnpricedMarkets ==
    \A path \in Path : \A order \in Submissions[path] :
        order.order_type = "MARKET" => order.price = None

\* The Python view after a step.
LEMMA MappedNext == BookInv' /\ StampsDiffer' => PythonView'
BY MappedBook, PTL

\* The view of the orders, which only submit changes.
LEMMA ReqSame ==
    ASSUME req' = req
    PROVE  PythonReq' = PythonReq
BY DEF PythonReq

\* The orders keep their places, their stamps and what they want.
LEMMA ViewSame ==
    ASSUME BookInv, StampsDiffer, BookInv', StampsDiffer', cancel_map' = cancel_map,
           \A o \in OrderId : cancel_map[o] # None => stamp'[o] = stamp[o] /\ Rem'[o] = Rem[o]
    PROVE  PythonLevels' = PythonLevels /\ PythonQueue' = PythonQueue /\ PythonTotal' = PythonTotal
<1>1. /\ PyMap(PythonLevels, PythonQueue, PythonTotal, cancel_map, stamp, Rem)
      /\ PyTypes(cancel_map, stamp, Rem)
  BY MappedBook DEF PythonView
<1>2. PyMap(PythonLevels', PythonQueue', PythonTotal', cancel_map', stamp', Rem')
  BY MappedNext DEF PythonView
<1>3. PICK lv2, qu2, to2, st2, rem2 :
        /\ lv2 = PythonLevels' /\ qu2 = PythonQueue' /\ to2 = PythonTotal'
        /\ st2 = stamp' /\ rem2 = Rem'
  OBVIOUS
<1>4. PyMap(lv2, qu2, to2, cancel_map, st2, rem2)
  BY <1>2, <1>3
<1>5. \A o \in OrderId : cancel_map[o] # None => st2[o] = stamp[o] /\ rem2[o] = Rem[o]
  BY <1>3
<1>6. lv2 = PythonLevels /\ qu2 = PythonQueue /\ to2 = PythonTotal
  BY <1>1, <1>4, <1>5, MapSame
<1> QED BY <1>3, <1>6

\* A step that leaves the book alone.
LEMMA StepStutters ==
    ASSUME BookInv, StampsDiffer, BookInv', StampsDiffer', UNCHANGED vars
    PROVE  UNCHANGED Python!vars
<1>1. /\ req' = req /\ filled' = filled /\ status' = status /\ link' = link /\ book' = book
      /\ cancel_map' = cancel_map /\ sequence' = sequence /\ taker' = taker
      /\ trades' = trades /\ stamp' = stamp
  BY DEF vars
<1>2. \A o \in OrderId : Rem'[o] = Rem[o]
  BY <1>1, RemFacts
<1>3. PythonLevels' = PythonLevels /\ PythonQueue' = PythonQueue /\ PythonTotal' = PythonTotal
  BY <1>1, <1>2, ViewSame
<1>4. PythonReq' = PythonReq
  BY <1>1, ReqSame
<1> QED BY <1>1, <1>3, <1>4 DEF Python!vars

\* submit enters the loop.
LEMMA StepSubmits ==
    ASSUME BookInv, StampsDiffer, BookInv', StampsDiffer',
           NEW o \in OrderId, NEW r \in Request, req[o] = None,
           r.order_type = "LIMIT" => r.price \in Price,
           PythonRequest(r) \in PythonRequests, Submit(o, r)
    PROVE  Python!SubmitNew(o)
<1>1. BookTypes /\ OrdersSound
  BY DEF BookInv
<1>2. /\ taker = None /\ req' = [req EXCEPT ![o] = r] /\ filled' = [filled EXCEPT ![o] = 0]
      /\ status' = [status EXCEPT ![o] = "PENDING"] /\ sequence' = sequence + 1
      /\ stamp' = [stamp EXCEPT ![o] = sequence + 1] /\ taker' = o
      /\ cancel_map' = cancel_map /\ trades' = trades
  BY DEF Submit
<1>3. \A n \in OrderId : n # o => stamp'[n] = stamp[n] /\ req'[n] = req[n] /\ filled'[n] = filled[n]
  BY <1>1, <1>2 DEF BookTypes
<1>4. \A n \in OrderId : n # o => Rem'[n] = Rem[n]
  BY <1>3, RemFacts
<1>5. cancel_map[o] = None
  BY <1>1 DEF OrdersSound
<1>6. PythonLevels' = PythonLevels /\ PythonQueue' = PythonQueue /\ PythonTotal' = PythonTotal
  BY <1>2, <1>3, <1>4, <1>5, ViewSame
<1>7. r # None
  BY NoneAssumption
<1>8. PICK v : v = PythonRequest(r)
  OBVIOUS
<1>9. PythonReq' = [PythonReq EXCEPT ![o] = v]
  <2>1. PICK f : f = req'
    OBVIOUS
  <2>2. f[o] = r /\ \A n \in OrderId : n # o => f[n] = req[n]
    BY <2>1, <1>1, <1>2 DEF BookTypes
  <2>3. PythonReq' = [n \in OrderId |-> IF f[n] = None THEN None ELSE PythonRequest(f[n])]
    BY <2>1 DEF PythonReq, PythonRequest
  <2>4. PythonReq = [n \in OrderId |-> IF req[n] = None THEN None ELSE PythonRequest(req[n])]
    BY DEF PythonReq
  <2> QED BY <2>2, <2>3, <2>4, <1>7, <1>8
<1>10. PythonReq[o] = None
  BY DEF PythonReq
<1>11. v.order_type = r.order_type /\ v.price = (IF r.price = 0 THEN None ELSE r.price)
  <2>1. r = [side |-> r.side, order_type |-> r.order_type, price |-> r.price,
             quantity |-> r.quantity, time_in_force |-> r.time_in_force]
    BY DEF Request
  <2> QED BY <2>1, <1>8 DEF PythonRequest, Request
<1>12. v.order_type = "LIMIT" => v.price # None
  BY <1>11, PriceAssumption, NoneAssumption
<1>13. v \in Python!ValidRequest
  BY <1>8, <1>12 DEF Python!ValidRequest
<1>14. Python!Submit(o, v)
  BY <1>2, <1>6, <1>9 DEF Python!Submit
<1> QED BY <1>10, <1>13, <1>14 DEF Python!SubmitNew

\* The Python view of an order.
LEMMA ReqView ==
    ASSUME BookTypes, NEW o \in OrderId, req[o] # None
    PROVE  /\ PythonReq[o].side = req[o].side /\ PythonReq[o].order_type = req[o].order_type
           /\ PythonReq[o].time_in_force = req[o].time_in_force
           /\ PythonReq[o].price = (IF req[o].price = 0 THEN None ELSE req[o].price)
           /\ Python!Remaining(o) = Remaining(o)
           /\ Python!Remaining(o) = Rem[o]
<1>1. PICK r \in Request : r = req[o]
  BY DEF BookTypes
<1>2. PythonReq[o] = PythonRequest(r)
  BY <1>1 DEF PythonReq
<1>3. r = [side |-> r.side, order_type |-> r.order_type, price |-> r.price,
           quantity |-> r.quantity, time_in_force |-> r.time_in_force]
  BY DEF Request
<1>4. PICK v : v = PythonRequest(r)
  OBVIOUS
<1>5. /\ v.side = r.side /\ v.order_type = r.order_type /\ v.quantity = r.quantity
      /\ v.time_in_force = r.time_in_force
      /\ v.price = (IF r.price = 0 THEN None ELSE r.price)
  BY <1>3, <1>4 DEF PythonRequest
<1>6. Python!Remaining(o) = Remaining(o) /\ Rem[o] = Remaining(o)
  BY <1>1, <1>2, <1>4, <1>5 DEF Python!Remaining, Remaining, Rem
<1> QED BY <1>1, <1>2, <1>4, <1>5, <1>6

\* The operators on sequences that the Python book uses.
LEMMA SameOperators ==
    /\ \A q, i : Python!RemoveAt(q, i) = RemoveAt(q, i)
    /\ \A q, e : Python!Contains(q, e) <=> \E i \in 1..Len(q) : q[i] = e
BY DEF Python!RemoveAt, RemoveAt, Python!Contains

\* A cancel takes the order out of its queue.
LEMMA StepCancels ==
    ASSUME BookInv, StampsDiffer, BookInv', StampsDiffer', NEW o \in OrderId, CancelResting(o)
    PROVE  Python!CancelResting(o)
<1>1. BookTypes /\ OrdersSound
  BY DEF BookInv
<1>2. /\ taker = None /\ cancel_map[o] # None /\ cancel_map' = [cancel_map EXCEPT ![o] = None]
      /\ req' = req /\ filled' = filled /\ sequence' = sequence /\ taker' = taker
      /\ trades' = trades /\ stamp' = stamp
  BY DEF CancelResting
<1>3. PICK s \in Side, p \in Price : cancel_map[o] = <<s, p>>
  BY <1>1, <1>2 DEF BookTypes
<1>4. cancel_map[o][1] = s /\ cancel_map[o][2] = p /\ p \in DOMAIN book[s]
  BY <1>3, RestingFacts
<1>5. status' = [status EXCEPT ![o] = "CANCELLED"]
  BY <1>4 DEF CancelResting
<1>6. PICK A : A = Placed(cancel_map, s, p)
  OBVIOUS
<1>7. o \in A /\ req[o] # None
  BY <1>1, <1>2, <1>3, <1>6 DEF Placed, OrdersSound
<1>8. /\ PyMap(PythonLevels, PythonQueue, PythonTotal, cancel_map, stamp, Rem)
      /\ PyTypes(cancel_map, stamp, Rem)
  BY MappedBook DEF PythonView
<1>9. PICK q : q = PythonQueue[s][p]
  OBVIOUS
<1>10. IsList(q, A, stamp) /\ p \in PythonLevels[s]
  BY <1>6, <1>7, <1>8, <1>9 DEF PyMap
<1>11. PICK i \in 1..Len(q) : q[i] = o
  BY <1>7, <1>10 DEF IsList
<1>12. \A a \in A : stamp[a] \in Nat
  BY <1>1, <1>6 DEF BookTypes, Placed
<1>13. IsList(RemoveAt(q, i), A \ {o}, stamp)
  BY <1>10, <1>11, <1>12, ListRemove
<1>14. PICK lv2, qu2, to2, cm2, rem2 :
         /\ lv2 = PythonLevels' /\ qu2 = PythonQueue' /\ to2 = PythonTotal'
         /\ cm2 = cancel_map' /\ rem2 = Rem'
  OBVIOUS
<1>15. PyMap(lv2, qu2, to2, cm2, stamp, rem2)
  <2>1. PyMap(PythonLevels', PythonQueue', PythonTotal', cancel_map', stamp', Rem')
    BY MappedNext DEF PythonView
  <2> QED BY <2>1, <1>2, <1>14
<1>16. \A n \in OrderId : rem2[n] = Rem[n]
  BY <1>2, <1>14, RemFacts
<1>17. PICK left : left = RemoveAt(q, i)
  OBVIOUS
<1>18. /\ lv2 = IF Len(PythonQueue[s][p]) = 1 THEN [PythonLevels EXCEPT ![s] = PythonLevels[s] \ {p}]
                ELSE PythonLevels
       /\ qu2 = [PythonQueue EXCEPT ![s][p] = left]
       /\ to2 = [PythonTotal EXCEPT ![s][p] = PythonTotal[s][p] - Rem[o]]
  <2>1. \A n \in OrderId : cm2[n] = IF n = o THEN None ELSE cancel_map[n]
    BY <1>1, <1>2, <1>14 DEF BookTypes
  <2>2. IsList(left, Placed(cancel_map, s, p) \ {o}, stamp) /\ o \in Placed(cancel_map, s, p)
    BY <1>6, <1>7, <1>13, <1>17
  <2>3. PICK lv, qu, to, cm, st, rem :
          /\ lv = PythonLevels /\ qu = PythonQueue /\ to = PythonTotal
          /\ cm = cancel_map /\ st = stamp /\ rem = Rem
    OBVIOUS
  <2>4. PyTypes(cm, st, rem) /\ PyMap(lv, qu, to, cm, st, rem)
    BY <2>3, <1>8
  <2>5. PyMap(lv2, qu2, to2, cm2, st, rem2)
    BY <2>3, <1>15
  <2>6. Leaves(cm, st, rem, cm2, rem2, s, p, o, left)
    BY <2>1, <2>2, <2>3, <1>16 DEF Leaves
  <2>7. Without(lv, qu, to, lv2, qu2, to2, s, p, left, rem[o])
    BY <2>4, <2>5, <2>6, MapRemove
  <2> QED BY <2>3, <2>7 DEF Without
<1>19. Rem[o] = Python!Remaining(o)
  BY <1>1, <1>7, ReqView
<1>20. PythonReq' = PythonReq
  BY <1>2, ReqSame
<1>21. Python!RemoveResting(o, s, p, i)
  <2>1. PythonQueue' = [PythonQueue EXCEPT ![s][p] = Python!RemoveAt(PythonQueue[s][p], i)]
    BY <1>9, <1>14, <1>17, <1>18, SameOperators
  <2>2. PythonTotal' = [PythonTotal EXCEPT ![s][p] = Python!TotalWithout(s, p, o)]
    BY <1>14, <1>18, <1>19 DEF Python!TotalWithout
  <2>3. PythonLevels' = Python!LevelsAfterRemoval(s, p)
    BY <1>14, <1>18 DEF Python!LevelsAfterRemoval
  <2> QED BY <2>1, <2>2, <2>3, <1>5 DEF Python!RemoveResting
<1>22. i \in 1..Len(PythonQueue[s][p]) /\ PythonQueue[s][p][i] = o
  BY <1>9, <1>11
<1>23. p \in PythonLevels[s] /\ Python!Contains(PythonQueue[s][p], o)
  BY <1>10, <1>22, SameOperators
<1>24. cancel_map' = Python!Forget(o)
  BY <1>2 DEF Python!Forget
<1> QED BY <1>2, <1>4, <1>20, <1>21, <1>22, <1>23, <1>24 DEF Python!CancelResting

\* Both books look at the same side and the same level, and agree on whether to trade.
LEMMA SidesAgree ==
    ASSUME BookInv, MarketsUnpriced, taker # None
    PROVE  /\ taker \in OrderId /\ req[taker] # None /\ Other \in Side
           /\ Python!Opposite(PythonReq[taker].side) = Other
           /\ \A p \in Price : Python!Crosses(PythonReq[taker].side, PythonReq[taker].price, p)
                                <=> Crosses(req[taker], p)
           /\ DOMAIN book[Other] # {} =>
                Best(Other) \in Price /\ Python!IsBest(Other, Best(Other))
<1>1. BookTypes /\ OrdersSound
  BY DEF BookInv
<1>2. taker \in OrderId /\ req[taker] # None
  BY <1>1 DEF BookTypes, OrdersSound
<1>3. PICK r \in Request : r = req[taker]
  BY <1>1, <1>2 DEF BookTypes
<1>4. PICK v : v = PythonReq[taker]
  OBVIOUS
<1>5. v.side = r.side /\ v.price = (IF r.price = 0 THEN None ELSE r.price)
  BY <1>1, <1>2, <1>3, <1>4, ReqView
<1>6. r.side \in Side /\ r.order_type \in {"LIMIT", "MARKET"}
  BY DEF Request
<1>7. Other \in Side /\ Python!Opposite(v.side) = Other
  BY <1>3, <1>5, <1>6 DEF Other, Opposite, Side, Python!Opposite
<1>8. ASSUME NEW p \in Price PROVE Python!Crosses(v.side, v.price, p) <=> Crosses(r, p)
  <2>1. CASE r.order_type = "MARKET"
    <3>1. r.price = 0
      BY <2>1, <1>2, <1>3 DEF MarketsUnpriced
    <3> QED BY <3>1, <2>1, <1>5 DEF Python!Crosses, Crosses
  <2>2. CASE r.order_type = "LIMIT"
    <3>1. r.price \in Price
      BY <2>2, <1>1, <1>2, <1>3 DEF OrdersSound
    <3>2. r.price # 0 /\ r.price # None
      BY <3>1, PriceAssumption, NoneAssumption
    <3> QED BY <3>2, <2>2, <1>5 DEF Python!Crosses, Crosses
  <2> QED BY <2>1, <2>2, <1>6
<1>9. ASSUME DOMAIN book[Other] # {}
      PROVE  Best(Other) \in Price /\ Python!IsBest(Other, Best(Other))
  <2>1. PICK s \in Side : s = Other
    BY <1>7
  <2>2. PICK b : b = Best(s)
    OBVIOUS
  <2>3. b \in DOMAIN book[s] /\ \A q \in DOMAIN book[s] : IF s = "BUY" THEN b >= q ELSE b <= q
    BY <2>1, <2>2, <1>1, <1>9, BestFacts
  <2>4. DOMAIN book[s] \subseteq Price
    BY <1>1, LevelsFacts DEF BookTypes
  <2>5. PythonLevels[s] = DOMAIN book[s]
    BY DEF PythonLevels
  <2>6. ASSUME NEW q \in DOMAIN book[s] PROVE q = b \/ Python!Better(s, b, q)
    <3>1. b \in Nat /\ q \in Nat
      BY <2>3, <2>4, PriceAssumption
    <3> QED BY <3>1, <2>3 DEF Python!Better
  <2>7. Python!IsBest(s, b)
    BY <2>3, <2>5, <2>6 DEF Python!IsBest
  <2> QED BY <2>1, <2>2, <2>3, <2>4, <2>7
<1> QED BY <1>2, <1>3, <1>4, <1>7, <1>8, <1>9

\* The loop ends in both books at once.
LEMMA LoopEnds ==
    ASSUME BookInv, MarketsUnpriced, taker # None, ~Matching
    PROVE  Python!LoopDone
<1>1. BookTypes /\ OrdersSound
  BY DEF BookInv
<1>2. PICK s : s = Other
  OBVIOUS
<1>3. /\ taker \in OrderId /\ req[taker] # None /\ s \in Side
      /\ Python!Opposite(PythonReq[taker].side) = s
      /\ \A p \in Price : Python!Crosses(PythonReq[taker].side, PythonReq[taker].price, p)
                           <=> Crosses(req[taker], p)
      /\ DOMAIN book[s] # {} => Best(s) \in Price /\ Python!IsBest(s, Best(s))
  BY <1>2, SidesAgree
<1>4. Python!Remaining(taker) = Remaining(taker)
  BY <1>1, <1>3, ReqView
<1>5. Remaining(taker) \in Int /\ Remaining(taker) >= 0
  <2>1. /\ Remaining(taker) \in Int /\ Remaining(taker) = req[taker].quantity - filled[taker]
        /\ req[taker].quantity \in Nat /\ filled[taker] \in Nat
    BY <1>1, <1>3, RequestFacts
  <2>2. filled[taker] <= req[taker].quantity
    BY <1>1, <1>3 DEF OrdersSound
  <2> QED BY <2>1, <2>2
<1>6. PythonLevels[s] = DOMAIN book[s]
  BY <1>3 DEF PythonLevels
<1>7. CASE Remaining(taker) = 0
  BY <1>4, <1>7 DEF Python!LoopDone
<1>8. CASE DOMAIN book[s] = {}
  BY <1>3, <1>6, <1>8 DEF Python!LoopDone
<1>9. CASE Remaining(taker) > 0 /\ DOMAIN book[s] # {}
  <2>1. ~Crosses(req[taker], Best(s))
    BY <1>2, <1>9 DEF Matching
  <2> QED BY <2>1, <1>3, <1>9 DEF Python!LoopDone
<1> QED BY <1>5, <1>7, <1>8, <1>9

\* submit returns without resting the order.
LEMMA StepReturns ==
    ASSUME BookInv, StampsDiffer, BookInv', StampsDiffer', NEW st,
           status' = [status EXCEPT ![taker] = st], taker' = None,
           UNCHANGED <<req, filled, sequence, trades, stamp, cancel_map>>
    PROVE  Python!Return(st)
<1>1. \A o \in OrderId : Rem'[o] = Rem[o]
  BY RemFacts
<1>2. PythonLevels' = PythonLevels /\ PythonQueue' = PythonQueue /\ PythonTotal' = PythonTotal
  BY <1>1, ViewSame
<1>3. PythonReq' = PythonReq
  BY ReqSame
<1> QED BY <1>2, <1>3 DEF Python!Return

\* The residual comes to rest behind the orders of its level.
LEMMA StepRests ==
    ASSUME BookInv, StampsDiffer, BookInv', StampsDiffer', taker # None,
           NEW s \in Side, NEW p \in Price,
           cancel_map' = [cancel_map EXCEPT ![taker] = <<s, p>>],
           status' = [status EXCEPT ![taker] =
                         IF filled[taker] = 0 THEN "OPEN" ELSE "PARTIALLY_FILLED"],
           UNCHANGED <<req, filled, stamp>>
    PROVE  Python!RestOrder(taker, s, p)
<1>1. BookTypes /\ OrdersSound
  BY DEF BookInv
<1>2. taker \in OrderId /\ req[taker] # None
  BY <1>1 DEF BookTypes, OrdersSound
<1>3. cancel_map[taker] = None /\ \A n \in OrderId : n # taker => stamp[n] < stamp[taker]
  BY <1>1, <1>2 DEF OrdersSound
<1>4. Rem[taker] = Python!Remaining(taker) /\ Rem[taker] \in Int
  BY <1>1, <1>2, ReqView, RequestFacts
<1>5. Rem' = Rem
  BY DEF Rem, Remaining
<1>6. PICK lv, qu, to, cm, st, rem :
        /\ lv = PythonLevels /\ qu = PythonQueue /\ to = PythonTotal
        /\ cm = cancel_map /\ st = stamp /\ rem = Rem
  OBVIOUS
<1>7. PyTypes(cm, st, rem) /\ PyMap(lv, qu, to, cm, st, rem)
  BY <1>6, MappedBook DEF PythonView
<1>8. PICK lv2, qu2, to2, cm2 :
        /\ lv2 = PythonLevels' /\ qu2 = PythonQueue' /\ to2 = PythonTotal' /\ cm2 = cancel_map'
  OBVIOUS
<1>9. PyMap(lv2, qu2, to2, cm2, st, rem)
  <2>1. PyMap(PythonLevels', PythonQueue', PythonTotal', cancel_map', stamp', Rem')
    BY MappedNext DEF PythonView
  <2> QED BY <2>1, <1>5, <1>6, <1>8
<1>10. \A n \in OrderId : cm2[n] = IF n = taker THEN <<s, p>> ELSE cm[n]
  BY <1>1, <1>2, <1>6, <1>8 DEF BookTypes
<1>11. Rests(cm, st, rem, cm2, s, p, taker)
  BY <1>2, <1>3, <1>4, <1>6, <1>10 DEF Rests
<1>12. With(lv, qu, to, lv2, qu2, to2, s, p, taker, rem[taker])
  BY <1>7, <1>9, <1>11, MapRest
<1>13. /\ PythonLevels' = [PythonLevels EXCEPT ![s] = PythonLevels[s] \union {p}]
       /\ PythonQueue' = [PythonQueue EXCEPT ![s][p] = Python!Enqueue(s, p, taker)]
       /\ PythonTotal' = [PythonTotal EXCEPT ![s][p] =
                             Python!LevelTotal(s, p) + Python!Remaining(taker)]
  BY <1>4, <1>6, <1>8, <1>12
     DEF With, Python!Enqueue, Python!LevelOrders, Python!LevelTotal
<1>14. status' = [status EXCEPT ![taker] = Python!RestingStatus(taker)]
  BY DEF Python!RestingStatus
<1> QED BY <1>13, <1>14 DEF Python!RestOrder

\* submit returns.
LEMMA StepFinishes ==
    ASSUME BookInv, ParityInv, BookInv', StampsDiffer', Finish
    PROVE  Python!Finish
<1>1. BookTypes /\ OrdersSound /\ StampsDiffer /\ MarketsUnpriced
  BY DEF BookInv, ParityInv
<1>2. /\ taker # None /\ ~Matching /\ taker' = None
      /\ req' = req /\ filled' = filled /\ sequence' = sequence /\ trades' = trades /\ stamp' = stamp
  BY DEF Finish
<1>3. taker \in OrderId /\ req[taker] # None
  BY <1>1, <1>2 DEF BookTypes, OrdersSound
<1>4. Python!LoopDone
  BY <1>1, <1>2, LoopEnds
<1>5. /\ PythonReq[taker].order_type = req[taker].order_type
      /\ PythonReq[taker].side = req[taker].side
      /\ PythonReq[taker].time_in_force = req[taker].time_in_force
      /\ PythonReq[taker].price = (IF req[taker].price = 0 THEN None ELSE req[taker].price)
      /\ Python!Remaining(taker) = Remaining(taker)
  BY <1>1, <1>3, ReqView
<1>6. /\ req[taker].order_type \in {"LIMIT", "MARKET"} /\ req[taker].side \in Side
      /\ req[taker].time_in_force \in {"GTC", "IOC", "FOK", "GTD"}
  BY <1>1, <1>3 DEF BookTypes, Request
<1>7. /\ Remaining(taker) \in Int /\ Remaining(taker) >= 0 /\ filled[taker] \in Nat
  <2>1. /\ Remaining(taker) \in Int /\ Remaining(taker) = req[taker].quantity - filled[taker]
        /\ req[taker].quantity \in Nat /\ filled[taker] \in Nat
    BY <1>1, <1>3, RequestFacts
  <2>2. filled[taker] <= req[taker].quantity
    BY <1>1, <1>3 DEF OrdersSound
  <2> QED BY <2>1, <2>2
<1>8. ASSUME ~Residual(taker, {"GTC", "GTD"})
      PROVE  /\ status' = [status EXCEPT ![taker] =
                   IF Residual(taker, {"IOC", "FOK"}) THEN "CANCELLED" ELSE MatchedStatus(taker)]
             /\ cancel_map' = cancel_map
  BY <1>8 DEF Finish
<1>9. CASE Remaining(taker) = 0
  <2>1. status' = [status EXCEPT ![taker] = "FILLED"] /\ cancel_map' = cancel_map
    BY <1>8, <1>9 DEF Residual, MatchedStatus
  <2>2. Python!Return("FILLED")
    BY <2>1, <1>1, <1>2, StepReturns
  <2> QED BY <2>2, <1>4, <1>5, <1>9 DEF Python!Finish, Python!FinishFilled
<1>10. CASE Remaining(taker) > 0 /\ req[taker].order_type = "MARKET"
  <2>1. PICK st : st = IF filled[taker] > 0 THEN "PARTIALLY_FILLED" ELSE status[taker]
    OBVIOUS
  <2>2. status' = [status EXCEPT ![taker] = st] /\ cancel_map' = cancel_map
    BY <2>1, <1>7, <1>8, <1>10 DEF Residual, MatchedStatus
  <2>3. Python!Return(st)
    BY <2>2, <1>1, <1>2, StepReturns
  <2> QED BY <2>1, <2>3, <1>4, <1>5, <1>10 DEF Python!Finish, Python!FinishMarket
<1>11. CASE /\ Remaining(taker) > 0 /\ req[taker].order_type = "LIMIT"
            /\ req[taker].time_in_force \in {"IOC", "FOK"}
  <2>1. status' = [status EXCEPT ![taker] = "CANCELLED"] /\ cancel_map' = cancel_map
    BY <1>8, <1>11 DEF Residual
  <2>2. Python!Return("CANCELLED")
    BY <2>1, <1>1, <1>2, StepReturns
  <2> QED BY <2>2, <1>4, <1>5, <1>11 DEF Python!Finish, Python!FinishKill
<1>12. CASE /\ Remaining(taker) > 0 /\ req[taker].order_type = "LIMIT"
            /\ req[taker].time_in_force \in {"GTC", "GTD"}
  <2>1. PICK s, p : s = req[taker].side /\ p = req[taker].price
    OBVIOUS
  <2>2. s \in Side /\ p \in Price
    BY <2>1, <1>1, <1>3, <1>6, <1>12 DEF OrdersSound
  <2>3. RestOrder(taker, s, p)
    BY <2>1, <1>12 DEF Finish, Residual
  <2>4. cancel_map' = [cancel_map EXCEPT ![taker] = <<s, p>>]
    BY <2>3 DEF RestOrder
  <2>5. status' = [status EXCEPT ![taker] =
                      IF filled[taker] = 0 THEN "OPEN" ELSE "PARTIALLY_FILLED"]
    <3>1. status' = [status EXCEPT ![taker] =
                        IF filled[taker] = 0 THEN "OPEN" ELSE MatchedStatus(taker)]
      BY <2>3 DEF RestOrder
    <3>2. filled[taker] # 0 => MatchedStatus(taker) = "PARTIALLY_FILLED"
      <4>1. filled[taker] # 0 => filled[taker] > 0
        BY <1>7
      <4>2. Remaining(taker) # 0
        BY <1>7, <1>12
      <4> QED BY <4>1, <4>2, <1>12 DEF MatchedStatus
    <3>3. CASE filled[taker] = 0
      BY <3>1, <3>3
    <3>4. CASE filled[taker] # 0
      BY <3>1, <3>2, <3>4
    <3> QED BY <3>3, <3>4
  <2>6. Python!RestOrder(taker, s, p)
    BY <2>2, <2>4, <2>5, <1>1, <1>2, StepRests
  <2>7. p # 0
    BY <2>2, PriceAssumption
  <2>8. PythonReq' = PythonReq
    BY <1>2, ReqSame
  <2>9. PythonReq[taker].side = s /\ PythonReq[taker].price = p
    BY <2>1, <2>7, <1>5
  <2> QED BY <2>6, <2>8, <2>9, <1>2, <1>4, <1>5, <1>12 DEF Python!Finish, Python!FinishRest
<1> QED BY <1>6, <1>7, <1>9, <1>10, <1>11, <1>12

\* The head of a level is the first order of its queue.
LEMMA HeadIsFirst ==
    ASSUME BookInv, StampsDiffer, NEW s \in Side, NEW p \in Price, p \in DOMAIN book[s],
           NEW q, q = PythonQueue[s][p], NEW r, r = book[s][p].head
    PROVE  /\ q # <<>> /\ Head(q) = r /\ r \in Placed(cancel_map, s, p)
           /\ IsList(Tail(q), Placed(cancel_map, s, p) \ {r}, stamp)
<1>1. BookTypes /\ OrdersSound /\ ListInv
  BY DEF BookInv
<1>2. PICK A : A = Placed(cancel_map, s, p)
  OBVIOUS
<1>3. IsList(q, A, stamp)
  BY <1>2, MappedBook DEF PythonView, PyMap
<1>4. Chain(A, link, stamp, book[s][p])
  BY <1>2, <1>1 DEF ListInv, Lists, LevelSound
<1>5. None \notin A /\ \A n \in A : n \in OrderId /\ cancel_map[n] # None
  BY <1>2, PlacedFacts
<1>6. \A n \in A : req[n] # None /\ stamp[n] \in Nat
  BY <1>1, <1>5 DEF OrdersSound, BookTypes
<1>7. \A a, b \in A : stamp[a] = stamp[b] => a = b
  BY <1>5, <1>6 DEF StampsDiffer
<1>8. r \in A
  BY <1>4 DEF Chain
<1>9. \A x \in A : stamp[r] <= stamp[x]
  BY <1>4, <1>5, <1>6, <1>7, ChainOrder
<1>10. q # <<>> /\ Len(q) >= 1 /\ Head(q) = q[1] /\ q[1] \in A /\ IsList(Tail(q), A \ {q[1]}, stamp)
  BY <1>3, <1>6, <1>8, ListTail
<1>11. PICK i \in 1..Len(q) : q[i] = r
  BY <1>3, <1>8 DEF IsList
<1>12. Len(q) \in Nat
  BY <1>3, ListFacts
<1>13. q[1] = r
  <2>1. CASE i = 1
    BY <2>1, <1>11
  <2>2. CASE i # 1
    <3>1. 1 \in 1..Len(q) /\ 1 < i
      BY <2>2, <1>10, <1>12
    <3>2. stamp[q[1]] < stamp[r]
      BY <3>1, <1>3, <1>11 DEF IsList
    <3>3. stamp[r] <= stamp[q[1]] /\ stamp[r] \in Nat /\ stamp[q[1]] \in Nat
      BY <1>6, <1>8, <1>9, <1>10
    <3> QED BY <3>2, <3>3
  <2> QED BY <2>1, <2>2
<1> QED BY <1>2, <1>8, <1>10, <1>13

\* One iteration of the matching loop.
LEMMA StepFills ==
    ASSUME BookInv, ParityInv, BookInv', StampsDiffer', Fill
    PROVE  Python!Fill
<1>1. BookTypes /\ OrdersSound /\ StampsDiffer /\ RestingAreLimits /\ MarketsUnpriced
  BY DEF BookInv, ParityInv
<1>2. PICK s \in Side, p \in Price, r \in OrderId, q \in Nat : FillOf(s, p, r, q)
  BY FillFacts
<1>3. /\ taker \in OrderId /\ req[taker] # None /\ cancel_map[taker] = None
      /\ s = Other /\ p = Best(s) /\ Crosses(req[taker], p)
      /\ p \in DOMAIN book[s] /\ r = book[s][p].head
      /\ cancel_map[r] = <<s, p>> /\ r # taker /\ req[r] # None
      /\ q = Least(Remaining(taker), Remaining(r))
      /\ q > 0 /\ q <= Remaining(taker)
  BY <1>2 DEF FillOf
<1>4. /\ filled' = [filled EXCEPT ![taker] = @ + q, ![r] = @ + q]
      /\ trades' = Append(trades, [maker |-> r, taker |-> taker,
                                   price |-> req[r].price, quantity |-> q])
      /\ status' = [status EXCEPT ![r] =
                       IF Remaining(r) = q THEN "FILLED" ELSE "PARTIALLY_FILLED"]
      /\ cancel_map' = IF Remaining(r) = q THEN [cancel_map EXCEPT ![r] = None] ELSE cancel_map
      /\ req' = req /\ sequence' = sequence /\ taker' = taker /\ stamp' = stamp
  BY <1>2 DEF FillOf
<1>5. taker # None
  BY <1>3, NoneAssumption
<1>6. /\ Python!Opposite(PythonReq[taker].side) = s
      /\ Python!Crosses(PythonReq[taker].side, PythonReq[taker].price, p)
      /\ Python!IsBest(s, p)
  BY <1>1, <1>3, <1>5, SidesAgree
<1>7. PICK w : w = PythonQueue[s][p]
  OBVIOUS
<1>8. /\ w # <<>> /\ Head(w) = r /\ r \in Placed(cancel_map, s, p)
      /\ IsList(Tail(w), Placed(cancel_map, s, p) \ {r}, stamp)
  BY <1>1, <1>3, <1>7, HeadIsFirst, ZenonT(60)
<1>9. /\ Python!Remaining(taker) = Remaining(taker) /\ Python!Remaining(r) = Remaining(r)
      /\ Rem[r] = Remaining(r) /\ Remaining(taker) \in Int /\ Remaining(r) \in Int
  BY <1>1, <1>3, ReqView, RequestFacts
<1>10. q = Python!Least(Python!Remaining(taker), Python!Remaining(r))
  BY <1>3, <1>9 DEF Python!Least, Least
<1>11. Python!TradePrice(r) = req[r].price
  <2>1. cancel_map[r] # None
    BY <1>3, PlacedFacts
  <2>2. req[r].order_type = "LIMIT"
    BY <2>1, <1>1 DEF RestingAreLimits
  <2>3. req[r].price \in Price
    BY <2>2, <1>1, <1>3 DEF OrdersSound
  <2>4. req[r].price # 0
    BY <2>3, PriceAssumption
  <2> QED BY <2>4, <1>1, <1>3, ReqView DEF Python!TradePrice
<1>12. PICK lv, qu, to, cm, st, rem :
         /\ lv = PythonLevels /\ qu = PythonQueue /\ to = PythonTotal
         /\ cm = cancel_map /\ st = stamp /\ rem = Rem
  OBVIOUS
<1>13. PyTypes(cm, st, rem) /\ PyMap(lv, qu, to, cm, st, rem)
  BY <1>1, <1>12, MappedBook DEF PythonView
<1>14. PICK lv2, qu2, to2, cm2, rem2 :
         /\ lv2 = PythonLevels' /\ qu2 = PythonQueue' /\ to2 = PythonTotal'
         /\ cm2 = cancel_map' /\ rem2 = Rem'
  OBVIOUS
<1>15. PyMap(lv2, qu2, to2, cm2, st, rem2)
  <2>1. PyMap(PythonLevels', PythonQueue', PythonTotal', cancel_map', stamp', Rem')
    BY MappedNext DEF PythonView
  <2> QED BY <2>1, <1>4, <1>12, <1>14
<1>16. /\ rem2[r] = rem[r] - q
       /\ \A n \in OrderId : cm[n] # None /\ n # r => rem2[n] = rem[n]
  <2>1. /\ filled'[r] = filled[r] + q
        /\ \A n \in OrderId : n # taker /\ n # r => filled'[n] = filled[n]
    BY <1>1, <1>2, FillOrders
  <2>2. \A n \in OrderId : cm[n] # None => n # taker
    BY <1>3, <1>12
  <2>3. /\ \A n \in OrderId : rem[n] = req[n].quantity - filled[n]
        /\ \A n \in OrderId : rem2[n] = req[n].quantity - filled'[n]
    BY <1>4, <1>12, <1>14, RemFacts
  <2>4. filled[r] \in Nat /\ req[r].quantity \in Nat
    BY <1>1, <1>3, RequestFacts
  <2> QED BY <2>1, <2>2, <2>3, <2>4
<1>17. PythonReq' = PythonReq
  BY <1>4, ReqSame
<1>18. /\ PythonTotal' = [PythonTotal EXCEPT ![s][p] = PythonTotal[s][p] - q]
       /\ PythonQueue' = IF Remaining(r) = q THEN [PythonQueue EXCEPT ![s][p] = Tail(w)]
                         ELSE PythonQueue
       /\ PythonLevels' = IF Remaining(r) = q THEN Python!LevelsAfterRemoval(s, p)
                          ELSE PythonLevels
  <2>1. CASE Remaining(r) = q
    <3>1. \A n \in OrderId : cm2[n] = IF n = r THEN None ELSE cm[n]
      BY <2>1, <1>1, <1>4, <1>12, <1>14 DEF BookTypes
    <3>2. PICK left : left = Tail(w)
      OBVIOUS
    <3>3. Leaves(cm, st, rem, cm2, rem2, s, p, r, left)
      BY <3>1, <3>2, <1>8, <1>12, <1>16 DEF Leaves
    <3>4. Without(lv, qu, to, lv2, qu2, to2, s, p, left, rem[r])
      BY <3>3, <1>13, <1>15, MapRemove
    <3>5. rem[r] = q
      BY <2>1, <1>9, <1>12
    <3> QED BY <3>2, <3>4, <3>5, <2>1, <1>12, <1>14 DEF Without, Python!LevelsAfterRemoval
  <2>2. CASE Remaining(r) # q
    <3>1. cm2 = cm
      BY <2>2, <1>4, <1>12, <1>14
    <3>2. WantsLess(cm, r, q, rem, rem2)
      BY <1>16 DEF WantsLess, OthersWant
    <3>3. PyMap(lv2, qu2, to2, cm, st, rem2)
      BY <3>1, <1>15
    <3>4. r \in Placed(cm, s, p) /\ q \in Int
      BY <1>8, <1>12
    <3>5. lv2 = lv /\ qu2 = qu /\ to2 = [to EXCEPT ![s][p] = to[s][p] - q]
      BY <3>2, <3>3, <3>4, <1>13, MapLess
    <3> QED BY <3>5, <2>2, <1>12, <1>14
  <2> QED BY <2>1, <2>2
<1>19. cancel_map' = IF Remaining(r) = q THEN Python!Forget(r) ELSE cancel_map
  BY <1>4 DEF Python!Forget
<1>20. Python!FillAt(p, r)
  BY <1>4, <1>6, <1>7, <1>9, <1>10, <1>11, <1>17, <1>18, <1>19 DEF Python!FillAt
<1>21. Python!Remaining(taker) > 0
  BY <1>3, <1>9
<1> QED BY <1>5, <1>6, <1>7, <1>8, <1>20, <1>21 DEF Python!Fill

\* An order that passes the checks of submit is one the Python book may be asked for.
LEMMA AcceptedRequest ==
    ASSUME BookInv, UnpricedMarkets, NEW path \in Path, NEW order \in Submissions[path],
           AcceptOrder(order, path)
    PROVE  \E o \in OrderId : \E r \in Request :
             /\ req[o] = None
             /\ r.order_type = "LIMIT" => r.price \in Price
             /\ r.order_type = "MARKET" => r.price = 0
             /\ PythonRequest(r) \in PythonRequests
             /\ Submit(o, r)
<1>1. order \in Submission
  BY SubmissionsAssumption
<1>2. PICK o \in OrderId, r \in Request :
        /\ req[o] = None
        /\ r.order_type = "LIMIT" => r.price \in Price
        /\ Submit(o, r)
  BY <1>1, AcceptedOrder
<1>3. PICK n : n = NativeOrder(order)
  OBVIOUS
<1>4. /\ n.quantity = order.quantity /\ n.order_type = order.order_type
      /\ n.price = IF order.price = None THEN 0 ELSE order.price
      /\ n.order_id = order.order_id
  BY <1>1, <1>3, NativeOrderFacts
<1>5. Submit(n.order_id, Fixed(n)) /\ Rejection(n) = None /\ Encodable(NewOrder(order))
  BY <1>3 DEF AcceptOrder, Reaches
<1>6. r = Fixed(n)
  <2>1. taker' = o /\ taker' = n.order_id
    BY <1>2, <1>5 DEF Submit
  <2>2. req' = [req EXCEPT ![o] = r] /\ req' = [req EXCEPT ![n.order_id] = Fixed(n)]
    BY <1>2, <1>5 DEF Submit
  <2>3. DOMAIN req = OrderId
    BY DEF BookInv, BookTypes
  <2> QED BY <2>1, <2>2, <2>3
<1>7. r.order_type = "MARKET" => r.price = 0
  <2>1. r.order_type = n.order_type /\ r.price = n.price
    BY <1>6 DEF Fixed
  <2>2. order.order_type = "MARKET" => order.price = None
    BY DEF UnpricedMarkets
  <2> QED BY <2>1, <2>2, <1>4
<1>8. order.quantity # 0
  <2>1. /\ None # "SYMBOL_NOT_FOUND" /\ None # "DUPLICATE_ORDER_ID"
        /\ None # "INVALID_QUANTITY" /\ None # "INVALID_PRICE"
    BY ReasonAssumption DEF Reason
  <2> QED BY <2>1, <1>4, <1>5 DEF Rejection
<1>9. order \in Submissions["object"] \union Submissions["bytes"]
  BY DEF Path
<1>10. PythonRequest(Fixed(NativeOrder(order))) \in PythonRequests
  BY <1>5, <1>8, <1>9 DEF PythonRequests
<1> QED BY <1>2, <1>3, <1>6, <1>7, <1>10

\* A new order has a stamp of its own.
LEMMA SubmitParity ==
    ASSUME BookInv, ParityInv, NEW o \in OrderId, NEW r \in Request, req[o] = None,
           r.order_type = "MARKET" => r.price = 0, Submit(o, r)
    PROVE  ParityInv'
<1>1. BookTypes /\ OrdersSound
  BY DEF BookInv
<1>2. /\ req' = [req EXCEPT ![o] = r] /\ stamp' = [stamp EXCEPT ![o] = sequence + 1]
      /\ cancel_map' = cancel_map
  BY DEF Submit
<1>3. /\ req'[o] = r /\ stamp'[o] = sequence + 1
      /\ \A n \in OrderId : n # o => req'[n] = req[n] /\ stamp'[n] = stamp[n]
  BY <1>1, <1>2 DEF BookTypes
<1>4. \A n \in OrderId : stamp[n] # sequence + 1
  BY <1>1 DEF BookTypes, OrdersSound
<1>5. StampsDiffer'
  BY <1>3, <1>4 DEF ParityInv, StampsDiffer
<1>6. cancel_map[o] = None
  BY <1>1 DEF OrdersSound
<1>7. RestingAreLimits'
  BY <1>2, <1>3, <1>6 DEF ParityInv, RestingAreLimits
<1>8. MarketsUnpriced'
  BY <1>3 DEF ParityInv, MarketsUnpriced
<1> QED BY <1>5, <1>7, <1>8 DEF ParityInv

\* After that, an order keeps its fields and its stamp, and only the residual of a
\* limit order comes to rest.
LEMMA StepParity ==
    ASSUME ParityInv, req' = req, stamp' = stamp,
           \A o \in OrderId : cancel_map'[o] # None =>
               cancel_map[o] # None \/ req[o].order_type = "LIMIT"
    PROVE  ParityInv'
<1>1. StampsDiffer'
  BY DEF ParityInv, StampsDiffer
<1>2. RestingAreLimits'
  BY DEF ParityInv, RestingAreLimits
<1>3. MarketsUnpriced'
  BY DEF ParityInv, MarketsUnpriced
<1> QED BY <1>1, <1>2, <1>3 DEF ParityInv

\* A fill, a return and a cancel keep the invariant.
LEMMA BookParity ==
    ASSUME BookInv, ParityInv, Fill \/ Finish \/ \E o \in OrderId : CancelResting(o)
    PROVE  ParityInv'
<1>1. BookTypes
  BY DEF BookInv
<1>2. DOMAIN cancel_map = OrderId
  BY <1>1 DEF BookTypes
<1>3. req' = req /\ stamp' = stamp
  BY DEF Fill, Finish, CancelResting
<1>4. \A o \in OrderId : cancel_map'[o] # None =>
        cancel_map[o] # None \/ req[o].order_type = "LIMIT"
  <2>1. CASE Fill
    <3>1. PICK s \in Side, p \in Price, r \in OrderId, q \in Nat : FillOf(s, p, r, q)
      BY <2>1, FillFacts
    <3>2. cancel_map' = [cancel_map EXCEPT ![r] = None] \/ cancel_map' = cancel_map
      BY <3>1 DEF FillOf
    <3> QED BY <3>2, <1>2
  <2>2. CASE Finish
    <3>1. \/ cancel_map' = cancel_map
          \/ /\ req[taker].order_type = "LIMIT"
             /\ \E x : cancel_map' = [cancel_map EXCEPT ![taker] = x]
      <4>1. CASE Residual(taker, {"GTC", "GTD"})
        <5>1. RestOrder(taker, req[taker].side, req[taker].price)
          BY <2>2, <4>1 DEF Finish
        <5>2. cancel_map' = [cancel_map EXCEPT ![taker] = <<req[taker].side, req[taker].price>>]
          BY <5>1 DEF RestOrder
        <5> QED BY <5>2, <4>1 DEF Residual
      <4>2. CASE ~Residual(taker, {"GTC", "GTD"})
        BY <2>2, <4>2 DEF Finish
      <4> QED BY <4>1, <4>2
    <3> QED BY <3>1, <1>2
  <2>3. CASE \E o \in OrderId : CancelResting(o)
    <3>1. PICK o \in OrderId : CancelResting(o)
      BY <2>3
    <3>2. cancel_map' = [cancel_map EXCEPT ![o] = None]
      BY <3>1 DEF CancelResting
    <3> QED BY <3>2, <1>2
  <2> QED BY <2>1, <2>2, <2>3
<1> QED BY <1>3, <1>4, StepParity

\* A step of the Python book, or none.
PythonStep == Python!Next \/ UNCHANGED Python!vars

\* Each step of the backend keeps the invariant and is a step of the Python book or
\* leaves it alone.
LEMMA ParityStep ==
    ASSUME BookInv, ParityInv, UnpricedMarkets, [HALNext]_halVars
    PROVE  ParityInv' /\ PythonStep
<1>0. BookInv' /\ StampsDiffer
  BY BookStep DEF ParityInv
<1>1. ASSUME UNCHANGED vars PROVE ParityInv' /\ PythonStep
  <2>1. req' = req /\ stamp' = stamp /\ cancel_map' = cancel_map
    BY <1>1 DEF vars
  <2>2. ParityInv'
    BY <2>1, StepParity
  <2>3. UNCHANGED Python!vars
    BY <2>2, <1>0, <1>1, StepStutters DEF ParityInv
  <2> QED BY <2>2, <2>3 DEF PythonStep
<1>2. ASSUME NEW path \in Path, NEW order \in Submissions[path], AcceptOrder(order, path)
      PROVE  ParityInv' /\ PythonStep
  <2>1. PICK o \in OrderId, r \in Request :
          /\ req[o] = None
          /\ r.order_type = "LIMIT" => r.price \in Price
          /\ r.order_type = "MARKET" => r.price = 0
          /\ PythonRequest(r) \in PythonRequests
          /\ Submit(o, r)
    BY <1>2, AcceptedRequest
  <2>2. ParityInv'
    BY <2>1, SubmitParity
  <2>3. Python!SubmitNew(o)
    BY <2>1, <2>2, <1>0, StepSubmits DEF ParityInv
  <2> QED BY <2>2, <2>3 DEF PythonStep, Python!Next
<1>3. ASSUME Fill PROVE ParityInv' /\ PythonStep
  <2>1. ParityInv'
    BY <1>3, BookParity
  <2>2. Python!Fill
    BY <2>1, <1>0, <1>3, StepFills DEF ParityInv
  <2> QED BY <2>1, <2>2 DEF PythonStep, Python!Next
<1>4. ASSUME Finish PROVE ParityInv' /\ PythonStep
  <2>1. ParityInv'
    BY <1>4, BookParity
  <2>2. Python!Finish
    BY <2>1, <1>0, <1>4, StepFinishes DEF ParityInv
  <2> QED BY <2>1, <2>2 DEF PythonStep, Python!Next
<1>5. ASSUME NEW o \in OrderId, NativeCancel(o) PROVE ParityInv' /\ PythonStep
  <2>1. CancelResting(o)
    BY <1>5 DEF NativeCancel
  <2>2. ParityInv'
    BY <2>1, BookParity
  <2>3. Python!CancelResting(o)
    BY <2>1, <2>2, <1>0, StepCancels DEF ParityInv
  <2> QED BY <2>2, <2>3 DEF PythonStep, Python!Next, Python!Cancel
<1>6. ASSUME UNCHANGED halVars PROVE ParityInv' /\ PythonStep
  BY <1>1, <1>6 DEF halVars
<1>7. ASSUME RegisterSymbol PROVE ParityInv' /\ PythonStep
  BY <1>1, <1>7 DEF RegisterSymbol
<1>8. ASSUME NEW order, SubmitRaises(order) PROVE ParityInv' /\ PythonStep
  BY <1>6, <1>8 DEF SubmitRaises
<1>9. ASSUME NEW order, NEW path, RejectOrder(order, path) PROVE ParityInv' /\ PythonStep
  BY <1>1, <1>9 DEF RejectOrder
<1>10. ASSUME NEW o, CancelMisses(o) PROVE ParityInv' /\ PythonStep
  BY <1>6, <1>10 DEF CancelMisses
<1>11. ASSUME NEW o, GetOrder(o) PROVE ParityInv' /\ PythonStep
  BY <1>1, <1>11 DEF GetOrder
<1>12. ASSUME NEW o \in OrderId, CancelOrder(o) \/ CancelOrderBytes(o)
       PROVE  ParityInv' /\ PythonStep
  BY <1>5, <1>12 DEF CancelOrder, CancelOrderBytes
<1>13. ASSUME MatchStep PROVE ParityInv' /\ PythonStep
  BY <1>3, <1>13 DEF MatchStep
<1>14. ASSUME SubmitReturns PROVE ParityInv' /\ PythonStep
  BY <1>4, <1>14 DEF SubmitReturns
<1> QED BY <1>2, <1>6, <1>7, <1>8, <1>9, <1>10, <1>11, <1>12, <1>13, <1>14 DEF HALNext

\* Both books are empty at first.
LEMMA ParityInit == BookInit => ParityInv /\ Python!Init
<1> SUFFICES ASSUME BookInit PROVE ParityInv /\ Python!Init
  OBVIOUS
<1>1. /\ \A o \in OrderId : req[o] = None /\ cancel_map[o] = None
      /\ \A s \in Side : book[s] = <<>>
  BY DEF BookInit
<1>2. ParityInv
  BY <1>1 DEF ParityInv, StampsDiffer, RestingAreLimits, MarketsUnpriced
<1>3. PythonReq = [o \in OrderId |-> None]
  BY <1>1 DEF PythonReq
<1>4. \A s \in Side : DOMAIN book[s] = {}
  BY <1>1
<1>5. PythonLevels = [s \in Side |-> {}]
  BY <1>4 DEF PythonLevels
<1>6. PythonQueue = [s \in Side |-> [p \in Price |-> <<>>]]
  BY <1>4 DEF PythonQueue, Walk
<1>7. PythonTotal = [s \in Side |-> [p \in Price |-> 0]]
  <2>1. BookInv
    BY BookInitInv
  <2>2. PyMap(PythonLevels, PythonQueue, PythonTotal, cancel_map, stamp, Rem)
    BY <2>1, <1>2, MappedBook DEF ParityInv, PythonView
  <2>3. ASSUME NEW s \in Side, NEW p \in Price PROVE PythonTotal[s][p] = 0
    <3>1. Placed(cancel_map, s, p) = {}
      BY <1>1, PlacedFacts
    <3>2. PythonTotal[s][p] = SumFunctionOnSet(Rem, {})
      BY <3>1, <2>2 DEF PyMap
    <3> QED BY <3>2, SumEmpty
  <2>4. PythonTotal = [s \in Side |-> [p \in Price |-> PythonTotal[s][p]]]
    BY <2>2 DEF PyMap, Table
  <2> QED BY <2>3, <2>4
<1>8. /\ filled = [o \in OrderId |-> 0] /\ status = [o \in OrderId |-> "PENDING"]
      /\ cancel_map = [o \in OrderId |-> None] /\ sequence = 0 /\ taker = None
      /\ trades = <<>> /\ stamp = [o \in OrderId |-> 0]
  BY DEF BookInit
<1>9. Python!Side = Side
  BY DEF Python!Side, Side
<1>10. Python!Init
  BY <1>3, <1>5, <1>6, <1>7, <1>8, <1>9 DEF Python!Init
<1> QED BY <1>2, <1>10

\* "Semantic parity" (README.md), but for its liveness: as long as MARKET orders carry
\* no price, whatever is submitted and cancelled on either path, each step of the C++
\* book is the step of the Python book on the same order: the same fill at the same
\* price, the same residual, the same cancel, with the linked list of each level,
\* walked from its head, as the queue of that price.
THEOREM BooksAgree ==
    ASSUME UnpricedMarkets
    PROVE  HALSpec => Python!Safety
<1>1. HALInit => BookInv /\ ParityInv /\ Python!Init
  BY BookInitInv, ParityInit DEF HALInit
<1>2. BookInv /\ ParityInv /\ [HALNext]_halVars =>
        BookInv' /\ ParityInv' /\ [Python!Next]_(Python!vars)
  BY BookStep, ParityStep DEF PythonStep
<1> QED BY <1>1, <1>2, PTL DEF HALSpec, Python!Safety
=============================================================================
