-------------------------- MODULE WlRelay_proofs --------------------------
(***************************************************************************)
(* For any sets of ids, sizes of buffers and plans of the peers: types,    *)
(* that messages are read as meant and keep their descriptors, and that    *)
(* the relay implements the channel.  In this order: types; what a queue   *)
(* says of an id; the life of an id, which is the heart of the inductive   *)
(* invariant IInv; how the steps move the queues; each step on the lives;  *)
(* descriptors; the other parts of IInv and its theorems; the refinement.  *)
(***************************************************************************)
EXTENDS WlRelay, SequenceFacts

(* A descriptor is named by its sender and how much that was yet to send.   *)
(* A message that makes or announces something says of which interface: it  *)
(* is what ends up in a peer's objects.                                     *)
Fd == Sides \X Nat
Op == {"make", "global", "delete_id", "destroy", "receive", "set_cursor",
       "keymap", "enter", "leave", "configure", "drm_fd"}
Fields == [obj : Ids, op : Op, id : Ids \cup {None}, type : Interface \cup {None},
           active : BOOLEAN, iface : Interface \cup {None, "zombie"}, fds : Seq(Fd)]
Message == {m \in Fields : m.op \in {"make", "global"} => m.type \in Interface}
Queue == [msgs : Seq(Message), fds : Seq(Fd)]

PeersTyped ==
    /\ mine \in [Ids -> Interface \cup {None, "zombie"}]
    /\ theirs \in [Ids -> Interface \cup {None}]
    /\ offered \subseteq Interface
    /\ waiting \in BOOLEAN
    /\ plan \in Plan

SocketsTyped ==
    /\ from \in [Sides -> Queue]
    /\ to \in [Sides -> Queue]
    /\ \A s \in Sides : Len(to[s].msgs) <= Capacity
    /\ open \subseteq Sides

RelayTyped ==
    /\ leg \in [Sides -> Queue]
    /\ ids \in [Sides -> [Ids -> Known \cup {None}]]
    /\ todo \in Seq(Sides)
    /\ busy \in Sides \cup {None}
    /\ done \in BOOLEAN

(* What TypeOK says, and of the messages on their way what it rests on.     *)
Typed == PeersTyped /\ SocketsTyped /\ RelayTyped

-----------------------------------------------------------------------------
LEMMA NothingTyped == Nothing \in Queue
BY EmptySeq DEF Nothing, Queue

LEMMA PutTyped ==
    ASSUME NEW q \in Queue, NEW m \in Message
    PROVE  Put(q, m) \in Queue
<1>1. q.msgs \in Seq(Message) /\ q.fds \in Seq(Fd) /\ m.fds \in Seq(Fd)
    BY DEF Queue, Message, Fields
<1>2. Append(q.msgs, m) \in Seq(Message)
    BY <1>1
<1>3. q.fds \o m.fds \in Seq(Fd)
    BY <1>1, ConcatProperties
<1>4. QED
    BY <1>2, <1>3 DEF Put, Queue

(* A queue loses its first message and as many descriptors as went with it. *)
LEMMA TakenTyped ==
    ASSUME NEW q \in Queue, q.msgs # <<>>, NEW n \in 0..Len(q.fds)
    PROVE  /\ Head(q.msgs) \in Message
           /\ [msgs |-> Tail(q.msgs), fds |-> SubSeq(q.fds, n + 1, Len(q.fds))] \in Queue
           /\ Len(Tail(q.msgs)) = Len(q.msgs) - 1
<1>1. q.msgs \in Seq(Message) /\ q.fds \in Seq(Fd)
    BY DEF Queue
<1>2. Len(q.fds) \in Nat
    BY <1>1, LenProperties
<1>3. SubSeq(q.fds, n + 1, Len(q.fds)) \in Seq(Fd)
    BY <1>1, <1>2, SubSeqTyped
<1>4. QED
    BY <1>1, <1>3, HeadTailProperties DEF Queue

LEMMA CarryingTyped ==
    ASSUME NEW m \in Message, NEW fd \in Fd
    PROVE  Carrying(m, fd) \in Message
<1>1. <<fd>> \in Seq(Fd)
    OBVIOUS
<1>2. QED
    BY <1>1, Zenon DEF Carrying, Message, Fields

LEMMA PlainTyped ==
    ASSUME NEW o \in Ids, NEW i \in Interface \cup {None, "zombie"},
           NEW op \in Op \ {"make", "global"}
    PROVE  Plain(o, i, op) \in Message
<1>1. <<>> \in Seq(Fd)
    BY EmptySeq
<1>2. QED
    BY <1>1 DEF Plain, Message, Fields

LEMMA MakingTyped ==
    ASSUME NEW o \in Ids, NEW i \in Interface \cup {None, "zombie"},
           NEW x \in Ids, NEW t \in Interface
    PROVE  Making(o, i, x, t) \in Message
<1>1. <<>> \in Seq(Fd)
    BY EmptySeq
<1>2. Plain(o, i, "make") \in Fields
    BY <1>1 DEF Plain, Fields, Op
<1>3. Plain(o, i, "make").op = "make"
    BY DEF Plain
<1>4. QED
    BY <1>2, <1>3, Zenon DEF Making, Message, Fields

LEMMA GlobalTyped ==
    ASSUME NEW t \in Interface
    PROVE  Global(t) \in Message
<1>1. <<>> \in Seq(Fd)
    BY EmptySeq
<1>2. Plain("registry", "registry", "global") \in Fields
    BY <1>1 DEF Plain, Fields, Op, Ids, Interface, Known
<1>3. QED
    BY <1>2, Zenon DEF Global, Plain, Message, Fields

LEMMA SendTyped ==
    ASSUME Typed, NEW s \in Sides, NEW m \in Message, Send(s, m)
    PROVE  plan' \in Plan /\ from' \in [Sides -> Queue]
<1>1. plan[s] \in Nat /\ plan[s] - 1 \in Nat
    BY DEF Typed, PeersTyped, Plan, Sides, Send
<1>2. plan' \in Plan
    <2>1. CASE s = "client"
        BY <1>1, <2>1 DEF Typed, PeersTyped, Plan, Send
    <2>2. CASE s = "upstream"
        BY <1>1, <2>2 DEF Typed, PeersTyped, Plan, Send
    <2>3. QED
        BY <2>1, <2>2 DEF Sides
<1>3. Carrying(m, <<s, plan[s]>>) \in Message
    BY <1>1, CarryingTyped DEF Fd
<1>4. from[s] \in Queue /\ from \in [Sides -> Queue]
    BY DEF Typed, SocketsTyped
<1>5. Put(from[s], Carrying(m, <<s, plan[s]>>)) \in Queue
    BY <1>3, <1>4, PutTyped
<1>6. QED
    BY <1>2, <1>4, <1>5 DEF Send

LEMMA ReceiveTyped ==
    ASSUME Typed, NEW s \in Sides, Receive(s)
    PROVE  /\ to' \in [Sides -> Queue]
           /\ \A q \in Sides : Len(to'[q].msgs) <= Capacity
           /\ Head(to[s].msgs) \in Message
<1> DEFINE q == to[s]
           m == Head(q.msgs)
           n == IF Len(m.fds) <= Len(q.fds) THEN Len(m.fds) ELSE Len(q.fds)
           rest == [msgs |-> Tail(q.msgs), fds |-> SubSeq(q.fds, n + 1, Len(q.fds))]
<1>1. q \in Queue /\ q.msgs # <<>> /\ q.msgs \in Seq(Message) /\ q.fds \in Seq(Fd)
    BY DEF Typed, SocketsTyped, Receive, Queue
<1>2. m \in Message
    BY <1>1, HeadTailProperties
<1>3. n \in 0..Len(q.fds)
    <2>1. m.fds \in Seq(Fd)
        BY <1>2 DEF Message, Fields
    <2>2. Len(m.fds) \in Nat /\ Len(q.fds) \in Nat
        BY <1>1, <2>1, LenProperties
    <2>3. QED
        BY <2>2
<1>4. rest \in Queue /\ Len(rest.msgs) = Len(q.msgs) - 1
    BY <1>1, <1>3, TakenTyped, Zenon
<1>5. to' = [to EXCEPT ![s] = rest]
    BY DEF Receive
<1>6. Len(q.msgs) \in Nat /\ Len(q.msgs) <= Capacity /\ Capacity \in Nat
    BY <1>1, LenProperties, RelayAssumption DEF Typed, SocketsTyped
<1>7. QED
    <2> HIDE DEF rest, n
    <2>1. to \in [Sides -> Queue] /\ \A p \in Sides : Len(to[p].msgs) <= Capacity
        BY DEF Typed, SocketsTyped
    <2>2. Len(rest.msgs) <= Capacity
        BY <1>4, <1>6
    <2>3. to' \in [Sides -> Queue]
        BY <1>4, <1>5, <2>1
    <2>4. ASSUME NEW p \in Sides PROVE Len(to'[p].msgs) <= Capacity
        <3>1. to'[p] = IF p = s THEN rest ELSE to[p]
            BY <1>5, <2>1
        <3>2. QED
            BY <3>1, <2>1, <2>2
    <2>5. QED
        BY <1>2, <2>3, <2>4

-----------------------------------------------------------------------------
LEMMA TypedInit == Init => Typed
<1> SUFFICES ASSUME Init PROVE Typed
    OBVIOUS
<1>1. Begun \in [Ids -> Known \cup {None}]
    BY DEF Begun, Known
<1>2. Known \subseteq Interface
    BY DEF Interface
<1>3. PeersTyped
    BY <1>1, <1>2, RelayAssumption, Zenon DEF Init, PeersTyped
<1>4. SocketsTyped
    <2>1. \A s \in Sides : to[s] = Nothing
        BY DEF Init
    <2>2. Len(Nothing.msgs) = 0
        BY EmptySeq DEF Nothing
    <2>3. 0 <= Capacity
        BY RelayAssumption
    <2>4. \A s \in Sides : Len(to[s].msgs) <= Capacity
        BY <2>1, <2>2, <2>3
    <2>5. QED
        BY <2>4, NothingTyped DEF Init, SocketsTyped
<1>5. RelayTyped
    BY <1>1, NothingTyped, EmptySeq, Zenon DEF Init, RelayTyped
<1>6. QED
    BY <1>3, <1>4, <1>5 DEF Typed

-----------------------------------------------------------------------------
(* The peers.                                                               *)

LEMMA ClientSendsTyped == Typed /\ ClientSends => Typed'
<1> SUFFICES ASSUME Typed, ClientSends PROVE Typed'
    OBVIOUS
<1>1. ASSUME NEW o \in Ids, NEW x \in ClientId, NEW t \in Interface, ClientMakes(o, x, t)
      PROVE  Typed'
    <2>1. x \in Ids /\ mine[o] \in Interface \cup {None, "zombie"}
        BY DEF Ids, Typed, PeersTyped
    <2>2. Making(o, mine[o], x, t) \in Message
        BY <2>1, MakingTyped
    <2>3. plan' \in Plan /\ from' \in [Sides -> Queue]
        BY <1>1, <2>2, SendTyped DEF ClientMakes, Sides
    <2>4. mine' \in [Ids -> Interface \cup {None, "zombie"}]
        BY <1>1, Zenon DEF ClientMakes, Typed, PeersTyped
    <2>5. QED
        BY <1>1, <2>3, <2>4
        DEF ClientMakes, Typed, PeersTyped, SocketsTyped, RelayTyped, inner
<1>2. ASSUME NEW o \in Ids, NEW op \in {"destroy", "receive", "set_cursor"}, ClientAsks(o, op)
      PROVE  Typed'
    <2>1. mine[o] \in Interface \cup {None, "zombie"} /\ op \in Op \ {"make", "global"}
        BY DEF Typed, PeersTyped, Op
    <2>2. Plain(o, mine[o], op) \in Message
        BY <2>1, PlainTyped
    <2>3. plan' \in Plan /\ from' \in [Sides -> Queue]
        BY <1>2, <2>2, SendTyped DEF ClientAsks, Sides
    <2>4. mine' \in [Ids -> Interface \cup {None, "zombie"}]
        BY <1>2 DEF ClientAsks, Typed, PeersTyped
    <2>5. QED
        BY <1>2, <2>3, <2>4
        DEF ClientAsks, Typed, PeersTyped, SocketsTyped, RelayTyped, inner
<1>3. QED
    BY <1>1, <1>2 DEF ClientSends

LEMMA CompositorSendsTyped == Typed /\ CompositorSends => Typed'
<1> SUFFICES ASSUME Typed, CompositorSends PROVE Typed'
    OBVIOUS
<1>1. ASSUME NEW g \in plan.globals, Announces(g) PROVE Typed'
    <2>1. g \in Interface
        BY DEF Typed, PeersTyped, Plan, Interface, Known, FdFree
    <2>2. plan' \in Plan /\ from' \in [Sides -> Queue]
        BY <1>1, <2>1, GlobalTyped, SendTyped DEF Announces, Sides
    <2>3. QED
        BY <1>1, <2>2 DEF Announces, Typed, PeersTyped, SocketsTyped, RelayTyped, inner
<1>2. ASSUME NEW o \in Ids, NEW op \in {"keymap", "enter", "leave", "configure", "drm_fd"},
             NEW on \in BOOLEAN, CompositorTells(o, op, on)
      PROVE  Typed'
    <2>1. theirs[o] \in Interface \cup {None, "zombie"} /\ op \in Op \ {"make", "global"}
        BY DEF Typed, PeersTyped, Op
    <2>2. Plain(o, theirs[o], op) \in Message
        BY <2>1, PlainTyped
    <2>3. [Plain(o, theirs[o], op) EXCEPT !.active = on] \in Message
        BY <2>2 DEF Message, Fields
    <2>4. plan' \in Plan /\ from' \in [Sides -> Queue]
        BY <1>2, <2>3, SendTyped DEF CompositorTells, Sides
    <2>5. QED
        BY <1>2, <2>4 DEF CompositorTells, Typed, PeersTyped, SocketsTyped, RelayTyped, inner
<1>3. ASSUME NEW o \in Ids, NEW x \in ServerId, NEW t \in Interface, CompositorMakes(o, x, t)
      PROVE  Typed'
    <2>1. x \in Ids /\ theirs[o] \in Interface \cup {None, "zombie"}
        BY DEF Ids, Typed, PeersTyped
    <2>2. Making(o, theirs[o], x, t) \in Message
        BY <2>1, MakingTyped
    <2>3. plan' \in Plan /\ from' \in [Sides -> Queue]
        BY <1>3, <2>2, SendTyped DEF CompositorMakes, Sides
    <2>4. theirs' \in [Ids -> Interface \cup {None}]
        BY <1>3, Zenon DEF CompositorMakes, Typed, PeersTyped
    <2>5. QED
        BY <1>3, <2>3, <2>4
        DEF CompositorMakes, Typed, PeersTyped, SocketsTyped, RelayTyped, inner
<1>4. QED
    BY <1>1, <1>2, <1>3 DEF CompositorSends

LEMMA ClientReceivesTyped == Typed /\ ClientReceives => Typed'
<1> SUFFICES ASSUME Typed, ClientReceives PROVE Typed'
    OBVIOUS
<1> DEFINE m == Head(to["client"].msgs)
<1>1. /\ to' \in [Sides -> Queue]
      /\ \A q \in Sides : Len(to'[q].msgs) <= Capacity
      /\ m \in Message
    BY ReceiveTyped DEF ClientReceives, Sides
<1>2. m.type \in Interface \cup {None} /\ (m.op = "global" => m.type \in Interface)
    BY <1>1 DEF Message, Fields
<1>3. mine' \in [Ids -> Interface \cup {None, "zombie"}]
    BY <1>2, Zenon DEF ClientReceives, Typed, PeersTyped
<1>4. offered' \subseteq Interface
    BY <1>2 DEF ClientReceives, Typed, PeersTyped
<1>5. QED
    BY <1>1, <1>3, <1>4
    DEF ClientReceives, Typed, PeersTyped, SocketsTyped, RelayTyped, inner

LEMMA CompositorReceivesTyped == Typed /\ CompositorReceives => Typed'
<1> SUFFICES ASSUME Typed, CompositorReceives PROVE Typed'
    OBVIOUS
<1> DEFINE m == Head(to["upstream"].msgs)
<1>1. /\ to' \in [Sides -> Queue]
      /\ \A q \in Sides : Len(to'[q].msgs) <= Capacity
      /\ m \in Message
    BY ReceiveTyped DEF CompositorReceives, Sides
<1>2. m.type \in Interface \cup {None} /\ m.obj \in Ids
    BY <1>1 DEF Message, Fields
<1>3. theirs' \in [Ids -> Interface \cup {None}]
    BY <1>2, Zenon DEF CompositorReceives, Typed, PeersTyped
<1>4. from' \in [Sides -> Queue]
    <2>1. Plain("display", "display", "delete_id") \in Message
        BY PlainTyped DEF Ids, Interface, Known, Op
    <2>2. DeleteId(m.obj) \in Message
        BY <1>2, <2>1, Zenon DEF DeleteId, Message, Fields, Plain
    <2>3. from["upstream"] \in Queue /\ from \in [Sides -> Queue]
        BY DEF Typed, SocketsTyped, Sides
    <2>4. Put(from["upstream"], DeleteId(m.obj)) \in Queue
        BY <2>2, <2>3, PutTyped
    <2>5. QED
        BY <2>3, <2>4, Zenon DEF CompositorReceives
<1>5. QED
    BY <1>1, <1>3, <1>4
    DEF CompositorReceives, Typed, PeersTyped, SocketsTyped, RelayTyped, inner

LEMMA HangUpTyped == ASSUME NEW s \in Sides PROVE Typed /\ HangUp(s) => Typed'
<1> SUFFICES ASSUME Typed, HangUp(s) PROVE Typed'
    OBVIOUS
<1>1. Len(Nothing.msgs) <= Capacity
    BY EmptySeq, RelayAssumption DEF Nothing
<1>2. to' \in [Sides -> Queue]
    BY NothingTyped DEF HangUp, Typed, SocketsTyped
<1>3. ASSUME NEW q \in Sides PROVE Len(to'[q].msgs) <= Capacity
    <2>1. to'[q] = IF q = s THEN Nothing ELSE to[q]
        BY DEF HangUp, Typed, SocketsTyped
    <2>2. QED
        BY <1>1, <2>1 DEF Typed, SocketsTyped
<1>4. QED
    BY <1>2, <1>3 DEF HangUp, Typed, PeersTyped, SocketsTyped, RelayTyped, peers, inner

-----------------------------------------------------------------------------
(* The relay.                                                               *)

LEMMA LegReadTyped == Typed /\ LegRead => Typed'
<1> SUFFICES ASSUME Typed, LegRead PROVE Typed'
    OBVIOUS
<1> DEFINE s == Head(todo)
           q == from[s]
<1>1. s \in Sides /\ Tail(todo) \in Seq(Sides)
    BY HeadTailProperties DEF LegRead, Typed, RelayTyped
<1>2. /\ q \in Queue /\ q.msgs \in Seq(Message) /\ q.fds \in Seq(Fd)
      /\ leg[s] \in Queue /\ leg[s].msgs \in Seq(Message) /\ leg[s].fds \in Seq(Fd)
    BY <1>1 DEF Typed, SocketsTyped, RelayTyped, Queue
<1>3. PICK j \in 0..Len(q.msgs), n \in 0..Len(q.fds) :
        /\ from' = [from EXCEPT ![s] = [msgs |-> SubSeq(q.msgs, j + 1, Len(q.msgs)),
                                        fds  |-> SubSeq(q.fds, n + 1, Len(q.fds))]]
        /\ leg' = [leg EXCEPT ![s] = [msgs |-> leg[s].msgs \o SubSeq(q.msgs, 1, j),
                                      fds  |-> leg[s].fds \o SubSeq(q.fds, 1, n)]]
    BY <1>1, Zenon DEF LegRead, Typed, RelayTyped
<1>4. Len(q.msgs) \in Nat /\ Len(q.fds) \in Nat
    BY <1>2, LenProperties
<1>5. SubSeq(q.msgs, j + 1, Len(q.msgs)) \in Seq(Message) /\ SubSeq(q.msgs, 1, j) \in Seq(Message)
    BY <1>2, <1>4, SubSeqTyped
<1>6. SubSeq(q.fds, n + 1, Len(q.fds)) \in Seq(Fd) /\ SubSeq(q.fds, 1, n) \in Seq(Fd)
    BY <1>2, <1>4, SubSeqTyped
<1>7. /\ leg[s].msgs \o SubSeq(q.msgs, 1, j) \in Seq(Message)
      /\ leg[s].fds \o SubSeq(q.fds, 1, n) \in Seq(Fd)
    BY <1>2, <1>5, <1>6, ConcatProperties
<1>8. from' \in [Sides -> Queue] /\ leg' \in [Sides -> Queue]
    BY <1>3, <1>5, <1>6, <1>7, Zenon DEF Typed, SocketsTyped, RelayTyped, Queue
<1>9. QED
    BY <1>1, <1>8, Zenon DEF LegRead, Typed, PeersTyped, SocketsTyped, RelayTyped, peers

(* The map takes an interface the tables have, or none.                     *)
LEMMA LearnedTyped ==
    ASSUME Typed, NEW s \in Sides, NEW d \in Sides, NEW i, NEW m
    PROVE  Learned(s, d, i, m) \in [Ids -> Known \cup {None}]
BY Zenon DEF Learned, Typed, RelayTyped

LEMMA ForwardTyped ==
    ASSUME Typed, NEW s \in Sides, NEW m \in Message, NEW fds \in Seq(Fd), NEW n,
           Forward(s, m, fds, n)
    PROVE  to' \in [Sides -> Queue] /\ \A q \in Sides : Len(to'[q].msgs) <= Capacity
<1> DEFINE more == [msgs |-> Append(to[s].msgs, m), fds |-> to[s].fds \o fds]
<1>1. to \in [Sides -> Queue] /\ \A q \in Sides : Len(to[q].msgs) <= Capacity
    BY DEF Typed, SocketsTyped
<1>2. CASE to' = [to EXCEPT ![s] = more] /\ Room(to[s])
    <2>1. to[s].msgs \in Seq(Message) /\ to[s].fds \in Seq(Fd)
        BY <1>1 DEF Queue
    <2>2. more \in Queue
        BY <2>1, ConcatProperties DEF Queue
    <2>3. Len(more.msgs) <= Capacity
        <3>1. Len(more.msgs) = Len(to[s].msgs) + 1 /\ Len(to[s].msgs) \in Nat
            BY <2>1, AppendProperties, LenProperties
        <3>2. QED
            BY <1>2, <3>1, RelayAssumption DEF Room
    <2> HIDE DEF more
    <2>4. to' \in [Sides -> Queue]
        BY <1>1, <1>2, <2>2
    <2>5. ASSUME NEW q \in Sides PROVE Len(to'[q].msgs) <= Capacity
        <3>1. to'[q] = IF q = s THEN more ELSE to[q]
            BY <1>1, <1>2
        <3>2. QED
            BY <1>1, <2>3, <3>1
    <2>6. QED
        BY <2>4, <2>5
<1>3. CASE UNCHANGED to
    BY <1>1, <1>3
<1>4. QED
    BY <1>2, <1>3 DEF Forward

LEMMA PumpTyped == ASSUME NEW s \in Sides PROVE Typed /\ Pump(s) => Typed'
<1> SUFFICES ASSUME Typed, Pump(s) PROVE Typed'
    OBVIOUS
<1> DEFINE q == leg[s]
           m == Head(q.msgs)
           i == ids[s][m.obj]
           isEvent == s = "upstream"
           n == FdCount(i, m, isEvent)
           k == IF n <= Len(q.fds) THEN n ELSE 0
           taken == SubSeq(q.fds, 1, k)
           rest == [msgs |-> Tail(q.msgs), fds |-> SubSeq(q.fds, Len(taken) + 1, Len(q.fds))]
           sent == IF isEvent /\ Listed(i, m, isEvent) THEN Spoofed(i, m) ELSE m
<1>1. q \in Queue /\ q.msgs # <<>> /\ q.msgs \in Seq(Message) /\ q.fds \in Seq(Fd)
    BY DEF Pump, Typed, RelayTyped, Queue
<1>2. m \in Message /\ Len(q.fds) \in Nat
    BY <1>1, HeadTailProperties, LenProperties
<1>3. k \in 0..Len(q.fds)
    BY <1>2 DEF FdCount
<1>4. taken \in Seq(Fd) /\ Len(taken) = k
    <2>1. \A j \in 1..k : q.fds[j] \in Fd
        BY <1>1, <1>2, <1>3, ElementOfSeq
    <2>2. taken \in Seq(Fd) /\ Len(taken) = IF 1 <= k THEN k - 1 + 1 ELSE 0
        BY <1>2, <1>3, <2>1, SubSeqProperties
    <2>3. k \in Nat
        BY <1>2, <1>3
    <2> HIDE DEF taken, k
    <2>4. QED
        BY <2>2, <2>3
<1>5. rest \in Queue
    BY <1>1, <1>3, <1>4, TakenTyped, Zenon
<1>6. sent \in Message
    BY <1>2, Zenon DEF Spoofed, Message, Fields
<1>7. Across(s) \in Sides
    BY DEF Across, Sides
<1>8. /\ ids' = [d \in Sides |-> Learned(s, d, i, m)]
      /\ UNCHANGED to \/ Forward(Across(s), sent, taken, n)
      /\ leg' = [leg EXCEPT ![s] = rest]
      /\ UNCHANGED <<peers, from, todo, busy, open, done>>
    BY DEF Pump, Typed, RelayTyped
<1> HIDE DEF sent, taken, n, rest, i, m
<1>9. to' \in [Sides -> Queue] /\ \A p \in Sides : Len(to'[p].msgs) <= Capacity
    <2>1. CASE UNCHANGED to
        BY <2>1 DEF Typed, SocketsTyped
    <2>2. CASE Forward(Across(s), sent, taken, n)
        BY <1>4, <1>6, <1>7, <2>2, ForwardTyped
    <2>3. QED
        BY <1>8, <2>1, <2>2
<1>10. ids' \in [Sides -> [Ids -> Known \cup {None}]]
    BY <1>8, LearnedTyped
<1>11. leg' \in [Sides -> Queue]
    BY <1>5, <1>8 DEF Typed, RelayTyped
<1>12. QED
    BY <1>8, <1>9, <1>10, <1>11 DEF Typed, PeersTyped, SocketsTyped, RelayTyped, peers

LEMMA TypedNext == Typed /\ [Next]_vars => Typed'
<1> SUFFICES ASSUME Typed, [Next]_vars PROVE Typed'
    OBVIOUS
<1>1. CASE Poll
    <2>1. ASSUME NEW s \in Sides PROVE Turn(s) \in Seq(Sides)
        <3>1. <<s>> \in Seq(Sides) /\ <<>> \in Seq(Sides)
            BY EmptySeq
        <3>2. QED
            BY <3>1 DEF Turn
    <2>2. todo' \in Seq(Sides)
        BY <1>1, <2>1, ConcatProperties DEF Poll, Sides
    <2>3. QED
        BY <1>1, <2>2 DEF Poll, Typed, PeersTyped, SocketsTyped, RelayTyped, peers
<1>2. CASE EndOfFile
    BY <1>2, NothingTyped DEF EndOfFile, Typed, PeersTyped, SocketsTyped, RelayTyped, peers
<1>3. ASSUME NEW s \in Sides, Pumped(s) PROVE Typed'
    BY <1>3 DEF Pumped, Typed, PeersTyped, SocketsTyped, RelayTyped, peers
<1>4. CASE ClientWaits \/ ClientResumes
    BY <1>4, Zenon DEF ClientWaits, ClientResumes, Typed, PeersTyped, SocketsTyped, RelayTyped, inner
<1>5. CASE UNCHANGED vars
    BY <1>5 DEF vars, Typed, PeersTyped, SocketsTyped, RelayTyped
<1>6. QED
    BY <1>1, <1>2, <1>3, <1>4, <1>5, LegReadTyped, PumpTyped, ClientSendsTyped,
       CompositorSendsTyped, ClientReceivesTyped, CompositorReceivesTyped, HangUpTyped
    DEF Next, Relay

(* Whatever the peers send, make, free and leave unread, the maps hold only *)
(* interfaces the tables have and no socket is written past its room: what  *)
(* the relay cannot write yet stays with the leg (send_message, id_map_set).*)
THEOREM RelayTypeCorrect == Spec => []TypeOK
<1>1. Typed => TypeOK
    <2> SUFFICES ASSUME Typed PROVE TypeOK
        OBVIOUS
    <2>1. \A s \in Sides : plan[s] \in Nat
        BY DEF Typed, PeersTyped, Plan, Sides
    <2>2. QED
        BY <2>1 DEF Typed, PeersTyped, SocketsTyped, RelayTyped, TypeOK
<1>2. QED
    BY <1>1, TypedInit, TypedNext, PTL DEF Spec

-----------------------------------------------------------------------------
(* In a queue q: nothing makes or frees x, nothing is for x, what is for x  *)
(* takes it for a t; a destructor is sent, and is the last word to x.       *)
NoId(q, x) == \A k \in 1..Len(q) : q[k].id # x
NoWord(q, x) == \A k \in 1..Len(q) : q[k].obj # x
As(q, x, t) == \A k \in 1..Len(q) : q[k].obj = x => q[k].iface = t
Kills(m, x) == m.op = "destroy" /\ m.obj = x
Killed(q, x) == \E k \in 1..Len(q) : Kills(q[k], x)
KillsLast(q, x) == \A k, l \in 1..Len(q) : k < l /\ Kills(q[k], x) => q[l].obj # x

(* One message makes or frees x: it makes a t, it makes a t before anything *)
(* is said to x, it frees x when nothing more is.                           *)
OnlyId(q, x, j) == \A k \in 1..Len(q) : q[k].id = x <=> k = j
Once(q, x) == \E j \in 1..Len(q) : OnlyId(q, x, j)
Brings(q, x, t) == \E j \in 1..Len(q) : OnlyId(q, x, j) /\ q[j].type = t
Made(q, x, t) == \E j \in 1..Len(q) :
    OnlyId(q, x, j) /\ q[j].type = t /\ \A k \in 1..j : q[k].obj # x
FreedLast(q, x) == \E j \in 1..Len(q) :
    OnlyId(q, x, j) /\ \A k \in j..Len(q) : q[k].obj # x

(* r is q with m behind it, and q without its first n messages.             *)
Grown(q, m, r) ==
    /\ Len(q) \in Nat /\ Len(r) = Len(q) + 1
    /\ \A k \in 1..Len(q) : r[k] = q[k]
    /\ r[Len(q) + 1] = m
Cut(q, n, r) ==
    /\ Len(q) \in Nat /\ n \in 0..Len(q) /\ Len(r) = Len(q) - n
    /\ \A k \in 1..(Len(q) - n) : r[k] = q[k + n]

LEMMA GrownWords ==
    ASSUME NEW q, NEW m, NEW r, NEW x, Grown(q, m, r)
    PROVE  /\ NoId(r, x) <=> NoId(q, x) /\ m.id # x
           /\ NoWord(r, x) <=> NoWord(q, x) /\ m.obj # x
           /\ \A t : As(r, x, t) <=> As(q, x, t) /\ (m.obj = x => m.iface = t)
           /\ Killed(r, x) <=> Killed(q, x) \/ Kills(m, x)
           /\ KillsLast(q, x) /\ (~Killed(q, x) \/ m.obj # x) => KillsLast(r, x)
<1>1. 1..Len(r) = 1..Len(q) \cup {Len(q) + 1}
    BY DEF Grown
<1>2. NoId(r, x) <=> NoId(q, x) /\ m.id # x
    BY <1>1 DEF Grown, NoId
<1>3. NoWord(r, x) <=> NoWord(q, x) /\ m.obj # x
    BY <1>1 DEF Grown, NoWord
<1>4. ASSUME NEW t PROVE As(r, x, t) <=> As(q, x, t) /\ (m.obj = x => m.iface = t)
    BY <1>1 DEF Grown, As
<1>5. Killed(r, x) <=> Killed(q, x) \/ Kills(m, x)
    BY <1>1 DEF Grown, Killed
<1>6. ASSUME KillsLast(q, x), ~Killed(q, x) \/ m.obj # x PROVE KillsLast(r, x)
    <2> SUFFICES ASSUME NEW k \in 1..Len(r), NEW l \in 1..Len(r), k < l, Kills(r[k], x)
                 PROVE  r[l].obj # x
        BY DEF KillsLast
    <2>1. k \in 1..Len(q) /\ r[k] = q[k]
        BY <1>1 DEF Grown
    <2>2. CASE l \in 1..Len(q)
        BY <1>6, <2>1, <2>2 DEF Grown, KillsLast
    <2>3. CASE l = Len(q) + 1
        BY <1>6, <2>1, <2>3 DEF Grown, Killed
    <2>4. QED
        BY <1>1, <2>2, <2>3
<1>7. QED
    BY <1>2, <1>3, <1>4, <1>5, <1>6

LEMMA GrownIds ==
    ASSUME NEW q, NEW m, NEW r, NEW x, Grown(q, m, r)
    PROVE  /\ m.id # x =>
                /\ Once(q, x) => Once(r, x)
                /\ \A t : Brings(q, x, t) => Brings(r, x, t)
                /\ \A t : Made(q, x, t) => Made(r, x, t)
                /\ FreedLast(q, x) /\ m.obj # x => FreedLast(r, x)
           /\ m.id = x /\ NoId(q, x) =>
                /\ Once(r, x) /\ Brings(r, x, m.type)
                /\ NoWord(r, x) => Made(r, x, m.type)
                /\ m.obj # x => FreedLast(r, x)
<1>1. 1..Len(r) = 1..Len(q) \cup {Len(q) + 1} /\ Len(q) + 1 \notin 1..Len(q)
    BY DEF Grown
<1>2. ASSUME NEW j \in 1..Len(q), OnlyId(q, x, j), m.id # x
      PROVE  OnlyId(r, x, j) /\ j \in 1..Len(r) /\ r[j] = q[j]
    BY <1>1, <1>2 DEF Grown, OnlyId
<1>3. ASSUME m.id # x
      PROVE  /\ Once(q, x) => Once(r, x)
             /\ \A t : Brings(q, x, t) => Brings(r, x, t)
    BY <1>2, <1>3 DEF Once, Brings
<1>4. ASSUME m.id # x, NEW t, Made(q, x, t) PROVE Made(r, x, t)
    <2>1. PICK j \in 1..Len(q) : OnlyId(q, x, j) /\ q[j].type = t /\ \A k \in 1..j : q[k].obj # x
        BY <1>4 DEF Made
    <2>2. OnlyId(r, x, j) /\ j \in 1..Len(r) /\ r[j].type = t
        BY <1>2, <1>4, <2>1
    <2>3. ASSUME NEW k \in 1..j PROVE r[k].obj # x
        BY <2>1 DEF Grown
    <2>4. QED
        BY <2>2, <2>3 DEF Made
<1>5. ASSUME m.id # x, FreedLast(q, x), m.obj # x PROVE FreedLast(r, x)
    <2>1. PICK j \in 1..Len(q) : OnlyId(q, x, j) /\ \A k \in j..Len(q) : q[k].obj # x
        BY <1>5 DEF FreedLast
    <2>2. OnlyId(r, x, j) /\ j \in 1..Len(r)
        BY <1>2, <1>5, <2>1
    <2>3. ASSUME NEW k \in j..Len(r) PROVE r[k].obj # x
        BY <1>1, <1>5, <2>1 DEF Grown
    <2>4. QED
        BY <2>2, <2>3 DEF FreedLast
<1>6. ASSUME m.id = x, NoId(q, x)
      PROVE  /\ Once(r, x) /\ Brings(r, x, m.type)
             /\ NoWord(r, x) => Made(r, x, m.type)
             /\ m.obj # x => FreedLast(r, x)
    <2> DEFINE j == Len(q) + 1
    <2>1. OnlyId(r, x, j) /\ j \in 1..Len(r) /\ r[j] = m
        BY <1>1, <1>6 DEF Grown, OnlyId, NoId
    <2>2. Once(r, x) /\ Brings(r, x, m.type)
        BY <2>1 DEF Once, Brings
    <2>3. ASSUME NoWord(r, x) PROVE Made(r, x, m.type)
        <3>1. \A k \in 1..j : r[k].obj # x
            BY <1>1, <2>3 DEF Grown, NoWord
        <3>2. QED
            BY <2>1, <3>1 DEF Made
    <2>4. ASSUME m.obj # x PROVE FreedLast(r, x)
        <3>1. \A k \in j..Len(r) : k = j
            BY DEF Grown
        <3>2. \A k \in j..Len(r) : r[k].obj # x
            BY <2>1, <2>4, <3>1
        <3>3. QED
            BY <2>1, <3>2 DEF FreedLast
    <2>5. QED
        BY <2>2, <2>3, <2>4
<1>7. QED
    BY <1>3, <1>4, <1>5, <1>6

LEMMA CutWords ==
    ASSUME NEW q, NEW n, NEW r, NEW x, Cut(q, n, r)
    PROVE  /\ NoId(q, x) => NoId(r, x)
           /\ NoWord(q, x) => NoWord(r, x)
           /\ \A t : As(q, x, t) => As(r, x, t)
           /\ Killed(r, x) => Killed(q, x)
           /\ KillsLast(q, x) => KillsLast(r, x)
           /\ Killed(q, x) /\ KillsLast(q, x) => Killed(r, x) \/ NoWord(r, x)
           /\ \A t : Made(q, x, t) => NoId(r, x) \/ Made(r, x, t)
<1>1. \A k \in 1..Len(r) : k + n \in 1..Len(q) /\ r[k] = q[k + n]
    BY DEF Cut
<1>2. NoId(q, x) => NoId(r, x)
    BY <1>1, Zenon DEF NoId
<1>3. NoWord(q, x) => NoWord(r, x)
    BY <1>1, Zenon DEF NoWord
<1>4. \A t : As(q, x, t) => As(r, x, t)
    BY <1>1 DEF As
<1>5. Killed(r, x) => Killed(q, x)
    BY <1>1 DEF Killed
<1>6. KillsLast(q, x) => KillsLast(r, x)
    <2> SUFFICES ASSUME KillsLast(q, x), NEW k \in 1..Len(r), NEW l \in 1..Len(r),
                        k < l, Kills(r[k], x)
                 PROVE  r[l].obj # x
        BY DEF KillsLast
    <2>1. k + n \in 1..Len(q) /\ l + n \in 1..Len(q) /\ k + n < l + n
        BY <1>1 DEF Cut
    <2>2. QED
        BY <1>1, <2>1 DEF KillsLast
<1>7. ASSUME Killed(q, x), KillsLast(q, x), ~Killed(r, x) PROVE NoWord(r, x)
    <2>1. PICK j \in 1..Len(q) : Kills(q[j], x)
        BY <1>7 DEF Killed
    <2>2. CASE j <= n
        <3>1. \A k \in 1..Len(r) : j < k + n
            BY <2>2 DEF Cut
        <3>2. QED
            BY <1>1, <1>7, <2>1, <3>1, Zenon DEF KillsLast, NoWord
    <2>3. CASE j > n
        <3>1. PICK k \in 1..Len(r) : k + n = j
            <4>1. j - n \in 1..Len(r) /\ j - n + n = j
                BY <2>3 DEF Cut
            <4>2. QED
                BY <4>1
        <3>2. QED
            BY <1>1, <1>7, <2>1, <3>1 DEF Killed
    <2>4. QED
        BY <2>2, <2>3 DEF Cut
<1>8. ASSUME NEW t, Made(q, x, t), ~NoId(r, x) PROVE Made(r, x, t)
    <2>1. PICK j \in 1..Len(q) : OnlyId(q, x, j) /\ q[j].type = t /\ \A k \in 1..j : q[k].obj # x
        BY <1>8 DEF Made
    <2>2. PICK i \in 1..Len(r) : r[i].id = x
        BY <1>8 DEF NoId
    <2>3. i + n = j
        BY <1>1, <2>1, <2>2, Zenon DEF OnlyId
    <2>4. r[i].type = t
        BY <1>1, <2>1, <2>3
    <2>5. OnlyId(r, x, i)
        <3> SUFFICES ASSUME NEW k \in 1..Len(r) PROVE r[k].id = x <=> k = i
            BY DEF OnlyId
        <3>1. r[k] = q[k + n] /\ k + n \in 1..Len(q)
            BY <1>1
        <3>2. k + n = j <=> k = i
            BY <2>3 DEF Cut
        <3>3. QED
            BY <2>1, <3>1, <3>2 DEF OnlyId
    <2>6. ASSUME NEW k \in 1..i PROVE r[k].obj # x
        <3>1. k \in 1..Len(r) /\ k + n \in 1..j
            BY <2>3 DEF Cut
        <3>2. QED
            BY <1>1, <2>1, <3>1, Zenon
    <2>7. QED
        BY <2>4, <2>5, <2>6 DEF Made
<1>9. QED
    BY <1>2, <1>3, <1>4, <1>5, <1>6, <1>7, <1>8

LEMMA TailWords ==
    ASSUME NEW q, NEW r, NEW x, Cut(q, 1, r)
    PROVE  /\ ~Kills(q[1], x) /\ Killed(q, x) => Killed(r, x)
           /\ Kills(q[1], x) /\ KillsLast(q, x) => NoWord(r, x)
           /\ Kills(q[1], x) => Killed(q, x)
           /\ NoWord(q, x) => q[1].obj # x
           /\ NoId(q, x) => q[1].id # x
           /\ q[1].id # x /\ NoId(r, x) => NoId(q, x)
           /\ q[1].obj # x /\ NoWord(r, x) => NoWord(q, x)
           /\ \A t : As(q, x, t) => (q[1].obj = x => q[1].iface = t)
<1>1. /\ \A k \in 1..Len(r) : k + 1 \in 1..Len(q) /\ r[k] = q[k + 1]
      /\ 1 \in 1..Len(q)
    BY DEF Cut
<1>2. ASSUME NEW j \in 1..Len(q), j # 1 PROVE j - 1 \in 1..Len(r) /\ r[j - 1] = q[j]
    <2>1. j - 1 \in 1..Len(r) /\ j - 1 + 1 = j
        BY <1>2 DEF Cut
    <2>2. QED
        BY <1>1, <2>1
<1>3. ~Kills(q[1], x) /\ Killed(q, x) => Killed(r, x)
    BY <1>2 DEF Killed
<1>4. ASSUME Kills(q[1], x), KillsLast(q, x) PROVE NoWord(r, x)
    <2>1. \A k \in 1..Len(r) : 1 < k + 1
        BY DEF Cut
    <2>2. QED
        BY <1>1, <1>4, <2>1 DEF KillsLast, NoWord
<1>5. q[1].id # x /\ NoId(r, x) => NoId(q, x)
    BY <1>2 DEF NoId
<1>6. q[1].obj # x /\ NoWord(r, x) => NoWord(q, x)
    BY <1>2 DEF NoWord
<1>7. QED
    BY <1>1, <1>3, <1>4, <1>5, <1>6, Zenon DEF Killed, NoWord, NoId, As

LEMMA TailIds ==
    ASSUME NEW q, NEW r, NEW x, Cut(q, 1, r)
    PROVE  /\ q[1].id # x =>
                /\ Once(q, x) => Once(r, x)
                /\ \A t : Brings(q, x, t) => Brings(r, x, t)
                /\ \A t : Made(q, x, t) => Made(r, x, t)
                /\ FreedLast(q, x) => FreedLast(r, x)
           /\ q[1].id = x =>
                /\ Once(q, x) => NoId(r, x)
                /\ \A t : Brings(q, x, t) => NoId(r, x) /\ q[1].type = t
                /\ \A t : Made(q, x, t) => NoId(r, x) /\ q[1].type = t
                /\ FreedLast(q, x) => NoId(r, x) /\ NoWord(r, x)
           /\ \A t : Made(q, x, t) => q[1].obj # x
<1>1. /\ \A k \in 1..Len(r) : k + 1 \in 1..Len(q) /\ r[k] = q[k + 1]
      /\ 1 \in 1..Len(q)
    BY DEF Cut
<1>2. ASSUME NEW j \in 1..Len(q), OnlyId(q, x, j), q[1].id # x
      PROVE  j - 1 \in 1..Len(r) /\ r[j - 1] = q[j] /\ OnlyId(r, x, j - 1)
    <2>1. j # 1
        BY <1>1, <1>2 DEF OnlyId
    <2>2. j - 1 \in 1..Len(r) /\ j - 1 + 1 = j
        BY <2>1 DEF Cut
    <2>3. ASSUME NEW k \in 1..Len(r) PROVE r[k].id = x <=> k = j - 1
        <3>1. k + 1 = j <=> k = j - 1
            BY DEF Cut
        <3>2. QED
            BY <1>1, <1>2, <3>1 DEF OnlyId
    <2>4. QED
        BY <1>1, <2>2, <2>3 DEF OnlyId
<1>3. ASSUME NEW j \in 1..Len(q), OnlyId(q, x, j), q[1].id = x
      PROVE  j = 1 /\ NoId(r, x)
    <2>1. j = 1
        BY <1>1, <1>3 DEF OnlyId
    <2>2. ASSUME NEW k \in 1..Len(r) PROVE r[k].id # x
        <3>1. k + 1 # 1
            BY DEF Cut
        <3>2. QED
            BY <1>1, <1>3, <2>1, <3>1 DEF OnlyId
    <2>3. QED
        BY <2>1, <2>2 DEF NoId
<1>4. ASSUME q[1].id # x
      PROVE  /\ Once(q, x) => Once(r, x)
             /\ \A t : Brings(q, x, t) => Brings(r, x, t)
    <2>1. ASSUME Once(q, x) PROVE Once(r, x)
        <3>1. PICK j \in 1..Len(q) : OnlyId(q, x, j)
            BY <2>1 DEF Once
        <3>2. j - 1 \in 1..Len(r) /\ OnlyId(r, x, j - 1)
            BY <1>2, <1>4, <3>1
        <3>3. QED
            BY <3>2 DEF Once
    <2>2. ASSUME NEW t, Brings(q, x, t) PROVE Brings(r, x, t)
        <3>1. PICK j \in 1..Len(q) : OnlyId(q, x, j) /\ q[j].type = t
            BY <2>2 DEF Brings
        <3>2. j - 1 \in 1..Len(r) /\ OnlyId(r, x, j - 1) /\ r[j - 1].type = t
            BY <1>2, <1>4, <3>1
        <3>3. QED
            BY <3>2 DEF Brings
    <2>3. QED
        BY <2>1, <2>2
<1>5. ASSUME q[1].id # x, NEW t, Made(q, x, t) PROVE Made(r, x, t)
    <2>1. PICK j \in 1..Len(q) : OnlyId(q, x, j) /\ q[j].type = t /\ \A k \in 1..j : q[k].obj # x
        BY <1>5 DEF Made
    <2>2. j - 1 \in 1..Len(r) /\ OnlyId(r, x, j - 1) /\ r[j - 1].type = t
        BY <1>2, <1>5, <2>1
    <2>3. ASSUME NEW k \in 1..(j - 1) PROVE r[k].obj # x
        <3>1. k \in 1..Len(r) /\ k + 1 \in 1..j
            BY <2>2 DEF Cut
        <3>2. QED
            BY <1>1, <2>1, <3>1
    <2>4. QED
        BY <2>2, <2>3 DEF Made
<1>6. ASSUME q[1].id # x, FreedLast(q, x) PROVE FreedLast(r, x)
    <2>1. PICK j \in 1..Len(q) : OnlyId(q, x, j) /\ \A k \in j..Len(q) : q[k].obj # x
        BY <1>6 DEF FreedLast
    <2>2. j - 1 \in 1..Len(r) /\ OnlyId(r, x, j - 1)
        BY <1>2, <1>6, <2>1
    <2>3. ASSUME NEW k \in (j - 1)..Len(r) PROVE r[k].obj # x
        <3>1. k \in 1..Len(r) /\ k + 1 \in j..Len(q)
            BY <2>2 DEF Cut
        <3>2. QED
            BY <1>1, <2>1, <3>1
    <2>4. QED
        BY <2>2, <2>3 DEF FreedLast
<1>7. ASSUME q[1].id = x
      PROVE  /\ Once(q, x) => NoId(r, x)
             /\ \A t : Brings(q, x, t) => NoId(r, x) /\ q[1].type = t
             /\ \A t : Made(q, x, t) => NoId(r, x) /\ q[1].type = t
    BY <1>3, <1>7 DEF Once, Brings, Made
<1>8. ASSUME q[1].id = x, FreedLast(q, x) PROVE NoId(r, x) /\ NoWord(r, x)
    <2>1. PICK j \in 1..Len(q) : OnlyId(q, x, j) /\ \A k \in j..Len(q) : q[k].obj # x
        BY <1>8 DEF FreedLast
    <2>2. j = 1 /\ NoId(r, x)
        BY <1>3, <1>8, <2>1
    <2>3. \A k \in 1..Len(r) : r[k].obj # x
        BY <1>1, <2>1, <2>2
    <2>4. QED
        BY <2>2, <2>3 DEF NoWord
<1>9. ASSUME NEW t, Made(q, x, t) PROVE q[1].obj # x
    <2>1. PICK j \in 1..Len(q) : \A k \in 1..j : q[k].obj # x
        BY <1>9 DEF Made
    <2>2. QED
        BY <2>1
<1>10. QED
    BY <1>4, <1>5, <1>6, <1>7, <1>8, <1>9

(* What a queue does that concerns x in no way.                             *)
Quiet(q, r, x) ==
    \/ r = q
    \/ \E m : Grown(q, m, r) /\ m.obj # x /\ m.id # x
    \/ Cut(q, 1, r) /\ q[1].obj # x /\ q[1].id # x

LEMMA QuietKeeps ==
    ASSUME NEW q, NEW r, NEW x, Quiet(q, r, x)
    PROVE  /\ NoId(r, x) <=> NoId(q, x)
           /\ NoWord(q, x) => NoWord(r, x)
           /\ \A t : As(q, x, t) => As(r, x, t)
           /\ Killed(r, x) <=> Killed(q, x)
           /\ KillsLast(q, x) => KillsLast(r, x)
           /\ Once(q, x) => Once(r, x)
           /\ \A t : Brings(q, x, t) => Brings(r, x, t)
           /\ \A t : Made(q, x, t) => Made(r, x, t)
           /\ FreedLast(q, x) => FreedLast(r, x)
<1>1. CASE r = q
    BY <1>1
<1>2. ASSUME NEW m, Grown(q, m, r), m.obj # x, m.id # x
      PROVE  /\ NoId(r, x) <=> NoId(q, x)
             /\ NoWord(q, x) => NoWord(r, x)
             /\ \A t : As(q, x, t) => As(r, x, t)
             /\ Killed(r, x) <=> Killed(q, x)
             /\ KillsLast(q, x) => KillsLast(r, x)
             /\ Once(q, x) => Once(r, x)
             /\ \A t : Brings(q, x, t) => Brings(r, x, t)
             /\ \A t : Made(q, x, t) => Made(r, x, t)
             /\ FreedLast(q, x) => FreedLast(r, x)
    <2>1. ~Kills(m, x)
        BY <1>2 DEF Kills
    <2>2. QED
        BY <1>2, <2>1, GrownWords, GrownIds
<1>3. CASE Cut(q, 1, r) /\ q[1].obj # x /\ q[1].id # x
    <2>1. ~Kills(q[1], x)
        BY <1>3 DEF Kills
    <2>2. QED
        BY <1>3, <2>1, CutWords, TailWords, TailIds, Zenon
<1>4. QED
    BY <1>1, <1>2, <1>3 DEF Quiet

-----------------------------------------------------------------------------
(* The requests on their way to the compositor, those with the relay behind *)
(* those it passed on, and the events on their way to the relay and from it.*)
Ahead == to["upstream"].msgs
Wait == Held("client").msgs
Up == Ahead \o Wait
Down == Held("upstream").msgs
Seen == to["client"].msgs
Map == ids["client"]

(* What a client can have of those, for no lease is announced to it.        *)
Had == Interface \ {"lease"}

(* What the map says of an object that is a t.                              *)
Kn(t) == IF t \in Known THEN t ELSE None

(* A message as the protocol allows it.                                     *)
LegalUp(m) ==
    /\ m.iface # "lease"
    /\ m.obj \in {"display", "registry"} => m.iface = m.obj
    /\ \/ /\ m.op = "make" /\ m.id \in ClientId
          /\ m.type \in RequestMakes(m.iface) \ {"lease"}
       \/ m.op \in Requests(m.iface) /\ m.id = None
    /\ Len(m.fds) = IF m.op \in WithFd THEN 1 ELSE 0
LegalDown(m) ==
    /\ m.iface # "lease" /\ m.obj \notin ServerId
    /\ m.obj \in {"display", "registry"} => m.iface = m.obj
    /\ \/ m.op = "make" /\ m.id \in ServerId /\ m.type \in EventMakes(m.iface)
       \/ m.op \in Events(m.iface) /\ m.id = None
       \/ m.op = "delete_id" /\ m.obj = "display" /\ m.id \in ClientId
       \/ m.op = "global" /\ m.obj = "registry" /\ m.id = None
    /\ Len(m.fds) = IF m.op \in WithFd THEN 1 ELSE 0

Legal ==
    /\ \A t \in offered : Relayable(t)
    /\ \A k \in 1..Len(Up) : LegalUp(Up[k])
    /\ \A k \in 1..Len(Wait) : LegalUp(Wait[k])
    /\ \A k \in 1..Len(Down) : LegalDown(Down[k])
    /\ \A k \in 1..Len(Seen) :
          /\ LegalDown(Seen[k])
          /\ Seen[k].op = "global" => Relayable(Seen[k].type)

(* The life of an id of the client's.  Once the compositor is gone nothing  *)
(* comes of what was on its way to it.                                      *)
Uses(x, t) ==
    /\ As(Up, x, t) /\ KillsLast(Up, x)
    /\ \/ mine[x] = t /\ ~Killed(Up, x)
       \/ mine[x] = "zombie" /\ (Killed(Up, x) \/ ("upstream" \notin open /\ NoWord(Up, x)))

Unborn(x) ==
    /\ mine[x] = None /\ theirs[x] = None
    /\ NoId(Up, x) /\ NoWord(Up, x) /\ NoId(Down, x) /\ NoWord(Down, x) /\ NoId(Seen, x)

Asked(x) == \E t \in Had :
    /\ theirs[x] = None
    /\ Made(Up, x, t) /\ Uses(x, t)
    /\ NoId(Wait, x) => Map[x] = Kn(t)
    /\ NoId(Down, x) /\ NoWord(Down, x) /\ NoId(Seen, x)

Living(x) == \E t \in Had :
    /\ theirs[x] = t \/ "upstream" \notin open
    /\ NoId(Up, x) /\ Uses(x, t)
    /\ Map[x] = Kn(t)
    /\ As(Down, x, t) /\ NoId(Down, x) /\ NoId(Seen, x)

Freed(x) == \E t \in Had :
    /\ mine[x] = "zombie" /\ theirs[x] = None
    /\ NoId(Up, x) /\ NoWord(Up, x)
    /\ FreedLast(Down, x) /\ As(Down, x, t)
    /\ Map[x] = Kn(t)
    /\ NoId(Seen, x)

Told(x) ==
    /\ mine[x] = "zombie" /\ theirs[x] = None
    /\ NoId(Up, x) /\ NoWord(Up, x) /\ NoId(Down, x) /\ NoWord(Down, x)
    /\ Once(Seen, x) \/ ("client" \notin open /\ NoId(Seen, x))

ClientLife(x) == Unborn(x) \/ Asked(x) \/ Living(x) \/ Freed(x) \/ Told(x)

(* The life of an id of the compositor's.                                   *)
Free(x) ==
    /\ mine[x] = None /\ theirs[x] = None
    /\ NoWord(Up, x) /\ NoId(Down, x) /\ NoId(Seen, x)

Fits(x, t) == t = "offer" => Map[x] = "offer"

Offered(x) ==
    /\ mine[x] = None /\ NoWord(Up, x)
    /\ \/ NoId(Seen, x) /\ Brings(Down, x, theirs[x])
       \/ NoId(Down, x) /\ Brings(Seen, x, theirs[x]) /\ Fits(x, theirs[x])
       \/ NoId(Down, x) /\ NoId(Seen, x) /\ "client" \notin open

Used(x) ==
    /\ As(Up, x, theirs[x]) /\ KillsLast(Up, x)
    /\ \/ mine[x] = theirs[x] /\ ~Killed(Up, x)
       \/ mine[x] = None /\ (Killed(Up, x) \/ "upstream" \notin open)
    /\ NoId(Down, x) /\ NoId(Seen, x) /\ Fits(x, theirs[x])

ServerLife(x) ==
    /\ Map[x] \in {None, "offer"}
    /\ \/ Free(x)
       \/ theirs[x] \in {"offer", "tool"} /\ (Offered(x) \/ Used(x))

Roots == \A o \in {"display", "registry"} : mine[o] = o /\ theirs[o] = o /\ Map[o] = o

(* Nothing is written to a peer that is gone, the relay works off what it   *)
(* read before it reads on, and a round of reads is of legs there is        *)
(* something to read of.                                                    *)
Ended == \A s \in Sides : s \notin open => to[s] = Nothing
Idle ==
    /\ done => busy = None
    /\ \A s \in Sides : busy # s => leg[s].msgs = <<>>
Rounds == ~done =>
    /\ todo \in {<<>>, <<"client">>, <<"upstream">>, <<"client", "upstream">>}
    /\ \A s \in Sides : (\E k \in 1..Len(todo) : todo[k] = s) =>
            from[s] # Nothing \/ s \notin open
SameMaps == ids["upstream"] = ids["client"]

Lives == ~done =>
    /\ Legal /\ Roots
    /\ \A x \in ClientId : ClientLife(x)
    /\ \A x \in ServerId : ServerLife(x)

(* The descriptors a peer wrote and the relay did not read are not more     *)
(* than the messages behind need: those of the others have come.            *)
Covered == ~done => \A s \in Sides : Len(from[s].fds) <= Len(FdsOf(from[s].msgs))

IInv == Typed /\ Ended /\ Idle /\ Rounds /\ SameMaps /\ Lives /\ Covered /\ FdsFollow

-----------------------------------------------------------------------------
(* How the queues move.                                                     *)

LEMMA AppendGrows ==
    ASSUME NEW S, NEW q \in Seq(S), NEW m \in S
    PROVE  Grown(q, m, Append(q, m))
<1>1. Len(q) \in Nat
    BY LenProperties
<1>2. QED
    BY <1>1, AppendProperties DEF Grown

LEMMA TailCuts ==
    ASSUME NEW S, NEW q \in Seq(S), q # <<>>
    PROVE  Cut(q, 1, Tail(q)) /\ Head(q) = q[1] /\ 1 \in 1..Len(q) /\ q[1] \in S
<1>1. Len(q) \in Nat \ {0}
    BY LenProperties, EmptySeq
<1>2. Len(Tail(q)) = Len(q) - 1 /\ \A k \in 1..Len(Tail(q)) : Tail(q)[k] = q[k + 1]
    BY HeadTailProperties
<1>3. Head(q) = q[1] /\ q[1] \in S
    BY <1>1, HeadTailProperties, ElementOfSeq
<1>4. QED
    BY <1>1, <1>2, <1>3 DEF Cut

LEMMA SecondCuts ==
    ASSUME NEW S, NEW a \in Seq(S), NEW b \in Seq(S)
    PROVE  Cut(a \o b, Len(a), b)
<1>1. Len(a) \in Nat /\ Len(b) \in Nat
    BY LenProperties
<1>2. /\ Len(a \o b) = Len(a) + Len(b)
      /\ \A i \in 1..(Len(a) + Len(b)) : (a \o b)[i] = IF i <= Len(a) THEN a[i] ELSE b[i - Len(a)]
    BY ConcatProperties
<1>3. ASSUME NEW k \in 1..Len(b) PROVE b[k] = (a \o b)[k + Len(a)]
    <2>1. k + Len(a) \in 1..(Len(a) + Len(b)) /\ ~(k + Len(a) <= Len(a)) /\ k + Len(a) - Len(a) = k
        BY <1>1
    <2>2. PICK i \in 1..(Len(a) + Len(b)) : i = k + Len(a) /\ ~(i <= Len(a)) /\ i - Len(a) = k
        BY <2>1
    <2>3. (a \o b)[i] = b[k]
        BY <1>2, <2>2
    <2>4. QED
        BY <2>2, <2>3
<1>4. QED
    BY <1>1, <1>2, <1>3 DEF Cut

LEMMA QueuesTyped ==
    ASSUME Typed
    PROVE  /\ \A s \in Sides : /\ leg[s] \in Queue /\ from[s] \in Queue /\ to[s] \in Queue
                               /\ leg[s].msgs \in Seq(Message) /\ leg[s].fds \in Seq(Fd)
                               /\ from[s].msgs \in Seq(Message) /\ from[s].fds \in Seq(Fd)
                               /\ to[s].msgs \in Seq(Message) /\ to[s].fds \in Seq(Fd)
                               /\ Held(s).msgs \in Seq(Message) /\ Held(s).fds \in Seq(Fd)
           /\ Ahead \in Seq(Message) /\ Wait \in Seq(Message) /\ Up \in Seq(Message)
           /\ Down \in Seq(Message) /\ Seen \in Seq(Message)
<1>1. ASSUME NEW s \in Sides
      PROVE  /\ leg[s] \in Queue /\ from[s] \in Queue /\ to[s] \in Queue
             /\ leg[s].msgs \in Seq(Message) /\ leg[s].fds \in Seq(Fd)
             /\ from[s].msgs \in Seq(Message) /\ from[s].fds \in Seq(Fd)
             /\ to[s].msgs \in Seq(Message) /\ to[s].fds \in Seq(Fd)
    BY DEF Typed, RelayTyped, SocketsTyped, Queue
<1>2. ASSUME NEW s \in Sides
      PROVE  Held(s).msgs \in Seq(Message) /\ Held(s).fds \in Seq(Fd)
    BY <1>1, ConcatProperties DEF Held
<1>3. "client" \in Sides /\ "upstream" \in Sides
    BY DEF Sides
<1>4. Up \in Seq(Message)
    <2>1. Ahead \in Seq(Message) /\ Wait \in Seq(Message)
        BY <1>1, <1>2, <1>3 DEF Ahead, Wait
    <2>2. QED
        BY <2>1, ConcatProperties DEF Up
<1>5. QED
    BY <1>1, <1>2, <1>3, <1>4 DEF Ahead, Wait, Down, Seen

(* A peer's message joins what it sent before.                              *)
LEMMA SendHeld ==
    ASSUME Typed, ~done, NEW s \in Sides, NEW m \in Message, UNCHANGED leg, Send(s, m)
    PROVE  LET c == Carrying(m, <<s, plan[s]>>)
           IN  /\ c \in Message
               /\ Held(s)'.msgs = Append(Held(s).msgs, c)
               /\ \A p \in Sides \ {s} : Held(p)' = Held(p) /\ from'[p] = from[p]
               /\ from'[s] = Put(from[s], c)
<1> DEFINE c == Carrying(m, <<s, plan[s]>>)
<1>1. plan[s] \in Nat
    BY DEF Typed, PeersTyped, Plan, Sides
<1>2. c \in Message
    BY <1>1, CarryingTyped DEF Fd
<1> HIDE DEF c
<1>3. from' = [from EXCEPT ![s] = Put(from[s], c)] /\ from \in [Sides -> Queue]
    BY DEF Send, Typed, SocketsTyped, c
<1>4. from'[s] = Put(from[s], c) /\ \A p \in Sides \ {s} : from'[p] = from[p]
    BY <1>3
<1>5. Held(s)'.msgs = leg[s].msgs \o Append(from[s].msgs, c)
    <2>1. from'[s].msgs = Append(from[s].msgs, c) /\ leg'[s] = leg[s]
        BY <1>4 DEF Put
    <2>2. Held(s)'.msgs = leg'[s].msgs \o from'[s].msgs
        BY Zenon DEF Held
    <2>3. QED
        BY <2>1, <2>2, Zenon
<1>6. leg[s].msgs \o Append(from[s].msgs, c) = Append(leg[s].msgs \o from[s].msgs, c)
    <2> DEFINE a == leg[s].msgs
               b == from[s].msgs
    <2>1. a \in Seq(Message) /\ b \in Seq(Message)
        BY QueuesTyped
    <2> HIDE DEF a, b
    <2>2. a \o Append(b, c) = Append(a \o b, c)
        BY <1>2, <2>1, AppendToSecond
    <2>3. QED
        BY <2>2 DEF a, b
<1>7. Held(s)'.msgs = Append(Held(s).msgs, c)
    <2>1. Held(s).msgs = leg[s].msgs \o from[s].msgs
        BY Zenon DEF Held
    <2>2. QED
        BY <1>5, <1>6, <2>1, Zenon
<1>8. \A p \in Sides \ {s} : Held(p)' = Held(p)
    BY <1>4, Zenon DEF Held
<1>9. QED
    BY <1>2, <1>4, <1>7, <1>8 DEF c

LEMMA RequestMoves ==
    ASSUME Typed, ~done, NEW m \in Message, UNCHANGED <<leg, to>>, Send("client", m)
    PROVE  LET c == Carrying(m, <<"client", plan["client"]>>)
           IN  /\ c \in Message
               /\ Grown(Up, c, Up') /\ Grown(Wait, c, Wait')
               /\ Up' = Append(Up, c) /\ Wait' = Append(Wait, c)
               /\ Ahead' = Ahead /\ Down' = Down /\ Seen' = Seen
<1> DEFINE c == Carrying(m, <<"client", plan["client"]>>)
<1>1. /\ c \in Message /\ Held("client")'.msgs = Append(Held("client").msgs, c)
      /\ Held("upstream")' = Held("upstream")
    BY SendHeld, Zenon DEF Sides
<1> HIDE DEF c
<1>2. Wait' = Append(Wait, c) /\ Ahead' = Ahead /\ Down' = Down /\ Seen' = Seen
    BY <1>1 DEF Wait, Ahead, Down, Seen
<1>3. Up' = Append(Up, c)
    BY <1>1, <1>2, QueuesTyped, AppendToSecond DEF Up
<1>4. Grown(Up, c, Up') /\ Grown(Wait, c, Wait')
    BY <1>1, <1>2, <1>3, QueuesTyped, AppendGrows
<1>5. QED
    BY <1>1, <1>2, <1>3, <1>4 DEF c

LEMMA EventMoves ==
    ASSUME Typed, ~done, NEW m \in Message, UNCHANGED <<leg, to>>, Send("upstream", m)
    PROVE  LET c == Carrying(m, <<"upstream", plan["upstream"]>>)
           IN  /\ c \in Message
               /\ Grown(Down, c, Down') /\ Down' = Append(Down, c)
               /\ Up' = Up /\ Ahead' = Ahead /\ Wait' = Wait /\ Seen' = Seen
<1> DEFINE c == Carrying(m, <<"upstream", plan["upstream"]>>)
<1>1. /\ c \in Message /\ Held("upstream")'.msgs = Append(Held("upstream").msgs, c)
      /\ Held("client")' = Held("client")
    BY SendHeld, Zenon DEF Sides
<1> HIDE DEF c
<1>2. Down' = Append(Down, c) /\ Ahead' = Ahead /\ Wait' = Wait /\ Seen' = Seen /\ Up' = Up
    BY <1>1, Zenon DEF Wait, Ahead, Down, Seen, Up
<1>3. Grown(Down, c, Down')
    BY <1>1, <1>2, QueuesTyped, AppendGrows
<1>4. QED
    BY <1>1, <1>2, <1>3 DEF c

(* A peer takes its first message.                                          *)
LEMMA ReceiveMoves ==
    ASSUME Typed, NEW s \in Sides, Receive(s)
    PROVE  /\ to[s].msgs # <<>> /\ to'[s].msgs = Tail(to[s].msgs)
           /\ \A p \in Sides \ {s} : to'[p] = to[p]
<1>1. to \in [Sides -> Queue]
    BY DEF Typed, SocketsTyped
<1>2. QED
    BY <1>1 DEF Receive

LEMMA ServedMoves ==
    ASSUME Typed, CompositorReceives
    PROVE  LET m == Head(Ahead) IN
           /\ Ahead # <<>> /\ Up # <<>> /\ m = Up[1] /\ m \in Message
           /\ Cut(Up, 1, Up') /\ Up' = Tail(Up)
           /\ Ahead' = Tail(Ahead) /\ Wait' = Wait /\ Seen' = Seen
           /\ IF m.op = "destroy" /\ m.obj \in ClientId /\ ~done
              THEN Grown(Down, DeleteId(m.obj), Down') /\ Down' = Append(Down, DeleteId(m.obj))
                   /\ from'["upstream"] = Put(from["upstream"], DeleteId(m.obj))
                   /\ from'["client"] = from["client"]
              ELSE Down' = Down /\ from' = from
<1> DEFINE m == Head(Ahead)
<1>1. /\ Ahead # <<>> /\ Ahead' = Tail(Ahead) /\ to'["client"] = to["client"]
    BY ReceiveMoves DEF CompositorReceives, Ahead, Sides
<1>2. /\ UNCHANGED leg
      /\ from' = IF m.op = "destroy" /\ m.obj \in ClientId /\ ~done
                 THEN [from EXCEPT !["upstream"] = Put(from["upstream"], DeleteId(m.obj))] ELSE from
      /\ from \in [Sides -> Queue]
    BY DEF CompositorReceives, inner, Typed, SocketsTyped, Ahead, Sides
<1>3. from'["client"] = from["client"]
    BY <1>2 DEF Sides
<1>4. Wait' = Wait /\ Seen' = Seen
    BY <1>1, <1>2, <1>3, Zenon DEF Wait, Held, Seen
<1>5. /\ Up # <<>> /\ Head(Up) = m /\ Tail(Up) = Tail(Ahead) \o Wait
    BY <1>1, QueuesTyped, HeadOfFirst DEF Up
<1>6. Up' = Tail(Up)
    BY <1>1, <1>4, <1>5 DEF Up
<1>7. Cut(Up, 1, Up') /\ m = Up[1] /\ m \in Message
    BY <1>5, <1>6, QueuesTyped, TailCuts
<1>8. CASE m.op = "destroy" /\ m.obj \in ClientId /\ ~done
    <2>1. from'["upstream"] = Put(from["upstream"], DeleteId(m.obj))
        BY <1>2, <1>8 DEF Sides
    <2>2. DeleteId(m.obj) \in Message
        <3>1. Plain("display", "display", "delete_id") \in Message
            BY PlainTyped DEF Ids, Interface, Known, Op
        <3>2. QED
            BY <1>7, <3>1, Zenon DEF DeleteId, Message, Fields, Plain
    <2>3. Down' = leg["upstream"].msgs \o Append(from["upstream"].msgs, DeleteId(m.obj))
        <3>1. from'["upstream"].msgs = Append(from["upstream"].msgs, DeleteId(m.obj)) /\ leg' = leg
            BY <1>2, <2>1 DEF Put
        <3>2. Down' = leg'["upstream"].msgs \o from'["upstream"].msgs
            BY Zenon DEF Down, Held
        <3>3. QED
            BY <3>1, <3>2, Zenon
    <2>4. Down' = Append(Down, DeleteId(m.obj))
        <3>1. leg["upstream"].msgs \in Seq(Message) /\ from["upstream"].msgs \in Seq(Message)
            BY QueuesTyped DEF Sides
        <3>2. Down = leg["upstream"].msgs \o from["upstream"].msgs
            BY Zenon DEF Down, Held
        <3> DEFINE d == DeleteId(m.obj)
        <3> HIDE DEF d
        <3>3. d \in Message
            BY <2>2 DEF d
        <3> DEFINE a == leg["upstream"].msgs
                   b == from["upstream"].msgs
        <3>a. a \in Seq(Message) /\ b \in Seq(Message)
            BY <3>1
        <3> HIDE DEF a, b
        <3>b. a \o Append(b, d) = Append(a \o b, d)
            BY <3>3, <3>a, AppendToSecond
        <3>4. leg["upstream"].msgs \o Append(from["upstream"].msgs, d)
                = Append(leg["upstream"].msgs \o from["upstream"].msgs, d)
            BY <3>b DEF a, b
        <3>5. QED
            BY <2>3, <3>2, <3>4, Zenon DEF d
    <2>5. Grown(Down, DeleteId(m.obj), Down')
        BY <2>2, <2>4, QueuesTyped, AppendGrows
    <2>6. QED
        BY <1>1, <1>3, <1>4, <1>5, <1>6, <1>7, <1>8, <2>1, <2>4, <2>5
<1>9. CASE ~(m.op = "destroy" /\ m.obj \in ClientId /\ ~done)
    <2>1. Down' = Down /\ from' = from
        BY <1>2, <1>9, Zenon DEF Down, Held
    <2>2. QED
        BY <1>1, <1>3, <1>4, <1>5, <1>6, <1>7, <1>9, <2>1
<1>10. QED
    BY <1>8, <1>9

LEMMA DeliveredMoves ==
    ASSUME Typed, ClientReceives
    PROVE  /\ Seen # <<>> /\ Cut(Seen, 1, Seen') /\ Seen' = Tail(Seen)
           /\ Head(Seen) = Seen[1] /\ Seen[1] \in Message
           /\ Up' = Up /\ Ahead' = Ahead /\ Wait' = Wait /\ Down' = Down
<1>1. Seen # <<>> /\ Seen' = Tail(Seen) /\ to'["upstream"] = to["upstream"]
    BY ReceiveMoves DEF ClientReceives, Seen, Sides
<1>2. Ahead' = Ahead /\ Wait' = Wait /\ Down' = Down
    BY <1>1 DEF ClientReceives, inner, Ahead, Wait, Down, Held
<1>3. QED
    BY <1>1, <1>2, QueuesTyped, TailCuts DEF Up

(* leg_read moves what it reads from the socket to the leg: the relay holds *)
(* the same as before.                                                      *)
LEMMA ReadMoves ==
    ASSUME Typed, LegRead
    PROVE  /\ \A p \in Sides : Held(p)'.msgs = Held(p).msgs /\ Held(p)'.fds = Held(p).fds
           /\ Up' = Up /\ Ahead' = Ahead /\ Wait' = Wait /\ Down' = Down /\ Seen' = Seen
<1>1. PICK s \in Sides : s = Head(todo)
    BY HeadTailProperties DEF LegRead, Typed, RelayTyped
<1> DEFINE q == from[s]
<1>2. PICK j \in 0..Len(q.msgs), n \in 0..Len(q.fds) :
        /\ from' = [from EXCEPT ![s] = [msgs |-> SubSeq(q.msgs, j + 1, Len(q.msgs)),
                                        fds  |-> SubSeq(q.fds, n + 1, Len(q.fds))]]
        /\ leg' = [leg EXCEPT ![s] = [msgs |-> leg[s].msgs \o SubSeq(q.msgs, 1, j),
                                      fds  |-> leg[s].fds \o SubSeq(q.fds, 1, n)]]
    BY <1>1, Zenon DEF LegRead, Typed, RelayTyped
<1>3. from \in [Sides -> Queue] /\ leg \in [Sides -> Queue]
    BY DEF Typed, SocketsTyped, RelayTyped
<1> DEFINE a == leg[s].msgs
           b == q.msgs
           c == leg[s].fds
           d == q.fds
<1>4. a \in Seq(Message) /\ b \in Seq(Message) /\ c \in Seq(Fd) /\ d \in Seq(Fd)
    BY <1>1, QueuesTyped
<1>5. /\ from'[s].msgs = SubSeq(b, j + 1, Len(b)) /\ leg'[s].msgs = a \o SubSeq(b, 1, j)
      /\ from'[s].fds = SubSeq(d, n + 1, Len(d)) /\ leg'[s].fds = c \o SubSeq(d, 1, n)
    BY <1>1, <1>2, <1>3, Zenon
<1>6. \A p \in Sides \ {s} : from'[p] = from[p] /\ leg'[p] = leg[p]
    BY <1>2, <1>3
<1>7. /\ Held(s).msgs = a \o b /\ Held(s).fds = c \o d
      /\ Held(s)'.msgs = leg'[s].msgs \o from'[s].msgs
      /\ Held(s)'.fds = leg'[s].fds \o from'[s].fds
    BY Zenon DEF Held
<1>8. j \in 0..Len(b) /\ n \in 0..Len(d)
    OBVIOUS
<1> HIDE DEF a, b, c, d
<1>9. Held(s)'.msgs = Held(s).msgs
    <2>1. (a \o SubSeq(b, 1, j)) \o SubSeq(b, j + 1, Len(b)) = a \o b
        BY <1>4, <1>8, MovedAcross, Zenon
    <2>2. QED
        BY <1>5, <1>7, <2>1, Zenon
<1>10. Held(s)'.fds = Held(s).fds
    <2>1. (c \o SubSeq(d, 1, n)) \o SubSeq(d, n + 1, Len(d)) = c \o d
        BY <1>4, <1>8, MovedAcross, Zenon
    <2>2. QED
        BY <1>5, <1>7, <2>1, Zenon
<1>11. \A p \in Sides : Held(p)'.msgs = Held(p).msgs /\ Held(p)'.fds = Held(p).fds
    <2>1. \A p \in Sides \ {s} : Held(p)' = Held(p)
        BY <1>6, Zenon DEF Held
    <2>2. QED
        BY <1>9, <1>10, <2>1
<1>12. UNCHANGED to
    BY DEF LegRead
<1>13. "client" \in Sides /\ "upstream" \in Sides
    BY DEF Sides
<1>14. QED
    BY <1>11, <1>12, <1>13, Zenon DEF Up, Ahead, Wait, Down, Seen

(* pump works on the first message the relay holds.                         *)
LEMMA PumpHeld ==
    ASSUME Typed, NEW s \in Sides, Pump(s)
    PROVE  /\ Held(s).msgs # <<>> /\ Head(Held(s).msgs) = Head(leg[s].msgs)
           /\ leg'[s].msgs = Tail(leg[s].msgs)
           /\ Held(s)'.msgs = Tail(Held(s).msgs)
           /\ \A p \in Sides \ {s} : leg'[p] = leg[p] /\ Held(p)' = Held(p)
<1> DEFINE a == leg[s].msgs
           b == from[s].msgs
<1>1. a # <<>> /\ a \in Seq(Message) /\ b \in Seq(Message) /\ leg \in [Sides -> Queue] /\ from' = from
    BY QueuesTyped DEF Pump, Typed, RelayTyped
<1>2. leg'[s].msgs = Tail(a) /\ \A p \in Sides \ {s} : leg'[p] = leg[p]
    BY <1>1, Zenon DEF Pump
<1>3. \A p \in Sides \ {s} : Held(p)' = Held(p)
    BY <1>1, <1>2, Zenon DEF Held
<1>4. Held(s).msgs = a \o b /\ Held(s)'.msgs = leg'[s].msgs \o b
    BY <1>1, Zenon DEF Held
<1> HIDE DEF a, b
<1>5. a \o b # <<>> /\ Head(a \o b) = Head(a) /\ Tail(a \o b) = Tail(a) \o b
    BY <1>1, HeadOfFirst
<1>6. QED
    BY <1>2, <1>3, <1>4, <1>5 DEF a

LEMMA RequestPumped ==
    ASSUME Typed, Pump("client")
    PROVE  LET m == Head(leg["client"].msgs) IN
           /\ m \in Message /\ Wait # <<>> /\ m = Wait[1] /\ Cut(Wait, 1, Wait')
           /\ Wait' = Tail(Wait) /\ m = Head(Wait)
           /\ Down' = Down /\ Seen' = Seen
           /\ Up[Len(Ahead) + 1] = m /\ Len(Ahead) + 1 \in 1..Len(Up)
           /\ Ahead' = Append(Ahead, m) => Up' = Up
           /\ Ahead = <<>> /\ Ahead' = <<>> => Cut(Up, 1, Up') /\ Up[1] = m
<1> DEFINE m == Head(leg["client"].msgs)
<1>1. "client" \in Sides /\ "upstream" \in Sides \ {"client"} /\ Across("client") = "upstream"
    BY DEF Sides, Across
<1>2. /\ Wait # <<>> /\ m = Head(Wait) /\ Wait' = Tail(Wait) /\ Down' = Down
    BY <1>1, PumpHeld DEF Wait, Down
<1>3. Cut(Wait, 1, Wait') /\ m = Wait[1] /\ m \in Message
    BY <1>2, QueuesTyped, TailCuts
<1>4. to'["client"] = to["client"]
    BY <1>1, Zenon DEF Pump, Forward, Typed, SocketsTyped
<1>5. Seen' = Seen
    BY <1>4 DEF Seen
<1> HIDE DEF m
<1>6. Ahead \in Seq(Message) /\ Wait \in Seq(Message) /\ Wait = <<m>> \o Tail(Wait)
      /\ Tail(Wait) \in Seq(Message) /\ <<m>> \in Seq(Message)
    BY <1>2, <1>3, QueuesTyped, HeadThenTail, HeadTailProperties
<1>7. ASSUME Ahead' = Append(Ahead, m) PROVE Up' = Up
    <2>1. Append(Ahead, m) = Ahead \o <<m>>
        BY <1>3, <1>6, AppendIsConcat
    <2>2. (Ahead \o <<m>>) \o Tail(Wait) = Ahead \o (<<m>> \o Tail(Wait))
        BY <1>6, ConcatAssociative
    <2>3. QED
        BY <1>2, <1>6, <1>7, <2>1, <2>2 DEF Up
<1>8. Up[Len(Ahead) + 1] = m /\ Len(Ahead) + 1 \in 1..Len(Up)
    <2>1. Cut(Up, Len(Ahead), Wait)
        BY <1>6, SecondCuts DEF Up
    <2>2. Len(Wait) \in Nat \ {0} /\ Len(Ahead) \in Nat
        BY <1>2, <1>6, LenProperties, EmptySeq
    <2>3. 1 \in 1..(Len(Up) - Len(Ahead)) /\ Len(Ahead) + 1 \in 1..Len(Up)
        BY <2>1, <2>2 DEF Cut
    <2>4. Wait[1] = Up[1 + Len(Ahead)] /\ 1 + Len(Ahead) = Len(Ahead) + 1
        BY <2>1, <2>2, <2>3 DEF Cut
    <2>5. QED
        BY <1>3, <2>3, <2>4
<1>9. ASSUME Ahead = <<>>, Ahead' = <<>> PROVE Cut(Up, 1, Up') /\ Up[1] = m
    <2>1. Up = Wait /\ Up' = Wait'
        BY <1>2, <1>6, <1>9, ConcatEmptySeq DEF Up
    <2>2. QED
        BY <1>3, <2>1
<1>10. QED
    BY <1>2, <1>3, <1>5, <1>7, <1>8, <1>9 DEF m

LEMMA EventPumped ==
    ASSUME Typed, Pump("upstream")
    PROVE  LET m == Head(leg["upstream"].msgs) IN
           /\ m \in Message /\ Down # <<>> /\ m = Down[1] /\ Cut(Down, 1, Down')
           /\ m = Head(Down) /\ Down' = Tail(Down)
           /\ Up' = Up /\ Ahead' = Ahead /\ Wait' = Wait
<1> DEFINE m == Head(leg["upstream"].msgs)
<1>1. "upstream" \in Sides /\ "client" \in Sides \ {"upstream"} /\ Across("upstream") = "client"
    BY DEF Sides, Across
<1>2. Down # <<>> /\ m = Head(Down) /\ Down' = Tail(Down) /\ Wait' = Wait
    BY <1>1, PumpHeld DEF Wait, Down
<1>3. Cut(Down, 1, Down') /\ m = Down[1] /\ m \in Message
    BY <1>2, QueuesTyped, TailCuts
<1>4. to'["upstream"] = to["upstream"]
    BY <1>1, Zenon DEF Pump, Forward, Typed, SocketsTyped
<1>5. QED
    BY <1>2, <1>3, <1>4 DEF Up, Ahead

(* The other steps leave the queues alone; one that ends the connection or  *)
(* a peer's part in it leaves the others alone.                             *)
LEMMA HungUpMoves ==
    ASSUME Typed, NEW s \in Sides, HangUp(s)
    PROVE  /\ Wait' = Wait /\ Down' = Down
           /\ to'[s] = Nothing /\ \A p \in Sides \ {s} : to'[p] = to[p]
           /\ s = "client" => Up' = Up /\ Ahead' = Ahead /\ Seen' = <<>>
           /\ s = "upstream" => /\ Up' = Wait /\ Cut(Up, Len(Ahead), Up')
                                /\ Ahead' = <<>> /\ Seen' = Seen
<1>1. to \in [Sides -> Queue] /\ to' = [to EXCEPT ![s] = Nothing] /\ UNCHANGED <<from, leg>>
    BY DEF HangUp, inner, Typed, SocketsTyped
<1>2. to'[s] = Nothing /\ \A p \in Sides \ {s} : to'[p] = to[p]
    BY <1>1
<1>3. Wait' = Wait /\ Down' = Down
    BY <1>1 DEF Wait, Down, Held
<1>4. ASSUME s = "client" PROVE Up' = Up /\ Ahead' = Ahead /\ Seen' = <<>>
    <2>1. Ahead' = Ahead /\ Seen' = <<>>
        BY <1>2, <1>4 DEF Ahead, Seen, Nothing, Sides
    <2>2. QED
        BY <1>3, <2>1 DEF Up
<1>5. ASSUME s = "upstream"
      PROVE  Up' = Wait /\ Cut(Up, Len(Ahead), Up') /\ Ahead' = <<>> /\ Seen' = Seen
    <2>1. Ahead' = <<>> /\ Seen' = Seen
        BY <1>2, <1>5 DEF Ahead, Seen, Nothing, Sides
    <2>2. Up' = Wait
        BY <1>3, <2>1, QueuesTyped, ConcatEmptySeq DEF Up
    <2>3. QED
        BY <2>1, <2>2, QueuesTyped, SecondCuts DEF Up
<1>6. QED
    BY <1>2, <1>3, <1>4, <1>5

-----------------------------------------------------------------------------
(* What the tables say.                                                     *)
LEMMA Tables ==
    ASSUME NEW i \in Interface \cup {None, "zombie"}
    PROVE  /\ \A t \in RequestMakes(i) : i \in Known /\ i # "offer" /\ t \in Interface
                                         /\ t \notin {"offer", "tool", "display", "registry"}
           /\ \A t \in EventMakes(i) : /\ t \in {"offer", "tool"}
                                       /\ i \in {"device", "tablets"}
                                       /\ i = "device" <=> t = "offer"
           /\ \A o \in Requests(i) : /\ o \in {"destroy", "receive", "set_cursor"}
                                     /\ i \in Interface \ {"display", "registry"}
                                     /\ o = "receive" => i = "offer"
                                     /\ i = "offer" => o \in {"destroy", "receive"}
           /\ \A o \in Events(i) : /\ o \in {"keymap", "enter", "leave", "configure", "drm_fd"}
                                   /\ i \in {"keyboard", "pointer", "toplevel", "lease"}
                                   /\ o = "drm_fd" <=> i = "lease"
<1>1. ASSUME NEW t \in RequestMakes(i)
      PROVE  i \in Known /\ i # "offer" /\ t \in Interface
             /\ t \notin {"offer", "tool", "display", "registry"}
    <2>1. i \in {"registry", "seat", "shell", "data"}
          /\ t \in {"seat", "shell", "data", "tablets", "lease", "keyboard", "pointer", "toplevel", "device"}
        BY <1>1 DEF RequestMakes
    <2>2. QED
        BY <2>1 DEF Known, FdFree, Interface
<1>2. ASSUME NEW t \in EventMakes(i)
      PROVE  /\ t \in {"offer", "tool"} /\ i \in {"device", "tablets"}
             /\ i = "device" <=> t = "offer"
    BY <1>2 DEF EventMakes
<1>3. ASSUME NEW o \in Requests(i)
      PROVE  /\ o \in {"destroy", "receive", "set_cursor"}
             /\ i \in Interface \ {"display", "registry"}
             /\ o = "receive" => i = "offer"
             /\ i = "offer" => o \in {"destroy", "receive"}
    <2>1. "offer" \in Interface /\ "tool" \in Interface
        BY DEF Known, Interface
    <2>2. QED
        BY <1>3, <2>1 DEF Requests
<1>4. ASSUME NEW o \in Events(i)
      PROVE  /\ o \in {"keymap", "enter", "leave", "configure", "drm_fd"}
             /\ i \in {"keyboard", "pointer", "toplevel", "lease"}
             /\ o = "drm_fd" <=> i = "lease"
    BY <1>4 DEF Events
<1>5. QED
    BY <1>1, <1>2, <1>3, <1>4

LEMMA LegalIface ==
    ASSUME NEW m \in Message, LegalUp(m) \/ LegalDown(m)
    PROVE  m.iface \in Interface \ {"lease"} /\ m.obj \in Ids /\ m.fds \in Seq(Fd)
<1>1. m.iface \in Interface \cup {None, "zombie"} /\ m.obj \in Ids /\ m.fds \in Seq(Fd)
    BY DEF Message, Fields
<1>2. Known \subseteq Interface /\ {"device", "tablets", "display", "registry"} \subseteq Interface
      /\ {"keyboard", "pointer", "toplevel", "lease"} \subseteq Interface
    BY DEF Known, FdFree, Interface
<1>3. CASE LegalUp(m)
    BY <1>1, <1>2, <1>3, Tables DEF LegalUp
<1>4. CASE LegalDown(m)
    BY <1>1, <1>2, <1>4, Tables DEF LegalDown
<1>5. QED
    BY <1>1, <1>3, <1>4

(* An object's first word in Wait: the map has been told of it.             *)
LEMMA RequestKnown ==
    ASSUME Typed, Lives, ~done, Wait # <<>>, NEW m, m = Wait[1]
    PROVE  /\ m \in Message /\ LegalUp(m)
           /\ IF m.iface \in Known THEN Map[m.obj] = m.iface
              ELSE Map[m.obj] = None \/ (m.obj \in ServerId /\ Map[m.obj] = "offer")
<1> DEFINE n == Len(Ahead)
<1>1. /\ Wait \in Seq(Message) /\ Ahead \in Seq(Message) /\ Up \in Seq(Message)
      /\ Len(Wait) \in Nat \ {0} /\ n \in Nat
    BY QueuesTyped, LenProperties, EmptySeq
<1>2. m \in Message /\ LegalUp(m)
    <2>1. 1 \in 1..Len(Wait)
        BY <1>1
    <2>2. QED
        BY <1>1, <2>1, ElementOfSeq DEF Lives, Legal
<1>3. Cut(Up, n, Wait)
    BY <1>1, SecondCuts DEF Up
<1>4. n + 1 \in 1..Len(Up) /\ Up[n + 1] = m
    <2>1. 1 \in 1..(Len(Up) - n) /\ 1 + n = n + 1 /\ n + 1 \in 1..Len(Up)
        BY <1>1, <1>3 DEF Cut
    <2>2. QED
        BY <1>3, <2>1 DEF Cut
<1> HIDE DEF n
<1> SUFFICES IF m.iface \in Known THEN Map[m.obj] = m.iface
             ELSE Map[m.obj] = None \/ (m.obj \in ServerId /\ Map[m.obj] = "offer")
    BY <1>2
<1>5. m.obj \in Ids /\ m.iface \in Interface
    BY <1>2, LegalIface
<1>6. CASE m.obj \in {"display", "registry"}
    <2>1. Map[m.obj] = m.obj /\ m.iface = m.obj
        BY <1>2, <1>6 DEF Lives, Roots, LegalUp
    <2>2. m.iface \in Known
        BY <1>6, <2>1 DEF Known
    <2>3. QED
        BY <2>1, <2>2
<1>7. CASE m.obj \in ClientId
    <2> DEFINE x == m.obj
    <2>1. ~NoWord(Up, x)
        BY <1>4 DEF NoWord
    <2>2. Asked(x) \/ Living(x)
        BY <1>7, <2>1 DEF Lives, ClientLife, Unborn, Freed, Told
    <2>3. ASSUME NEW t, As(Up, x, t) PROVE m.iface = t
        BY <1>4, <2>3 DEF As
    <2>4. CASE Living(x)
        <3>1. Map[x] = Kn(m.iface)
            BY <2>3, <2>4 DEF Living, Uses
        <3>2. QED
            BY <3>1 DEF Kn
    <2>5. CASE Asked(x)
        <3>1. PICK t \in Interface : Made(Up, x, t) /\ As(Up, x, t) /\ (NoId(Wait, x) => Map[x] = Kn(t))
            BY <2>5 DEF Asked, Uses, Had
        <3>2. PICK j \in 1..Len(Up) : OnlyId(Up, x, j) /\ \A k \in 1..j : Up[k].obj # x
            BY <3>1 DEF Made
        <3>3. ~(n + 1 \in 1..j)
            BY <1>4, <3>2
        <3>4. j < n + 1
            BY <1>1, <1>4, <3>2, <3>3
        <3>5. ASSUME NEW k \in 1..Len(Wait) PROVE Wait[k].id # x
            <4>1. k \in 1..(Len(Up) - n) /\ k + n \in 1..Len(Up) /\ k + n # j
                BY <1>1, <1>3, <3>4 DEF Cut
            <4>2. Wait[k] = Up[k + n]
                BY <1>3, <4>1 DEF Cut
            <4>3. QED
                BY <3>2, <4>1, <4>2 DEF OnlyId
        <3>6. Map[x] = Kn(m.iface)
            BY <2>3, <3>1, <3>5 DEF NoId
        <3>7. QED
            BY <3>6 DEF Kn
    <2>6. QED
        BY <2>2, <2>4, <2>5
<1>8. CASE m.obj \in ServerId
    <2> DEFINE x == m.obj
    <2>1. ~NoWord(Up, x)
        BY <1>4 DEF NoWord
    <2>2. Used(x) /\ theirs[x] \in {"offer", "tool"} /\ Map[x] \in {None, "offer"}
        BY <1>8, <2>1 DEF Lives, ServerLife, Free, Offered
    <2>3. m.iface = theirs[x]
        BY <1>4, <2>2 DEF As, Used
    <2>4. QED
        BY <1>8, <2>2, <2>3 DEF Used, Fits, Known
<1>9. QED
    BY <1>2, <1>5, <1>6, <1>7, <1>8 DEF Ids

LEMMA EventKnown ==
    ASSUME Typed, Lives, ~done, Down # <<>>, NEW m, m = Down[1]
    PROVE  /\ m \in Message /\ LegalDown(m)
           /\ m.iface \in Known => Map[m.obj] = m.iface
           /\ m.iface \notin Known => Map[m.obj] = None
<1>1. Down \in Seq(Message) /\ 1 \in 1..Len(Down)
    BY QueuesTyped, LenProperties, EmptySeq
<1>2. m \in Message /\ LegalDown(m)
    BY <1>1, ElementOfSeq DEF Lives, Legal
<1>3. m.obj \in Ids \ ServerId /\ m.iface \in Interface
    BY <1>2, LegalIface DEF LegalDown
<1>4. CASE m.obj \in {"display", "registry"}
    <2>1. Map[m.obj] = m.obj /\ m.iface = m.obj
        BY <1>2, <1>4 DEF Lives, Roots, LegalDown
    <2>2. m.iface \in Known
        BY <1>4, <2>1 DEF Known
    <2>3. QED
        BY <1>2, <2>1, <2>2
<1>5. CASE m.obj \in ClientId
    <2> DEFINE x == m.obj
    <2>1. ~NoWord(Down, x)
        BY <1>1 DEF NoWord
    <2>2. Living(x) \/ Freed(x)
        BY <1>5, <2>1 DEF Lives, ClientLife, Unborn, Asked, Told
    <2>3. PICK t \in Interface : As(Down, x, t) /\ Map[x] = Kn(t)
        BY <2>2 DEF Living, Freed, Had
    <2>4. m.iface = t
        BY <1>1, <2>3 DEF As
    <2>5. QED
        BY <1>2, <2>3, <2>4 DEF Kn
<1>6. QED
    BY <1>3, <1>4, <1>5 DEF Ids

LEMMA RequestRead ==
    ASSUME NEW m \in Message, LegalUp(m), Typed, SameMaps,
           IF m.iface \in Known THEN Map[m.obj] = m.iface
           ELSE Map[m.obj] = None \/ (m.obj \in ServerId /\ Map[m.obj] = "offer")
    PROVE  LET i == ids["client"][m.obj] IN
           /\ FdCount(i, m, FALSE) = Len(m.fds)
           /\ \A d \in Sides : Learned("client", d, i, m) =
                IF m.op = "make" THEN [Map EXCEPT ![m.id] = Kn(m.type)] ELSE Map
<1> DEFINE i == ids["client"][m.obj]
<1>1. m.iface \in Interface \cup {None, "zombie"}
    BY DEF Message, Fields
<1>2. i = Map[m.obj] /\ \A d \in Sides : ids[d] = Map
    BY DEF Map, SameMaps, Sides
<1>3. ("client" = "upstream") = FALSE
    OBVIOUS
<1> HIDE DEF i
<1>4. CASE m.op = "make"
    <2>1. m.iface \in Known /\ m.type \in RequestMakes(m.iface)
        BY <1>1, <1>4, Tables DEF LegalUp
    <2>2. i = m.iface /\ Listed(i, m, FALSE) /\ m.op \notin WithFd
        BY <1>2, <1>4, <2>1 DEF Listed, WithFd
    <2>3. FdCount(i, m, FALSE) = Len(m.fds)
        BY <2>2 DEF FdCount, LegalUp
    <2>4. \A d \in Sides : Learned("client", d, i, m) = [Map EXCEPT ![m.id] = Kn(m.type)]
        BY <1>2, <1>3, <1>4, <2>2, Zenon DEF Learned, Kn
    <2>5. QED
        BY <1>4, <2>3, <2>4, Zenon DEF i
<1>5. CASE m.op # "make"
    <2>1. m.op \in Requests(m.iface) /\ m.op \in {"destroy", "receive", "set_cursor"}
          /\ (m.op = "receive" => m.iface = "offer")
        BY <1>1, <1>5, Tables DEF LegalUp
    <2>2. FdCount(i, m, FALSE) = Len(m.fds)
        <3>1. CASE m.op = "receive"
            BY <1>2, <2>1, <3>1 DEF FdCount, LegalUp, Listed, Known, WithFd
        <3>2. CASE m.op # "receive"
            BY <2>1, <3>2, Zenon DEF FdCount, LegalUp, WithFd
        <3>3. QED
            BY <3>1, <3>2, Zenon
    <2>3. \A d \in Sides : Learned("client", d, i, m) = Map
        BY <1>2, <1>5, <2>1 DEF Learned
    <2>4. QED
        BY <1>5, <2>2, <2>3, Zenon DEF i
<1>6. QED
    BY <1>4, <1>5, Zenon

LEMMA EventRead ==
    ASSUME NEW m \in Message, LegalDown(m), Typed, SameMaps,
           m.iface \in Known => Map[m.obj] = m.iface,
           m.iface \notin Known => Map[m.obj] = None
    PROVE  LET i == ids["upstream"][m.obj] IN
           /\ FdCount(i, m, TRUE) = Len(m.fds)
           /\ Listed(i, m, TRUE) /\ Dropped(i, m) <=> Dropped(m.iface, m)
           /\ (IF Listed(i, m, TRUE) THEN Spoofed(i, m) ELSE m) = Spoofed(m.iface, m)
           /\ \A d \in Sides : Learned("upstream", d, i, m) =
                IF m.op = "make" /\ m.type \in Known THEN [Map EXCEPT ![m.id] = m.type]
                ELSE IF m.op = "delete_id" THEN [Map EXCEPT ![m.id] = None]
                ELSE Map
<1> DEFINE i == ids["upstream"][m.obj]
<1>1. m.iface \in Interface \cup {None, "zombie"}
    BY DEF Message, Fields
<1>2. i = Map[m.obj] /\ \A d \in Sides : ids[d] = Map
    BY DEF Map, SameMaps, Sides
<1> HIDE DEF i
<1>3. CASE m.iface \in Known
    <2>1. i = m.iface
        BY <1>2, <1>3
    <2>2. Listed(i, m, TRUE)
        BY <1>3, <2>1 DEF Listed, LegalDown
    <2>3. FdCount(i, m, TRUE) = Len(m.fds)
        BY <2>2 DEF FdCount, LegalDown
    <2>4. m.op = "make" => m.type = "offer" /\ m.type \in Known
        BY <1>1, <1>3, Tables DEF LegalDown, Known, Events
    <2>5. \A d \in Sides : Learned("upstream", d, i, m) =
                IF m.op = "make" /\ m.type \in Known THEN [Map EXCEPT ![m.id] = m.type]
                ELSE IF m.op = "delete_id" THEN [Map EXCEPT ![m.id] = None]
                ELSE Map
        BY <1>2, <2>2, <2>4, Zenon DEF Learned
    <2>6. QED
        BY <2>1, <2>2, <2>3, <2>5, Zenon DEF i
<1>4. CASE m.iface \notin Known
    <2>1. i = None /\ None \notin Known
        BY <1>2, <1>4, RelayAssumption DEF Interface
    <2>2. ~Listed(i, m, TRUE)
        BY <2>1 DEF Listed
    <2>3. m.iface \in {"tablets", "tool"} /\ m.op = "make" /\ m.type = "tool"
        BY <1>1, <1>4, Tables, LegalIface DEF LegalDown, Interface, Known, FdFree
    <2>4. FdCount(i, m, TRUE) = Len(m.fds)
        BY <2>2, <2>3 DEF FdCount, LegalDown, WithFd
    <2>5. ~Dropped(m.iface, m) /\ Spoofed(m.iface, m) = m
        BY <2>3 DEF Dropped, Spoofed
    <2>6. \A d \in Sides : Learned("upstream", d, i, m) = Map
        BY <1>2, <2>2, Zenon DEF Learned
    <2>7. "tool" \notin Known
        BY DEF Known
    <2>8. QED
        BY <2>2, <2>3, <2>4, <2>5, <2>6, <2>7, Zenon DEF i
<1>5. QED
    BY <1>3, <1>4, Zenon

-----------------------------------------------------------------------------
(* A step that does not concern an id leaves its life as it is.             *)
LEMMA ClientKept ==
    ASSUME NEW x, ClientLife(x),
           mine'[x] = mine[x], theirs'[x] = theirs[x], Map'[x] = Map[x], open' = open,
           Quiet(Up, Up', x), Quiet(Down, Down', x), Quiet(Seen, Seen', x),
           NoId(Wait', x) => NoId(Wait, x)
    PROVE  ClientLife(x)'
<1>1. /\ NoId(Up, x) => NoId(Up', x)
      /\ NoWord(Up, x) => NoWord(Up', x)
      /\ \A t : As(Up, x, t) => As(Up', x, t)
      /\ Killed(Up', x) <=> Killed(Up, x)
      /\ KillsLast(Up, x) => KillsLast(Up', x)
      /\ \A t : Made(Up, x, t) => Made(Up', x, t)
    BY QuietKeeps
<1>2. /\ NoId(Down, x) => NoId(Down', x)
      /\ NoWord(Down, x) => NoWord(Down', x)
      /\ \A t : As(Down, x, t) => As(Down', x, t)
      /\ FreedLast(Down, x) => FreedLast(Down', x)
    BY QuietKeeps
<1>3. /\ NoId(Seen, x) => NoId(Seen', x)
      /\ Once(Seen, x) => Once(Seen', x)
    BY QuietKeeps
<1>4. \A t : Uses(x, t) => Uses(x, t)'
    BY <1>1 DEF Uses
<1>5. CASE Unborn(x)
    BY <1>1, <1>2, <1>3, <1>5 DEF ClientLife, Unborn
<1>6. CASE Asked(x)
    BY <1>1, <1>2, <1>3, <1>4, <1>6 DEF ClientLife, Asked
<1>7. CASE Living(x)
    BY <1>1, <1>2, <1>3, <1>4, <1>7 DEF ClientLife, Living
<1>8. CASE Freed(x)
    BY <1>1, <1>2, <1>3, <1>8 DEF ClientLife, Freed
<1>9. CASE Told(x)
    BY <1>1, <1>2, <1>3, <1>9 DEF ClientLife, Told
<1>10. QED
    BY <1>5, <1>6, <1>7, <1>8, <1>9 DEF ClientLife

LEMMA ServerKept ==
    ASSUME NEW x, ServerLife(x),
           mine'[x] = mine[x], theirs'[x] = theirs[x], Map'[x] = Map[x], open' = open,
           Quiet(Up, Up', x), Quiet(Down, Down', x), Quiet(Seen, Seen', x)
    PROVE  ServerLife(x)'
<1>1. /\ NoWord(Up, x) => NoWord(Up', x)
      /\ \A t : As(Up, x, t) => As(Up', x, t)
      /\ Killed(Up', x) <=> Killed(Up, x)
      /\ KillsLast(Up, x) => KillsLast(Up', x)
    BY QuietKeeps
<1>2. /\ NoId(Down, x) => NoId(Down', x)
      /\ \A t : Brings(Down, x, t) => Brings(Down', x, t)
    BY QuietKeeps
<1>3. /\ NoId(Seen, x) => NoId(Seen', x)
      /\ \A t : Brings(Seen, x, t) => Brings(Seen', x, t)
    BY QuietKeeps
<1>4. CASE Free(x)
    BY <1>1, <1>2, <1>3, <1>4 DEF ServerLife, Free
<1>5. CASE theirs[x] \in {"offer", "tool"} /\ Offered(x)
    BY <1>1, <1>2, <1>3, <1>5 DEF ServerLife, Offered, Fits
<1>6. CASE theirs[x] \in {"offer", "tool"} /\ Used(x)
    BY <1>1, <1>2, <1>3, <1>6 DEF ServerLife, Used, Fits
<1>7. QED
    BY <1>4, <1>5, <1>6 DEF ServerLife

LEMMA LegalGrown ==
    ASSUME NEW q, NEW m, NEW r, Grown(q, m, r)
    PROVE  /\ (\A k \in 1..Len(q) : LegalUp(q[k])) /\ LegalUp(m) => \A k \in 1..Len(r) : LegalUp(r[k])
           /\ (\A k \in 1..Len(q) : LegalDown(q[k])) /\ LegalDown(m) => \A k \in 1..Len(r) : LegalDown(r[k])
<1>1. 1..Len(r) = 1..Len(q) \cup {Len(q) + 1}
    BY DEF Grown
<1>2. QED
    BY <1>1 DEF Grown

LEMMA LegalCut ==
    ASSUME NEW q, NEW n, NEW r, Cut(q, n, r)
    PROVE  /\ (\A k \in 1..Len(q) : LegalUp(q[k])) => \A k \in 1..Len(r) : LegalUp(r[k])
           /\ (\A k \in 1..Len(q) : LegalDown(q[k])) => \A k \in 1..Len(r) : LegalDown(r[k])
<1>1. \A k \in 1..Len(r) : k + n \in 1..Len(q) /\ r[k] = q[k + n]
    BY DEF Cut
<1>2. QED
    BY <1>1

(* Who an object of the client's can be.                                    *)
LEMMA ClientHas ==
    ASSUME NEW x, ClientLife(x)
    PROVE  /\ mine[x] = None => Unborn(x)
           /\ mine[x] \in Interface => (Asked(x) \/ Living(x)) /\ mine[x] # "lease"
           /\ theirs[x] \in Interface /\ "upstream" \in open =>
                Living(x) /\ \E t \in Had : t = theirs[x] /\ Uses(x, t) /\ Map[x] = Kn(t)
                                                  /\ As(Down, x, t)
<1>1. None \notin Interface /\ None # "zombie" /\ "zombie" \notin Interface
    BY RelayAssumption DEF Interface, Known, FdFree
<1>2. QED
    BY <1>1 DEF ClientLife, Unborn, Asked, Living, Freed, Told, Uses, Had

LEMMA ServerHas ==
    ASSUME NEW x, ServerLife(x)
    PROVE  /\ mine[x] \in {None, "offer", "tool"} /\ theirs[x] \in {None, "offer", "tool"}
           /\ mine[x] # None => Used(x) /\ mine[x] = theirs[x] /\ ~Killed(Up, x)
           /\ theirs[x] = None => Free(x)
<1>1. None \notin {"offer", "tool"}
    BY RelayAssumption DEF Interface, Known
<1>2. QED
    BY <1>1 DEF ServerLife, Free, Offered, Used

(* The client sends another request to an object it has.                    *)
LEMMA ClientSaysMore ==
    ASSUME NEW x, ClientLife(x), mine[x] \in Interface, NEW m,
           Grown(Up, m, Up'), m.obj = x, m.iface = mine[x], m.id # x,
           \/ mine'[x] = mine[x] /\ ~Kills(m, x)
           \/ mine'[x] = "zombie" /\ Kills(m, x),
           theirs'[x] = theirs[x], Map'[x] = Map[x], open' = open,
           Down' = Down, Seen' = Seen, NoId(Wait', x) => NoId(Wait, x)
    PROVE  ClientLife(x)'
<1>1. "zombie" \notin Interface
    BY DEF Interface, Known, FdFree
<1>2. /\ NoId(Up', x) <=> NoId(Up, x)
      /\ \A t : As(Up', x, t) <=> As(Up, x, t) /\ mine[x] = t
      /\ Killed(Up', x) <=> Killed(Up, x) \/ Kills(m, x)
      /\ KillsLast(Up, x) /\ ~Killed(Up, x) => KillsLast(Up', x)
      /\ \A t : Made(Up, x, t) => Made(Up', x, t)
    <2>1. NoId(Up', x) <=> NoId(Up, x)
        BY GrownWords
    <2>a. ASSUME NEW t PROVE As(Up', x, t) <=> As(Up, x, t) /\ mine[x] = t
        <3>1. As(Up', x, t) <=> As(Up, x, t) /\ (m.obj = x => m.iface = t)
            BY GrownWords, Zenon
        <3>2. QED
            BY <3>1
    <2>b. Killed(Up', x) <=> Killed(Up, x) \/ Kills(m, x)
        BY GrownWords, Zenon
    <2>c. KillsLast(Up, x) /\ ~Killed(Up, x) => KillsLast(Up', x)
        BY GrownWords, Zenon
    <2>2. \A t : Made(Up, x, t) => Made(Up', x, t)
        BY GrownIds, Zenon
    <2>3. QED
        BY <2>1, <2>a, <2>b, <2>c, <2>2
<1>3. ASSUME NEW t, Uses(x, t) PROVE Uses(x, t)' /\ t = mine[x]
    BY <1>1, <1>2, <1>3 DEF Uses
<1>4. CASE Asked(x)
    BY <1>2, <1>3, <1>4 DEF ClientLife, Asked
<1>5. CASE Living(x)
    BY <1>2, <1>3, <1>5 DEF ClientLife, Living
<1>6. QED
    BY <1>4, <1>5, ClientHas

LEMMA ServerIdSaidMore ==
    ASSUME NEW x, ServerLife(x), mine[x] # None, NEW m,
           Grown(Up, m, Up'), m.obj = x, m.iface = mine[x],
           \/ mine'[x] = mine[x] /\ ~Kills(m, x)
           \/ mine'[x] = None /\ Kills(m, x),
           theirs'[x] = theirs[x], Map'[x] = Map[x], open' = open,
           Down' = Down, Seen' = Seen
    PROVE  ServerLife(x)'
<1>1. Used(x) /\ mine[x] = theirs[x] /\ ~Killed(Up, x) /\ theirs[x] \in {"offer", "tool"}
    BY ServerHas
<1>2. /\ \A t : As(Up', x, t) <=> As(Up, x, t) /\ mine[x] = t
      /\ Killed(Up', x) <=> Killed(Up, x) \/ Kills(m, x)
      /\ KillsLast(Up, x) /\ ~Killed(Up, x) => KillsLast(Up', x)
    BY GrownWords
<1>3. QED
    BY <1>1, <1>2 DEF ServerLife, Used, Fits

LEMMA MakesLives ==
    ASSUME Typed, Lives, ~done, NEW o \in Ids, NEW x \in ClientId, NEW t \in Interface,
           ClientMakes(o, x, t)
    PROVE  Lives'
<1> DEFINE i == mine[o]
           p == Making(o, i, x, t)
           c == Carrying(p, <<"client", plan["client"]>>)
<1>1. /\ t \in RequestMakes(i) /\ (i = "registry" => t \in offered) /\ mine[x] = None
      /\ Send("client", p) /\ mine' = [mine EXCEPT ![x] = t]
      /\ UNCHANGED <<theirs, offered, to, leg, ids, open, done>>
    BY DEF ClientMakes, inner
<1>2. /\ mine \in [Ids -> Interface \cup {None, "zombie"}] /\ x \in Ids
      /\ i \in Interface \cup {None, "zombie"}
    BY DEF Typed, PeersTyped, Ids
<1>3. /\ i \in Known /\ i # "offer" /\ i # None /\ i # "lease" /\ i \in Interface
      /\ (t = "lease" => i = "registry")
    <2>1. i \in Known /\ i # "offer"
        BY <1>1, <1>2, Tables
    <2>2. t = "lease" => i = "registry"
        BY <1>1 DEF RequestMakes
    <2>3. QED
        BY <2>1, <2>2, RelayAssumption DEF Known, Interface
<1>4. o # x /\ o \notin ServerId
    <2>1. o \in ServerId => i \in {None, "offer", "tool"}
        BY ServerHas DEF Lives
    <2>2. "tool" \notin Known
        BY DEF Known
    <2>3. QED
        BY <1>1, <1>3, <2>1, <2>2
<1>5. p \in Message
    BY <1>2, MakingTyped
<1>6. /\ Grown(Up, c, Up') /\ Grown(Wait, c, Wait')
      /\ Ahead' = Ahead /\ Down' = Down /\ Seen' = Seen
    BY <1>1, <1>5, RequestMoves, Zenon
<1>7. c = p /\ c.obj = o /\ c.id = x /\ c.iface = i /\ c.op = "make" /\ c.type = t /\ c.fds = <<>>
    BY DEF Carrying, Making, Plain, WithFd
<1>8. LegalUp(c)
    <2>1. t # "lease"
        <3>1. ~Relayable("lease")
            BY DEF Relayable, Known, FdFree
        <3>2. QED
            BY <1>1, <1>3, <3>1 DEF Lives, Legal
    <2>2. o \in {"display", "registry"} => i = o
        BY DEF Lives, Roots
    <2>3. Len(<<>>) = 0 /\ "make" \notin WithFd
        BY EmptySeq DEF WithFd
    <2> HIDE DEF c, p, i
    <2>4. QED
        BY <1>1, <1>3, <1>7, <2>1, <2>2, <2>3 DEF LegalUp
<1> HIDE DEF c, p, i
<1>9. Legal'
    BY <1>1, <1>6, <1>8, LegalGrown DEF Lives, Legal
<1>10. Map' = Map /\ open' = open /\ theirs' = theirs
    BY <1>1 DEF Map
<1>11. Roots'
    <2>1. x \notin {"display", "registry"} /\ {"display", "registry"} \subseteq Ids
        BY RelayAssumption DEF Ids
    <2>2. QED
        BY <1>1, <1>2, <1>10, <2>1 DEF Lives, Roots
<1>12. ClientLife(x)'
    <2>1. Unborn(x)
        BY <1>1, ClientHas DEF Lives
    <2>2. NoWord(Up', x) /\ Made(Up', x, t) /\ ~NoId(Wait', x)
        BY <1>4, <1>6, <1>7, <2>1, GrownWords, GrownIds, Zenon DEF Unborn
    <2>3. As(Up', x, t) /\ KillsLast(Up', x) /\ ~Killed(Up', x)
        BY <2>2 DEF NoWord, As, KillsLast, Killed, Kills
    <2>4. mine'[x] = t
        BY <1>1, <1>2
    <2>5. Uses(x, t)'
        BY <2>3, <2>4 DEF Uses
    <2>6. t \in Had
        <3>1. "make" \notin Requests(c.iface)
            BY <1>3, <1>7, Tables
        <3>2. QED
            BY <1>7, <1>8, <3>1 DEF LegalUp, Had
    <2>7. QED
        BY <1>6, <1>8, <1>7, <1>10, <2>1, <2>2, <2>5, <2>6 DEF ClientLife, Asked, Unborn
<1>13. ASSUME NEW y \in ClientId PROVE ClientLife(y)'
    <2>1. ClientLife(y) /\ (y # x => mine'[y] = mine[y]) /\ y # None
        BY <1>1, <1>2, RelayAssumption DEF Lives, Ids
    <2>2. NoId(Wait', y) => NoId(Wait, y)
        BY <1>6, GrownWords
    <2>3. CASE y \notin {x, o}
        <3>1. Quiet(Up, Up', y) /\ Quiet(Down, Down', y) /\ Quiet(Seen, Seen', y)
            BY <1>6, <1>7, <2>3 DEF Quiet
        <3>2. QED
            BY <1>10, <2>1, <2>2, <2>3, <3>1, ClientKept
    <2>4. CASE y = o
        <3>1. ~Kills(c, y)
            BY <1>7 DEF Kills
        <3>2. c.obj = y /\ c.iface = mine[y] /\ c.id # y /\ mine'[y] = mine[y] /\ mine[y] \in Interface
            BY <1>3, <1>4, <1>7, <2>1, <2>4 DEF i
        <3>3. QED
            BY <1>6, <1>10, <2>1, <2>2, <3>1, <3>2, ClientSaysMore
    <2>5. QED
        BY <1>12, <2>3, <2>4
<1>14. ASSUME NEW y \in ServerId PROVE ServerLife(y)'
    <2>1. ServerLife(y) /\ y # x /\ y # o /\ y \in Ids
        BY <1>4, RelayAssumption DEF Lives, Ids
    <2>2. mine'[y] = mine[y]
        BY <1>1, <1>2, <2>1
    <2>3. Quiet(Up, Up', y) /\ Quiet(Down, Down', y) /\ Quiet(Seen, Seen', y)
        BY <1>6, <1>7, <2>1 DEF Quiet
    <2>4. QED
        BY <1>10, <2>1, <2>2, <2>3, ServerKept
<1>15. QED
    BY <1>9, <1>11, <1>13, <1>14 DEF Lives

-----------------------------------------------------------------------------
LEMMA AsksLives ==
    ASSUME Typed, Lives, ~done, NEW o \in Ids, NEW op, ClientAsks(o, op)
    PROVE  Lives'
<1> DEFINE i == mine[o]
           p == Plain(o, i, op)
           c == Carrying(p, <<"client", plan["client"]>>)
<1>1. /\ op \in Requests(i) /\ Send("client", p)
      /\ mine' = IF op # "destroy" THEN mine
                 ELSE [mine EXCEPT ![o] = IF o \in ClientId THEN "zombie" ELSE None]
      /\ UNCHANGED <<theirs, offered, to, leg, ids, open, done>>
    BY DEF ClientAsks, inner
<1>2. mine \in [Ids -> Interface \cup {None, "zombie"}] /\ i \in Interface \cup {None, "zombie"}
    BY DEF Typed, PeersTyped
<1>3. /\ i \in Interface \ {"display", "registry"}
      /\ op \in {"destroy", "receive", "set_cursor"}
    BY <1>1, <1>2, Tables
<1>4. o \in ClientId \cup ServerId /\ None \notin Interface
    BY <1>3, RelayAssumption DEF Lives, Roots, Ids
<1>5. i # "lease"
    <2>1. CASE o \in ClientId
        BY <1>3, <2>1, ClientHas DEF Lives
    <2>2. CASE o \in ServerId
        <3>1. i \in {None, "offer", "tool"}
            BY <2>2, ServerHas DEF Lives
        <3>2. QED
            BY <1>3, <1>4, <3>1
    <2>3. QED
        BY <1>4, <2>1, <2>2
<1>6. p \in Message
    BY <1>2, <1>3, PlainTyped DEF Op
<1>7. /\ Grown(Up, c, Up') /\ Grown(Wait, c, Wait')
      /\ Ahead' = Ahead /\ Down' = Down /\ Seen' = Seen
    BY <1>1, <1>6, RequestMoves, Zenon
<1>8. /\ c.obj = o /\ c.id = None /\ c.iface = i /\ c.op = op
      /\ Len(c.fds) = IF op \in WithFd THEN 1 ELSE 0
    BY EmptySeq DEF Carrying, Plain
<1> HIDE DEF c, p
<1>9. LegalUp(c)
    BY <1>1, <1>3, <1>4, <1>5, <1>8, RelayAssumption DEF LegalUp
<1>10. Legal'
    BY <1>1, <1>7, <1>9, LegalGrown DEF Lives, Legal
<1>11. Map' = Map /\ open' = open /\ theirs' = theirs
    BY <1>1 DEF Map
<1>12. \A y \in Ids \ {o} : mine'[y] = mine[y]
    BY <1>1, <1>2
<1>13. IF op = "destroy" THEN mine'[o] = IF o \in ClientId THEN "zombie" ELSE None
       ELSE mine'[o] = mine[o]
    BY <1>1, <1>2
<1>14. Roots'
    <2>1. o \notin {"display", "registry"} /\ {"display", "registry"} \subseteq Ids
        BY <1>4, RelayAssumption DEF Ids
    <2>2. QED
        BY <1>11, <1>12, <2>1 DEF Lives, Roots
<1>15. \A y : Kills(c, y) <=> op = "destroy" /\ o = y
    BY <1>8 DEF Kills
<1>16. ASSUME NEW y \in ClientId PROVE ClientLife(y)'
    <2>1. ClientLife(y) /\ y # None /\ y \in Ids
        BY RelayAssumption DEF Lives, Ids
    <2>2. NoId(Wait', y) => NoId(Wait, y)
        BY <1>7, GrownWords
    <2>3. CASE y # o
        <3>1. Quiet(Up, Up', y) /\ Quiet(Down, Down', y) /\ Quiet(Seen, Seen', y)
            BY <1>7, <1>8, <2>1, <2>3 DEF Quiet
        <3>2. QED
            BY <1>11, <1>12, <2>1, <2>2, <2>3, <3>1, ClientKept
    <2>4. CASE y = o
        <3>1. c.obj = y /\ c.iface = mine[y] /\ c.id # y /\ mine[y] \in Interface
            BY <1>3, <1>8, <2>1, <2>4
        <3>2. \/ mine'[y] = mine[y] /\ ~Kills(c, y)
              \/ mine'[y] = "zombie" /\ Kills(c, y)
            BY <1>13, <1>15, <2>4
        <3>3. QED
            BY <1>7, <1>11, <2>1, <2>2, <3>1, <3>2, ClientSaysMore
    <2>5. QED
        BY <2>3, <2>4
<1>17. ASSUME NEW y \in ServerId PROVE ServerLife(y)'
    <2>1. ServerLife(y) /\ y # None /\ y \in Ids /\ y \notin ClientId
        BY RelayAssumption DEF Lives, Ids
    <2>2. CASE y # o
        <3>1. Quiet(Up, Up', y) /\ Quiet(Down, Down', y) /\ Quiet(Seen, Seen', y)
            BY <1>7, <1>8, <2>1, <2>2 DEF Quiet
        <3>2. QED
            BY <1>11, <1>12, <2>1, <2>2, <3>1, ServerKept
    <2>3. CASE y = o
        <3>1. c.obj = y /\ c.iface = mine[y] /\ mine[y] # None
            BY <1>3, <1>4, <1>8, <2>3
        <3>2. \/ mine'[y] = mine[y] /\ ~Kills(c, y)
              \/ mine'[y] = None /\ Kills(c, y)
            BY <1>13, <1>15, <2>1, <2>3
        <3>3. QED
            BY <1>7, <1>11, <2>1, <3>1, <3>2, ServerIdSaidMore
    <2>4. QED
        BY <2>2, <2>3
<1>18. QED
    BY <1>10, <1>14, <1>16, <1>17 DEF Lives

-----------------------------------------------------------------------------
LEMMA GrownAs ==
    ASSUME NEW q, NEW m, NEW r, NEW x, NEW t, Grown(q, m, r), As(q, x, t), m.iface = t
    PROVE  As(r, x, t)
BY GrownWords

(* The compositor sends another event from an object it has.                *)
LEMMA ClientToldMore ==
    ASSUME NEW x, ClientLife(x), theirs[x] \in Interface, "upstream" \in open, NEW m,
           Grown(Down, m, Down'), m.obj = x, m.iface = theirs[x], m.id # x,
           mine'[x] = mine[x], theirs'[x] = theirs[x], Map'[x] = Map[x], open' = open,
           Up' = Up, Wait' = Wait, Seen' = Seen
    PROVE  ClientLife(x)'
<1>1. PICK t \in Had : t = theirs[x] /\ Uses(x, t) /\ Map[x] = Kn(t) /\ As(Down, x, t)
    BY ClientHas
<1>2. Living(x) /\ NoId(Up, x) /\ NoId(Down, x) /\ NoId(Seen, x)
    BY ClientHas DEF Living
<1>3. NoId(Down', x)
    BY <1>2, GrownWords
<1>4. As(Down', x, t)
    BY <1>1, GrownAs
<1>5. Uses(x, t)'
    BY <1>1 DEF Uses
<1>6. QED
    BY <1>1, <1>2, <1>3, <1>4, <1>5 DEF ClientLife, Living

(* Whose events are sent is an object of the client's.                      *)
LEMMA EventOf ==
    ASSUME Typed, Lives, ~done, NEW o \in Ids, "upstream" \in open,
           theirs[o] \in {"keyboard", "pointer", "toplevel", "lease", "device", "tablets"}
    PROVE  o \in ClientId /\ theirs[o] \in Interface \ {"lease"}
<1>1. {"keyboard", "pointer", "toplevel", "lease", "device", "tablets"} \subseteq Interface
    BY DEF Interface, Known, FdFree
<1>2. o \notin {"display", "registry"}
    BY DEF Lives, Roots
<1>3. o \notin ServerId
    <2>1. o \in ServerId => theirs[o] \in {None, "offer", "tool"}
        BY ServerHas DEF Lives
    <2>2. QED
        BY <1>1, <2>1, RelayAssumption
<1>4. o \in ClientId
    BY <1>2, <1>3 DEF Ids
<1>5. theirs[o] # "lease"
    BY <1>1, <1>4, ClientHas DEF Lives, Had
<1>6. QED
    BY <1>1, <1>4, <1>5

(* An event of an object that is not the compositor's to name.              *)
LEMMA SaidLives ==
    ASSUME Typed, Lives, ~done, NEW c,
           Grown(Down, c, Down'), LegalDown(c), c.id = None,
           c.obj = "registry" \/ (c.obj \in ClientId /\ "upstream" \in open
                                  /\ theirs[c.obj] \in Interface /\ c.iface = theirs[c.obj]),
           Up' = Up, Ahead' = Ahead, Wait' = Wait, Seen' = Seen,
           UNCHANGED <<mine, theirs, offered, ids, open>>
    PROVE  Lives'
<1>1. Legal'
    BY LegalGrown DEF Lives, Legal
<1>2. Map' = Map
    BY DEF Map
<1>3. Roots'
    BY <1>2 DEF Lives, Roots
<1>4. ASSUME NEW y \in ClientId PROVE ClientLife(y)'
    <2>1. ClientLife(y) /\ y # None /\ y # "registry" /\ Wait' = Wait
        BY RelayAssumption DEF Lives
    <2>2. CASE y # c.obj
        <3>1. Quiet(Up, Up', y) /\ Quiet(Down, Down', y) /\ Quiet(Seen, Seen', y)
            BY <2>1, <2>2 DEF Quiet
        <3>2. QED
            BY <1>2, <2>1, <3>1, ClientKept
    <2>3. CASE y = c.obj
        <3>1. theirs[y] \in Interface /\ "upstream" \in open /\ c.iface = theirs[y] /\ c.id # y
            BY <2>1, <2>3
        <3>2. QED
            BY <1>2, <2>1, <2>3, <3>1, ClientToldMore
    <2>4. QED
        BY <2>2, <2>3
<1>5. ASSUME NEW y \in ServerId PROVE ServerLife(y)'
    <2>1. ServerLife(y) /\ y # None /\ c.obj # y
        BY RelayAssumption DEF Lives
    <2>2. Quiet(Up, Up', y) /\ Quiet(Down, Down', y) /\ Quiet(Seen, Seen', y)
        BY <2>1 DEF Quiet
    <2>3. QED
        BY <1>2, <2>1, <2>2, ServerKept
<1>6. QED
    BY <1>1, <1>3, <1>4, <1>5 DEF Lives

LEMMA AnnouncesLives ==
    ASSUME Typed, Lives, ~done, NEW g \in plan.globals, Announces(g)
    PROVE  Lives'
<1> DEFINE p == Global(g)
           c == Carrying(p, <<"upstream", plan["upstream"]>>)
<1>1. Send("upstream", p) /\ UNCHANGED <<mine, theirs, offered, to, leg, ids, open, done>>
    BY DEF Announces, inner
<1>2. g \in Interface
    BY DEF Typed, PeersTyped, Plan, Interface, Known, FdFree
<1>3. p \in Message
    BY <1>2, GlobalTyped
<1>4. /\ Grown(Down, c, Down')
      /\ Up' = Up /\ Ahead' = Ahead /\ Wait' = Wait /\ Seen' = Seen
    BY <1>1, <1>3, EventMoves
<1>5. /\ c.obj = "registry" /\ c.iface = "registry" /\ c.id = None /\ c.op = "global"
      /\ c.fds = <<>> /\ c.op \notin WithFd
    BY DEF Carrying, Global, Plain, WithFd
<1> HIDE DEF c, p
<1>6. LegalDown(c)
    BY <1>5, EmptySeq, RelayAssumption DEF LegalDown
<1>7. QED
    BY <1>1, <1>4, <1>5, <1>6, SaidLives

LEMMA TellsLives ==
    ASSUME Typed, Lives, ~done, NEW o \in Ids, NEW op, NEW on \in BOOLEAN, CompositorTells(o, op, on)
    PROVE  Lives'
<1> DEFINE i == theirs[o]
           p == [Plain(o, i, op) EXCEPT !.active = on]
           c == Carrying(p, <<"upstream", plan["upstream"]>>)
<1>1. /\ op \in Events(i) /\ Send("upstream", p) /\ "upstream" \in open
      /\ UNCHANGED <<mine, theirs, offered, to, leg, ids, open, done>>
    BY DEF CompositorTells, inner, Send
<1>2. i \in Interface \cup {None, "zombie"}
    BY DEF Typed, PeersTyped
<1>3. /\ op \in {"keymap", "enter", "leave", "configure", "drm_fd"}
      /\ i \in {"keyboard", "pointer", "toplevel", "lease"}
    BY <1>1, <1>2, Tables
<1>4. o \in ClientId /\ i \in Interface \ {"lease"}
    BY <1>1, <1>3, EventOf
<1>5. p \in Message
    <2>1. Plain(o, i, op) \in Message
        BY <1>2, <1>3, PlainTyped DEF Op
    <2>2. QED
        BY <2>1, Zenon DEF Plain, Message, Fields
<1>6. /\ Grown(Down, c, Down')
      /\ Up' = Up /\ Ahead' = Ahead /\ Wait' = Wait /\ Seen' = Seen
    BY <1>1, <1>5, EventMoves
<1>7. /\ c.obj = o /\ c.iface = i /\ c.id = None /\ c.op = op
      /\ Len(c.fds) = IF op \in WithFd THEN 1 ELSE 0
    BY EmptySeq DEF Carrying, Plain
<1> HIDE DEF c, p
<1>8. LegalDown(c)
    BY <1>1, <1>4, <1>7, RelayAssumption DEF LegalDown
<1>9. QED
    BY <1>1, <1>4, <1>6, <1>7, <1>8, SaidLives

LEMMA OffersLives ==
    ASSUME Typed, Lives, ~done, NEW o \in Ids, NEW x \in ServerId, NEW t \in Interface,
           CompositorMakes(o, x, t)
    PROVE  Lives'
<1> DEFINE i == theirs[o]
           p == Making(o, i, x, t)
           c == Carrying(p, <<"upstream", plan["upstream"]>>)
<1>1. /\ t \in EventMakes(i) /\ theirs[x] = None /\ Send("upstream", p) /\ "upstream" \in open
      /\ theirs' = [theirs EXCEPT ![x] = t]
      /\ UNCHANGED <<mine, offered, to, leg, ids, open, done>>
    BY DEF CompositorMakes, inner, Send
<1>2. i \in Interface \cup {None, "zombie"} /\ x \in Ids /\ theirs \in [Ids -> Interface \cup {None}]
    BY DEF Typed, PeersTyped, Ids
<1>3. t \in {"offer", "tool"} /\ i \in {"device", "tablets"}
    BY <1>1, <1>2, Tables
<1>4. o \in ClientId /\ i \in Interface \ {"lease"} /\ o # x
    BY <1>1, <1>3, EventOf, RelayAssumption
<1>5. p \in Message
    BY <1>2, MakingTyped, Zenon
<1>6. /\ Grown(Down, c, Down')
      /\ Up' = Up /\ Ahead' = Ahead /\ Wait' = Wait /\ Seen' = Seen
    BY <1>1, <1>5, EventMoves
<1>7. /\ c.obj = o /\ c.iface = i /\ c.id = x /\ c.op = "make" /\ c.type = t
      /\ c.fds = <<>> /\ c.op \notin WithFd
    BY DEF Carrying, Making, Plain, WithFd
<1> HIDE DEF c, p
<1>8. LegalDown(c)
    BY <1>1, <1>4, <1>7, EmptySeq, RelayAssumption DEF LegalDown
<1>9. Legal'
    BY <1>1, <1>6, <1>8, LegalGrown DEF Lives, Legal
<1>10. Map' = Map /\ open' = open /\ mine' = mine
    BY <1>1 DEF Map
<1>11. \A y \in Ids \ {x} : theirs'[y] = theirs[y]
    BY <1>1, <1>2
<1>12. Roots'
    <2>1. x \notin {"display", "registry"} /\ {"display", "registry"} \subseteq Ids
        BY RelayAssumption DEF Ids
    <2>2. QED
        BY <1>10, <1>11, <2>1 DEF Lives, Roots
<1>13. ASSUME NEW y \in ClientId PROVE ClientLife(y)'
    <2>1. ClientLife(y) /\ y # x /\ theirs'[y] = theirs[y]
        BY <1>11, RelayAssumption DEF Lives, Ids
    <2>2. CASE y # o
        <3>1. Quiet(Up, Up', y) /\ Quiet(Down, Down', y) /\ Quiet(Seen, Seen', y)
            BY <1>6, <1>7, <2>1, <2>2 DEF Quiet
        <3>2. QED
            BY <1>6, <1>10, <2>1, <3>1, ClientKept
    <2>3. CASE y = o
        <3>1. theirs[y] \in Interface /\ c.iface = theirs[y] /\ c.id # y /\ c.obj = y
            BY <1>4, <1>7, <2>1, <2>3 DEF i
        <3>2. QED
            BY <1>1, <1>6, <1>10, <2>1, <3>1, ClientToldMore
    <2>4. QED
        BY <2>2, <2>3
<1>14. ASSUME NEW y \in ServerId, y # x PROVE ServerLife(y)'
    <2>1. ServerLife(y) /\ y # o /\ theirs'[y] = theirs[y]
        BY <1>4, <1>11, <1>14, RelayAssumption DEF Lives, Ids
    <2>2. Quiet(Up, Up', y) /\ Quiet(Down, Down', y) /\ Quiet(Seen, Seen', y)
        BY <1>6, <1>7, <1>14, <2>1 DEF Quiet
    <2>3. QED
        BY <1>10, <2>1, <2>2, ServerKept
<1>15. ServerLife(x)'
    <2>1. Free(x) /\ Map[x] \in {None, "offer"}
        BY <1>1, ServerHas DEF Lives, ServerLife
    <2>2. Brings(Down', x, t)
        BY <1>6, <1>7, <2>1, GrownIds, Zenon DEF Free
    <2>3. theirs'[x] = t
        BY <1>1, <1>2
    <2>4. QED
        BY <1>3, <1>6, <1>10, <2>1, <2>2, <2>3 DEF ServerLife, Offered, Free
<1>16. QED
    BY <1>9, <1>12, <1>13, <1>14, <1>15 DEF Lives

-----------------------------------------------------------------------------
(* The compositor takes a request that neither makes nor ends the object.   *)
LEMMA ClientServed ==
    ASSUME NEW x, ClientLife(x), Cut(Up, 1, Up'), ~Kills(Up[1], x), Up[1].id # x,
           mine'[x] = mine[x], theirs'[x] = theirs[x], Map'[x] = Map[x], open' = open,
           NoId(Wait', x) => NoId(Wait, x), Seen' = Seen, Quiet(Down, Down', x)
    PROVE  ClientLife(x)'
<1>1. /\ NoId(Up, x) => NoId(Up', x)
      /\ NoWord(Up, x) => NoWord(Up', x)
      /\ \A t : As(Up, x, t) => As(Up', x, t)
      /\ Killed(Up', x) => Killed(Up, x)
      /\ KillsLast(Up, x) => KillsLast(Up', x)
    BY CutWords, Zenon
<1>2. Killed(Up, x) => Killed(Up', x)
    BY TailWords
<1>3. \A t : Made(Up, x, t) => Made(Up', x, t)
    BY TailIds
<1>4. /\ NoId(Down, x) => NoId(Down', x)
      /\ NoWord(Down, x) => NoWord(Down', x)
      /\ \A t : As(Down, x, t) => As(Down', x, t)
      /\ FreedLast(Down, x) => FreedLast(Down', x)
    BY QuietKeeps
<1>5. \A t : Uses(x, t) => Uses(x, t)'
    BY <1>1, <1>2 DEF Uses
<1>6. CASE Unborn(x)
    BY <1>1, <1>4, <1>6 DEF ClientLife, Unborn
<1>7. CASE Asked(x)
    BY <1>1, <1>3, <1>4, <1>5, <1>7 DEF ClientLife, Asked
<1>8. CASE Living(x)
    BY <1>1, <1>4, <1>5, <1>8 DEF ClientLife, Living
<1>9. CASE Freed(x)
    BY <1>1, <1>4, <1>9 DEF ClientLife, Freed
<1>10. CASE Told(x)
    BY <1>1, <1>4, <1>10 DEF ClientLife, Told
<1>11. QED
    BY <1>6, <1>7, <1>8, <1>9, <1>10 DEF ClientLife

LEMMA ServerServed ==
    ASSUME NEW x, ServerLife(x), Cut(Up, 1, Up'), ~Kills(Up[1], x),
           mine'[x] = mine[x], theirs'[x] = theirs[x], Map'[x] = Map[x], open' = open,
           Seen' = Seen, Quiet(Down, Down', x)
    PROVE  ServerLife(x)'
<1>1. /\ NoWord(Up, x) => NoWord(Up', x)
      /\ \A t : As(Up, x, t) => As(Up', x, t)
      /\ Killed(Up', x) => Killed(Up, x)
      /\ KillsLast(Up, x) => KillsLast(Up', x)
    BY CutWords, Zenon
<1>2. Killed(Up, x) => Killed(Up', x)
    BY TailWords
<1>3. /\ NoId(Down, x) => NoId(Down', x)
      /\ \A t : Brings(Down, x, t) => Brings(Down', x, t)
    BY QuietKeeps
<1>4. CASE Free(x)
    BY <1>1, <1>3, <1>4 DEF ServerLife, Free
<1>5. CASE theirs[x] \in {"offer", "tool"} /\ Offered(x)
    BY <1>1, <1>3, <1>5 DEF ServerLife, Offered, Fits
<1>6. CASE theirs[x] \in {"offer", "tool"} /\ Used(x)
    BY <1>1, <1>2, <1>3, <1>6 DEF ServerLife, Used, Fits
<1>7. QED
    BY <1>4, <1>5, <1>6 DEF ServerLife

LEMMA UsesServed ==
    ASSUME NEW x, NEW t, Uses(x, t), Cut(Up, 1, Up'), ~Kills(Up[1], x),
           mine'[x] = mine[x], open' = open
    PROVE  Uses(x, t)'
<1>1. /\ As(Up, x, t) => As(Up', x, t)
      /\ NoWord(Up, x) => NoWord(Up', x)
      /\ Killed(Up', x) => Killed(Up, x)
      /\ KillsLast(Up, x) => KillsLast(Up', x)
    BY CutWords, Zenon
<1>2. Killed(Up, x) => Killed(Up', x)
    BY TailWords
<1>3. QED
    BY <1>1, <1>2 DEF Uses

LEMMA CutIds == ASSUME NEW q, NEW n, NEW r, NEW x, Cut(q, n, r), NoId(q, x) PROVE NoId(r, x)
BY CutWords

LEMMA FirstKill ==
    ASSUME NEW q, NEW r, NEW x, Cut(q, 1, r), Kills(q[1], x)
    PROVE  ~NoWord(q, x) /\ Killed(q, x) /\ \A t : ~Made(q, x, t)
<1>1. ~NoWord(q, x)
    BY TailWords DEF Kills
<1>2. Killed(q, x)
    BY TailWords, Zenon
<1>3. q[1].obj = x
    BY DEF Kills
<1>4. ASSUME NEW t, Made(q, x, t) PROVE q[1].obj # x
    BY <1>4, TailIds, Zenon
<1>5. QED
    BY <1>1, <1>2, <1>3, <1>4

LEMMA FirstMade ==
    ASSUME NEW q, NEW r, NEW x, NEW t, Cut(q, 1, r), q[1].id = x, Made(q, x, t)
    PROVE  NoId(r, x) /\ q[1].type = t /\ q[1].obj # x
<1>1. PICK j \in 1..Len(q) : OnlyId(q, x, j) /\ q[j].type = t /\ \A k \in 1..j : q[k].obj # x
    BY DEF Made
<1>2. 1 \in 1..Len(q) /\ \A k \in 1..Len(r) : k + 1 \in 1..Len(q) /\ k + 1 # 1 /\ r[k] = q[k + 1]
    BY DEF Cut
<1>3. j = 1
    BY <1>1, <1>2 DEF OnlyId
<1>4. NoId(r, x)
    BY <1>1, <1>2, <1>3 DEF OnlyId, NoId
<1>5. QED
    BY <1>1, <1>3, <1>4

(* The compositor makes the object, which the map then names.               *)
LEMMA ClientBorn ==
    ASSUME NEW x, ClientLife(x), Cut(Up, 1, Up'), Up[1].id = x, Cut(Up', Len(Ahead'), Wait),
           mine'[x] = mine[x], theirs'[x] = Up[1].type, Map'[x] = Map[x], open' = open,
           Wait' = Wait, Seen' = Seen, Down' = Down
    PROVE  ClientLife(x)'
<1>1. ~NoId(Up, x)
    BY TailWords, Zenon
<1>2. Asked(x)
    BY <1>1 DEF ClientLife, Unborn, Living, Freed, Told
<1>3. PICK t \in Had :
        /\ Made(Up, x, t) /\ Uses(x, t) /\ (NoId(Wait, x) => Map[x] = Kn(t))
        /\ NoId(Down, x) /\ NoWord(Down, x) /\ NoId(Seen, x)
    BY <1>2 DEF Asked
<1>4. NoId(Up', x) /\ Up[1].type = t /\ Up[1].obj # x
    BY <1>3, FirstMade, Zenon
<1>5. NoId(Wait, x)
    BY <1>4, CutIds
<1>6. ~Kills(Up[1], x)
    BY <1>4 DEF Kills
<1>8. Uses(x, t)'
    BY <1>3, <1>6, UsesServed
<1>9. As(Down, x, t)
    BY <1>3 DEF As, NoWord
<1>10. QED
    BY <1>3, <1>4, <1>5, <1>8, <1>9 DEF ClientLife, Living

(* It destroys the object, and says so.                                     *)
LEMMA ClientEnds ==
    ASSUME NEW x, ClientLife(x), Cut(Up, 1, Up'), Kills(Up[1], x),
           Grown(Down, DeleteId(x), Down'), x # "display",
           mine'[x] = mine[x], theirs'[x] = None, Map'[x] = Map[x], open' = open,
           Seen' = Seen
    PROVE  ClientLife(x)'
<1>1. ~NoWord(Up, x) /\ Killed(Up, x) /\ \A t : ~Made(Up, x, t)
    BY FirstKill, Zenon
<1>2. ~Asked(x)
    BY <1>1 DEF Asked
<1>3. Living(x)
    BY <1>1, <1>2 DEF ClientLife, Unborn, Freed, Told
<1>4. PICK t \in Had :
        /\ NoId(Up, x) /\ Uses(x, t) /\ Map[x] = Kn(t)
        /\ As(Down, x, t) /\ NoId(Down, x) /\ NoId(Seen, x)
    BY <1>3 DEF Living
<1>5. mine[x] = "zombie" /\ KillsLast(Up, x)
    BY <1>1, <1>4 DEF Uses
<1>6. NoId(Up', x) /\ NoWord(Up', x)
    BY <1>4, <1>5, TailWords, CutWords, Zenon
<1> DEFINE d == DeleteId(x)
<1>7. d.id = x /\ d.obj = "display" /\ Grown(Down, d, Down')
    BY DEF DeleteId, Plain
<1> HIDE DEF d
<1>8. FreedLast(Down', x)
    BY <1>4, <1>7, GrownIds, Zenon
<1>9. As(Down', x, t)
    BY <1>4, <1>7, GrownWords
<1>10. QED
    BY <1>4, <1>5, <1>6, <1>8, <1>9 DEF ClientLife, Freed

LEMMA ServerEnds ==
    ASSUME NEW x, ServerLife(x), Cut(Up, 1, Up'), Kills(Up[1], x), "upstream" \in open,
           mine'[x] = mine[x], theirs'[x] = None, Map'[x] = Map[x],
           Seen' = Seen, Down' = Down
    PROVE  ServerLife(x)'
<1>1. ~NoWord(Up, x) /\ Killed(Up, x)
    BY FirstKill, Zenon
<1>2. Used(x) /\ Map[x] \in {None, "offer"}
    BY <1>1 DEF ServerLife, Free, Offered
<1>3. mine[x] = None /\ KillsLast(Up, x) /\ NoId(Down, x) /\ NoId(Seen, x)
    BY <1>1, <1>2 DEF Used
<1>4. NoWord(Up', x)
    BY <1>3, TailWords, Zenon
<1>5. QED
    BY <1>2, <1>3, <1>4 DEF ServerLife, Free

LEMMA ServesLives ==
    ASSUME Typed, Lives, ~done, CompositorReceives
    PROVE  Lives'
<1> DEFINE m == Head(Ahead)
<1>1. /\ "upstream" \in open
      /\ theirs' = CASE m.op = "make" -> [theirs EXCEPT ![m.id] = m.type]
                     [] m.op = "destroy" -> [theirs EXCEPT ![m.obj] = None]
                     [] OTHER -> theirs
      /\ UNCHANGED <<mine, offered, ids, open, done>>
    BY DEF CompositorReceives, Receive, Ahead, inner
<1>2. /\ m = Up[1] /\ m \in Message /\ Cut(Up, 1, Up') /\ Wait' = Wait /\ Seen' = Seen
      /\ IF m.op = "destroy" /\ m.obj \in ClientId
         THEN Grown(Down, DeleteId(m.obj), Down')
         ELSE Down' = Down
    BY ServedMoves
<1>3. Cut(Up', Len(Ahead'), Wait)
    <2>1. Ahead' \in Seq(Message)
        BY ServedMoves, QueuesTyped, HeadTailProperties, Zenon
    <2>2. Up' = Ahead' \o Wait /\ Wait \in Seq(Message)
        BY <1>2, QueuesTyped DEF Up
    <2>3. QED
        BY <2>1, <2>2, SecondCuts
<1> HIDE DEF m
<1>4. LegalUp(m)
    <2>1. 1 \in 1..Len(Up)
        BY <1>2 DEF Cut
    <2>2. QED
        BY <1>2, <2>1 DEF Lives, Legal
<1>5. Map' = Map /\ mine' = mine /\ open' = open
    BY <1>1 DEF Map
<1>6. theirs \in [Ids -> Interface \cup {None}]
    BY DEF Typed, PeersTyped
<1>7. {"display", "registry"} \subseteq Ids
    BY DEF Ids
<1>8. CASE m.op = "make"
    <2>1. m.id \in ClientId /\ m.id \in Ids
        <3>1. "make" \notin Requests(m.iface)
            BY <1>2, Tables DEF Message, Fields
        <3>2. QED
            BY <1>4, <1>8, <3>1 DEF LegalUp, Ids
    <2>2. Down' = Down
        BY <1>2, <1>8
    <2>3. theirs'[m.id] = m.type /\ \A y \in Ids \ {m.id} : theirs'[y] = theirs[y]
        BY <1>1, <1>6, <1>8, <2>1
    <2>4. \A y : ~Kills(m, y)
        BY <1>8 DEF Kills
    <2>5. Legal'
        BY <1>1, <1>2, <2>2, LegalCut DEF Lives, Legal
    <2>6. Roots'
        BY <1>5, <1>7, <2>1, <2>3, RelayAssumption DEF Lives, Roots
    <2>7. ASSUME NEW y \in ClientId PROVE ClientLife(y)'
        <3>1. ClientLife(y) /\ y \in Ids
            BY DEF Lives, Ids
        <3>2. CASE y = m.id
            BY <1>2, <1>3, <1>5, <2>2, <2>3, <3>1, <3>2, ClientBorn
        <3>3. CASE y # m.id
            <4>1. Quiet(Down, Down', y) /\ theirs'[y] = theirs[y]
                BY <2>2, <2>3, <3>1, <3>3 DEF Quiet
            <4>2. NoId(Wait', y) => NoId(Wait, y)
                BY <1>2
            <4>3. QED
                BY <1>2, <1>5, <2>4, <3>1, <3>3, <4>1, <4>2, ClientServed
        <3>4. QED
            BY <3>2, <3>3
    <2>8. ASSUME NEW y \in ServerId PROVE ServerLife(y)'
        <3>1. ServerLife(y) /\ y \in Ids /\ y # m.id
            BY <2>1, RelayAssumption DEF Lives, Ids
        <3>2. Quiet(Down, Down', y) /\ theirs'[y] = theirs[y]
            BY <2>2, <2>3, <3>1 DEF Quiet
        <3>3. QED
            BY <1>2, <1>5, <2>4, <3>1, <3>2, ServerServed
    <2>9. QED
        BY <2>5, <2>6, <2>7, <2>8 DEF Lives
<1>9. CASE m.op # "make"
    <2>1. m.id = None /\ m.op \in Requests(m.iface) /\ m.obj \in Ids
          /\ m.iface \in Interface \ {"display", "registry"}
        <3>1. m.op \in Requests(m.iface) /\ m.id = None
            BY <1>4, <1>9 DEF LegalUp
        <3>2. QED
            BY <1>2, <3>1, Tables DEF Message, Fields
    <2>2. m.obj \in ClientId \cup ServerId
        BY <1>4, <2>1 DEF LegalUp, Ids
    <2>3. \A y : Kills(m, y) <=> m.op = "destroy" /\ m.obj = y
        BY DEF Kills
    <2>4. /\ \A y \in Ids : y # m.obj => theirs'[y] = theirs[y]
          /\ IF m.op = "destroy" THEN theirs'[m.obj] = None ELSE theirs'[m.obj] = theirs[m.obj]
        BY <1>1, <1>6, <1>9, <2>1
    <2>5. Legal'
        <3>1. ASSUME m.op = "destroy", m.obj \in ClientId PROVE LegalDown(DeleteId(m.obj))
            <4> DEFINE d == DeleteId(m.obj)
            <4>1. /\ d.obj = "display" /\ d.iface = "display" /\ d.op = "delete_id"
                  /\ d.id = m.obj /\ d.fds = <<>>
                BY DEF DeleteId, Plain
            <4>2. "display" \notin ServerId /\ "delete_id" \notin WithFd /\ Len(<<>>) = 0
                BY RelayAssumption, EmptySeq DEF WithFd
            <4> HIDE DEF d
            <4>3. LegalDown(d)
                BY <3>1, <4>1, <4>2 DEF LegalDown
            <4>4. QED
                BY <4>3 DEF d
        <3>2. CASE m.op = "destroy" /\ m.obj \in ClientId
            <4>1. \A k \in 1..Len(Down') : LegalDown(Down'[k])
                <5>1. Grown(Down, DeleteId(m.obj), Down')
                    BY <1>2, <3>2
                <5>2. QED
                    BY <3>1, <3>2, <5>1, LegalGrown DEF Lives, Legal
            <4>2. QED
                BY <1>1, <1>2, <4>1, LegalCut DEF Lives, Legal
        <3>3. CASE ~(m.op = "destroy" /\ m.obj \in ClientId)
            BY <1>1, <1>2, <3>3, LegalCut DEF Lives, Legal
        <3>4. QED
            BY <3>2, <3>3
    <2>6. Roots'
        BY <1>5, <1>7, <2>2, <2>4, RelayAssumption DEF Lives, Roots
    <2>7. ASSUME NEW y \in Ids, y \notin {"display", "registry"}, ~(m.obj = y /\ m.op = "destroy")
          PROVE  Quiet(Down, Down', y) /\ theirs'[y] = theirs[y]
        <3>1. theirs'[y] = theirs[y]
            BY <2>4, <2>7
        <3>2. CASE m.op = "destroy" /\ m.obj \in ClientId
            <4> DEFINE d == DeleteId(m.obj)
            <4>1. d.id # y /\ d.obj # y
                BY <2>7, <3>2 DEF DeleteId, Plain
            <4> HIDE DEF d
            <4>2. Grown(Down, d, Down')
                BY <1>2, <3>2 DEF d
            <4>3. QED
                BY <3>1, <4>1, <4>2 DEF Quiet
        <3>3. CASE ~(m.op = "destroy" /\ m.obj \in ClientId)
            BY <1>2, <3>1, <3>3 DEF Quiet
        <3>4. QED
            BY <3>2, <3>3
    <2>8. ASSUME NEW y \in ClientId PROVE ClientLife(y)'
        <3>1. ClientLife(y) /\ y \in Ids /\ y \notin {"display", "registry"} /\ y # None
            BY RelayAssumption DEF Lives, Ids
        <3>2. CASE m.obj = y /\ m.op = "destroy"
            <4>1. Kills(Up[1], y) /\ Grown(Down, DeleteId(y), Down') /\ theirs'[y] = None
                BY <1>2, <2>3, <2>4, <3>2
            <4>2. QED
                BY <1>2, <1>5, <3>1, <4>1, ClientEnds
        <3>3. CASE ~(m.obj = y /\ m.op = "destroy")
            <4>1. ~Kills(Up[1], y) /\ Up[1].id # y
                BY <1>2, <2>1, <2>3, <3>1, <3>3
            <4>2. NoId(Wait', y) => NoId(Wait, y)
                BY <1>2
            <4>3. QED
                BY <1>2, <1>5, <2>7, <3>1, <3>3, <4>1, <4>2, ClientServed
        <3>4. QED
            BY <3>2, <3>3
    <2>9. ASSUME NEW y \in ServerId PROVE ServerLife(y)'
        <3>1. ServerLife(y) /\ y \in Ids /\ y \notin {"display", "registry"} /\ y \notin ClientId
            BY RelayAssumption DEF Lives, Ids
        <3>2. CASE m.obj = y /\ m.op = "destroy"
            <4>1. Kills(Up[1], y) /\ Down' = Down /\ theirs'[y] = None
                BY <1>2, <2>3, <2>4, <3>1, <3>2
            <4>2. QED
                BY <1>1, <1>2, <1>5, <3>1, <4>1, ServerEnds
        <3>3. CASE ~(m.obj = y /\ m.op = "destroy")
            <4>1. ~Kills(Up[1], y)
                BY <1>2, <2>3, <3>3
            <4>2. QED
                BY <1>2, <1>5, <2>7, <3>1, <3>3, <4>1, ServerServed
        <3>4. QED
            BY <3>2, <3>3
    <2>10. QED
        BY <2>5, <2>6, <2>8, <2>9 DEF Lives
<1>10. QED
    BY <1>8, <1>9

-----------------------------------------------------------------------------
(* The descriptors of a run of messages.                                    *)
FdsIn == [m \in Message |-> m.fds]

LEMMA FdsOfMaps ==
    /\ FdsIn \in [Message -> Seq(Fd)]
    /\ \A ms \in Seq(Message) : FdsOf(ms) = FlatMap(FdsIn, ms)
<1>1. FdsIn \in [Message -> Seq(Fd)]
    BY DEF FdsIn, Message, Fields
<1>2. ASSUME NEW ms \in Seq(Message) PROVE FdsOf(ms) = FlatMap(FdsIn, ms)
    <2>1. \A k \in DOMAIN ms : FdsIn[ms[k]] = ms[k].fds
        <3>1. \A k \in DOMAIN ms : ms[k] \in Message
            BY ElementOfSeq, LenProperties
        <3>2. QED
            BY <3>1 DEF FdsIn
    <2>2. [k \in DOMAIN ms |-> FdsIn[ms[k]]] = [k \in DOMAIN ms |-> ms[k].fds]
        BY <2>1
    <2>3. QED
        BY <2>2, Zenon DEF FdsOf, FlatMap
<1>3. QED
    BY <1>1, <1>2

LEMMA FdsOfTyped == ASSUME NEW ms \in Seq(Message) PROVE FdsOf(ms) \in Seq(Fd)
BY FdsOfMaps, FlatMapTyped

LEMMA FdsOfEmpty == FdsOf(<<>>) = <<>>
<1>1. <<>> \in Seq(Message)
    BY EmptySeq
<1>2. QED
    BY <1>1, FdsOfMaps, FlatMapEmpty, Zenon

LEMMA FdsOfConcat ==
    ASSUME NEW a \in Seq(Message), NEW b \in Seq(Message)
    PROVE  FdsOf(a \o b) = FdsOf(a) \o FdsOf(b)
<1>1. a \o b \in Seq(Message)
    BY ConcatProperties
<1>2. FlatMap(FdsIn, a \o b) = FlatMap(FdsIn, a) \o FlatMap(FdsIn, b)
    <2>1. FdsIn \in [Message -> Seq(Fd)]
        BY FdsOfMaps
    <2>2. QED
        BY <2>1, FlatMapConcat
<1>3. QED
    BY <1>1, <1>2, FdsOfMaps, Zenon

LEMMA FdsOfOne == ASSUME NEW m \in Message PROVE FdsOf(<<m>>) = m.fds
<1>1. <<m>> \in Seq(Message)
    OBVIOUS
<1>2. FlatMap(FdsIn, <<m>>) = FdsIn[m]
    <2>1. FdsIn \in [Message -> Seq(Fd)]
        BY FdsOfMaps
    <2>2. QED
        BY <2>1, FlatMapOne
<1>3. QED
    BY <1>1, <1>2, FdsOfMaps, Zenon DEF FdsIn

LEMMA FdsOfAppend ==
    ASSUME NEW a \in Seq(Message), NEW m \in Message
    PROVE  FdsOf(Append(a, m)) = FdsOf(a) \o m.fds
<1>1. <<m>> \in Seq(Message) /\ Append(a, m) = a \o <<m>>
    BY AppendIsConcat
<1>2. QED
    BY <1>1, FdsOfConcat, FdsOfOne, Zenon

LEMMA FdsOfFirst ==
    ASSUME NEW a \in Seq(Message), a # <<>>
    PROVE  /\ Head(a) \in Message /\ Tail(a) \in Seq(Message)
           /\ FdsOf(a) = Head(a).fds \o FdsOf(Tail(a))
<1>1. Head(a) \in Message /\ Tail(a) \in Seq(Message) /\ a = <<Head(a)>> \o Tail(a)
    BY HeadTailProperties, HeadThenTail
<1> DEFINE m == Head(a)
           b == Tail(a)
<1>2. m \in Message /\ b \in Seq(Message) /\ a = <<m>> \o b
    BY <1>1
<1> HIDE DEF m, b
<1>3. <<m>> \in Seq(Message)
    BY <1>2
<1>4. FdsOf(<<m>> \o b) = m.fds \o FdsOf(b)
    BY <1>2, <1>3, FdsOfConcat, FdsOfOne, Zenon
<1>5. QED
    BY <1>2, <1>4, Zenon DEF m, b

-----------------------------------------------------------------------------
(* The descriptors of the next message are there, and come first.           *)
LEMMA FdsReady ==
    ASSUME Typed, FdsFollow, Covered, ~done, NEW s \in Sides, leg[s].msgs # <<>>,
           NEW m, m = Head(leg[s].msgs)
    PROVE  /\ m \in Message /\ m.fds \in Seq(Fd) /\ Len(m.fds) \in 0..Len(leg[s].fds)
           /\ SubSeq(leg[s].fds, 1, Len(m.fds)) = m.fds
           /\ SubSeq(leg[s].fds, Len(m.fds) + 1, Len(leg[s].fds)) \o from[s].fds
                = FdsOf(Tail(leg[s].msgs) \o from[s].msgs)
<1> DEFINE a == leg[s].msgs
           b == from[s].msgs
           l == leg[s].fds
           f == from[s].fds
<1>1. a \in Seq(Message) /\ b \in Seq(Message) /\ l \in Seq(Fd) /\ f \in Seq(Fd)
    BY QueuesTyped
<1>2. l \o f = FdsOf(a \o b) /\ Len(f) <= Len(FdsOf(b))
    BY Zenon DEF FdsFollow, Covered, Held
<1> HIDE DEF a, b, l, f
<1>3. m \in Message /\ m.fds \in Seq(Fd)
    BY <1>1, FdsOfFirst DEF a, Message, Fields
<1> DEFINE t == Tail(a)
           w == FdsOf(t \o b)
<1>4. t \in Seq(Message) /\ t \o b \in Seq(Message) /\ w \in Seq(Fd)
    <2>1. t \in Seq(Message)
        BY <1>1, FdsOfFirst DEF a
    <2>2. QED
        BY <1>1, <2>1, ConcatProperties, FdsOfTyped, Zenon
<1>5. FdsOf(a \o b) = m.fds \o w
    <2>1. FdsOf(a) = m.fds \o FdsOf(t)
        BY <1>1, FdsOfFirst, Zenon DEF a
    <2>2. FdsOf(a \o b) = FdsOf(a) \o FdsOf(b)
        BY <1>1, FdsOfConcat
    <2> HIDE DEF t
    <2>3. w = FdsOf(t) \o FdsOf(b)
        BY <1>1, <1>4, FdsOfConcat, Zenon
    <2>4. FdsOf(t) \in Seq(Fd) /\ FdsOf(b) \in Seq(Fd)
        BY <1>1, <1>4, FdsOfTyped
    <2> DEFINE c == m.fds
               d == FdsOf(t)
               e == FdsOf(b)
    <2>5. c \in Seq(Fd) /\ d \in Seq(Fd) /\ e \in Seq(Fd)
        BY <1>3, <2>4
    <2> HIDE DEF w, c, d, e
    <2>6. (c \o d) \o e = c \o (d \o e)
        BY <2>5, ConcatAssociative
    <2>7. QED
        BY <2>1, <2>2, <2>3, <2>6, Zenon DEF c, d, e
<1>6. Len(f) <= Len(w)
    <2> HIDE DEF t
    <2>1. w = FdsOf(t) \o FdsOf(b) /\ FdsOf(t) \in Seq(Fd) /\ FdsOf(b) \in Seq(Fd)
        BY <1>1, <1>4, FdsOfConcat, FdsOfTyped, Zenon
    <2> HIDE DEF w
    <2>2. Len(w) = Len(FdsOf(t)) + Len(FdsOf(b)) /\ Len(FdsOf(t)) \in Nat /\ Len(FdsOf(b)) \in Nat
        BY <2>1, ConcatProperties, LenProperties
    <2>3. QED
        BY <1>1, <1>2, <2>2, LenProperties
<1> HIDE DEF w
<1> DEFINE x == m.fds
<1>7. x \in Seq(Fd) /\ l \o f = x \o w
    BY <1>2, <1>3, <1>5
<1> HIDE DEF x
<1>8. /\ Len(x) \in 0..Len(l) /\ SubSeq(l, 1, Len(x)) = x
      /\ SubSeq(l, Len(x) + 1, Len(l)) \o f = w
    <2>1. x \in Seq(Fd) /\ w \in Seq(Fd) /\ l \in Seq(Fd) /\ f \in Seq(Fd) /\ l \o f = x \o w
          /\ Len(f) <= Len(w)
        BY <1>1, <1>4, <1>6, <1>7
    <2>2. Len(x) \in 0..Len(l)
        BY <2>1, InFirst
    <2>3. SubSeq(l, 1, Len(x)) = x
        BY <2>1, <2>2, FirstInL
    <2>4. SubSeq(l, Len(x) + 1, Len(l)) \o f = w
        BY <2>1, <2>2, FirstInL, Zenon
    <2>5. QED
        BY <2>2, <2>3, <2>4, Zenon
<1>9. QED
    BY <1>3, <1>8, Zenon DEF x, w, t, a, b, l, f

LEMMA PutParts ==
    ASSUME NEW q, NEW m
    PROVE  Put(q, m).msgs = Append(q.msgs, m) /\ Put(q, m).fds = q.fds \o m.fds
BY Zenon DEF Put

(* A message joins a queue, with its descriptors.                           *)
LEMMA PutFollows ==
    ASSUME NEW q \in Queue, NEW c \in Message
    PROVE  /\ q.fds = FdsOf(q.msgs) => Put(q, c).fds = FdsOf(Put(q, c).msgs)
           /\ Len(q.fds) <= Len(FdsOf(q.msgs)) => Len(Put(q, c).fds) <= Len(FdsOf(Put(q, c).msgs))
<1> DEFINE a == q.msgs
           b == q.fds
           x == c.fds
<1>1. a \in Seq(Message) /\ b \in Seq(Fd) /\ x \in Seq(Fd)
    BY DEF Queue, Message, Fields
<1>2. Put(q, c).fds = b \o x /\ Put(q, c).msgs = Append(a, c)
    BY Zenon DEF Put
<1>3. FdsOf(Append(a, c)) = FdsOf(a) \o x /\ FdsOf(a) \in Seq(Fd)
    BY <1>1, FdsOfAppend, FdsOfTyped, Zenon
<1> HIDE DEF a, b, x
<1>4. Len(b \o x) = Len(b) + Len(x) /\ Len(FdsOf(a) \o x) = Len(FdsOf(a)) + Len(x)
      /\ Len(b) \in Nat /\ Len(x) \in Nat /\ Len(FdsOf(a)) \in Nat
    <2> DEFINE y == FdsOf(a)
    <2>1. y \in Seq(Fd)
        BY <1>3
    <2> HIDE DEF y
    <2>2. Len(b \o x) = Len(b) + Len(x) /\ Len(y \o x) = Len(y) + Len(x)
          /\ Len(b) \in Nat /\ Len(x) \in Nat /\ Len(y) \in Nat
        BY <1>1, <2>1, ConcatProperties, LenProperties
    <2>3. QED
        BY <2>2 DEF y
<1>5. b = FdsOf(a) => b \o x = FdsOf(Append(a, c))
    BY <1>3
<1>6. Len(b) <= Len(FdsOf(a)) => Len(b \o x) <= Len(FdsOf(Append(a, c)))
    BY <1>3, <1>4
<1>7. QED
    BY <1>2, <1>5, <1>6 DEF a, b

(* A peer s writes c.                                                       *)
LEMMA WriteFollows ==
    ASSUME Typed, FdsFollow, Covered, ~done, NEW s \in Sides, NEW c \in Message,
           from'[s] = Put(from[s], c), \A p \in Sides \ {s} : from'[p] = from[p],
           UNCHANGED <<leg, done>>
    PROVE  /\ Covered'
           /\ \A p \in Sides : Held(p)'.fds = FdsOf(Held(p)'.msgs)
<1>1. \A p \in Sides : from[p] \in Queue /\ Len(from[p].fds) <= Len(FdsOf(from[p].msgs))
    BY QueuesTyped DEF Covered
<1>2. Len(from'[s].fds) <= Len(FdsOf(from'[s].msgs))
    BY <1>1, PutFollows
<1>3. Covered'
    BY <1>1, <1>2 DEF Covered
<1>4. \A p \in Sides : Held(p).fds = FdsOf(Held(p).msgs)
    BY DEF FdsFollow
<1>5. Held(s)'.fds = FdsOf(Held(s)'.msgs)
    <2> DEFINE a == leg[s].msgs
               b == from[s].msgs
               l == leg[s].fds
               f == from[s].fds
               x == c.fds
    <2>1. a \in Seq(Message) /\ b \in Seq(Message) /\ l \in Seq(Fd) /\ f \in Seq(Fd) /\ x \in Seq(Fd)
        BY QueuesTyped, Zenon DEF Message, Fields
    <2>a. from'[s].msgs = Append(b, c)
        BY DEF Put
    <2>b. from'[s].fds = f \o x
        BY PutParts, Zenon
    <2>2. from'[s].msgs = Append(b, c) /\ from'[s].fds = f \o x /\ leg'[s] = leg[s]
        BY <2>a, <2>b
    <2>3. Held(s)'.msgs = a \o Append(b, c) /\ Held(s)'.fds = l \o (f \o x)
        <3>1. Held(s)'.msgs = leg'[s].msgs \o from'[s].msgs /\ Held(s)'.fds = leg'[s].fds \o from'[s].fds
            BY Zenon DEF Held
        <3>2. QED
            BY <2>2, <3>1, Zenon
    <2>4. l \o f = FdsOf(a \o b)
        BY <1>4, Zenon DEF Held
    <2> HIDE DEF a, b, l, f, x
    <2>5. a \o Append(b, c) = Append(a \o b, c) /\ a \o b \in Seq(Message)
        BY <2>1, AppendToSecond, ConcatProperties
    <2> DEFINE d == a \o b
    <2> HIDE DEF d
    <2>6. FdsOf(Append(d, c)) = FdsOf(d) \o x
        BY <2>5, FdsOfAppend, Zenon DEF d, x
    <2>7. l \o (f \o x) = (l \o f) \o x
        BY <2>1, ConcatAssociative
    <2>8. QED
        BY <2>3, <2>4, <2>5, <2>6, <2>7 DEF d
<1>6. \A p \in Sides \ {s} : Held(p)' = Held(p)
    BY Zenon DEF Held
<1>7. QED
    BY <1>3, <1>4, <1>5, <1>6

LEMMA DeleteIdTyped == ASSUME NEW x \in Ids PROVE DeleteId(x) \in Message
<1>1. Plain("display", "display", "delete_id") \in Message
    BY PlainTyped DEF Ids, Interface, Known, Op
<1>2. QED
    BY <1>1, Zenon DEF DeleteId, Message, Fields, Plain

(* A queue loses its first message, and its descriptors with it.            *)
LEMMA TakeFollows ==
    ASSUME NEW q \in Queue, q.msgs # <<>>, q.fds = FdsOf(q.msgs), NEW n,
           n = IF Len(Head(q.msgs).fds) <= Len(q.fds) THEN Len(Head(q.msgs).fds) ELSE Len(q.fds)
    PROVE  SubSeq(q.fds, n + 1, Len(q.fds)) = FdsOf(Tail(q.msgs))
<1> DEFINE a == q.msgs
           x == Head(a).fds
           w == FdsOf(Tail(a))
<1>1. a \in Seq(Message) /\ Head(a) \in Message /\ Tail(a) \in Seq(Message) /\ FdsOf(a) = x \o w
    <2>1. a \in Seq(Message)
        BY DEF Queue
    <2>2. QED
        BY <2>1, FdsOfFirst, Zenon
<1>2. x \in Seq(Fd) /\ w \in Seq(Fd)
    BY <1>1, FdsOfTyped, Zenon DEF Message, Fields
<1> HIDE DEF x, w
<1>3. /\ Len(x) \in 0..Len(x \o w)
      /\ SubSeq(x \o w, Len(x) + 1, Len(x \o w)) = w
    BY <1>2, SplitAt
<1>4. n = Len(x)
    <2>1. Len(x) <= Len(q.fds)
        BY <1>1, <1>3
    <2>2. QED
        BY <2>1 DEF x
<1>5. QED
    BY <1>1, <1>3, <1>4, Zenon DEF w

-----------------------------------------------------------------------------
(* What pump does with the next request, and the next event.                *)
LEMMA Taken ==
    ASSUME Typed, FdsFollow, Covered, ~done, NEW s \in Sides, Pump(s),
           NEW m, m = Head(leg[s].msgs), NEW i, i = ids[s][m.obj],
           FdCount(i, m, s = "upstream") = Len(m.fds)
    PROVE  /\ \A d \in Sides : ids'[d] = Learned(s, d, i, m)
           /\ s = "client" => Forward(Across(s), m, m.fds, Len(m.fds))
           /\ s = "upstream" =>
                /\ Listed(i, m, TRUE) /\ Dropped(i, m) => to' = to
                /\ Listed(i, m, TRUE) /\ ~Dropped(i, m) =>
                     Forward(Across(s), Spoofed(i, m), m.fds, Len(m.fds))
                /\ ~Listed(i, m, TRUE) => Forward(Across(s), m, m.fds, Len(m.fds))
           /\ leg'[s].fds = SubSeq(leg[s].fds, Len(m.fds) + 1, Len(leg[s].fds))
<1>1. leg[s].msgs # <<>> /\ leg \in [Sides -> Queue]
    BY Zenon DEF Pump, Typed, RelayTyped
<1>2. /\ Len(m.fds) \in 0..Len(leg[s].fds) /\ SubSeq(leg[s].fds, 1, Len(m.fds)) = m.fds
      /\ leg[s].fds \in Seq(Fd)
    BY <1>1, FdsReady, QueuesTyped, Zenon
<1>3. Len(m.fds) <= Len(leg[s].fds)
    BY <1>2, LenProperties
<1>4. SubSeq(leg[s].fds, 1, IF Len(m.fds) <= Len(leg[s].fds) THEN Len(m.fds) ELSE 0) = m.fds
    BY <1>2, <1>3
<1> DEFINE isEvent == s = "upstream"
<1>5. /\ \A d \in Sides : ids'[d] = Learned(s, d, i, m)
      /\ leg'[s].fds = SubSeq(leg[s].fds, Len(m.fds) + 1, Len(leg[s].fds))
    BY <1>1, <1>4, Zenon DEF Pump
<1>6. IF isEvent /\ Listed(i, m, isEvent) /\ Dropped(i, m)
      THEN to' = to
      ELSE Forward(Across(s), IF isEvent /\ Listed(i, m, isEvent) THEN Spoofed(i, m) ELSE m,
                   m.fds, Len(m.fds))
    BY <1>4, Zenon DEF Pump
<1>7. CASE s = "client"
    <2>1. isEvent = FALSE
        BY <1>7
    <2>2. QED
        BY <1>5, <1>6, <1>7, <2>1
<1>8. CASE s = "upstream"
    <2>1. isEvent = TRUE
        BY <1>8
    <2>2. QED
        BY <1>5, <1>6, <1>8, <2>1, Zenon
<1>9. QED
    BY <1>7, <1>8, Zenon DEF Sides

LEMMA Forwards ==
    ASSUME Typed, NEW s \in Sides, NEW m, NEW fds, fds = m.fds, Len(fds) \in Nat,
           Forward(s, m, fds, Len(fds))
    PROVE  /\ to'[s] = IF s \in open THEN Put(to[s], m) ELSE to[s]
           /\ \A p \in Sides \ {s} : to'[p] = to[p]
<1>1. ~(Len(fds) < Len(fds)) /\ to \in [Sides -> Queue]
    BY DEF Typed, SocketsTyped
<1>2. CASE s \in open
    BY <1>1, <1>2, Zenon DEF Forward, Put
<1>3. CASE s \notin open
    BY <1>3 DEF Forward
<1>4. QED
    BY <1>2, <1>3

LEMMA RequestPasses ==
    ASSUME Typed, Lives, SameMaps, FdsFollow, Covered, ~done, Pump("client"),
           NEW m, m = Head(leg["client"].msgs)
    PROVE  /\ m \in Message /\ LegalUp(m)
           /\ \A d \in Sides : ids'[d] =
                IF m.op = "make" THEN [Map EXCEPT ![m.id] = Kn(m.type)] ELSE Map
           /\ to'["upstream"] = IF "upstream" \in open THEN Put(to["upstream"], m)
                                ELSE to["upstream"]
           /\ to'["client"] = to["client"]
           /\ leg'["client"].fds = SubSeq(leg["client"].fds, Len(m.fds) + 1, Len(leg["client"].fds))
<1>1. m = Wait[1] /\ Wait # <<>>
    BY RequestPumped
<1>2. /\ m \in Message /\ LegalUp(m)
      /\ IF m.iface \in Known THEN Map[m.obj] = m.iface
         ELSE Map[m.obj] = None \/ (m.obj \in ServerId /\ Map[m.obj] = "offer")
    BY <1>1, RequestKnown
<1>3. /\ ("client" = "upstream") = FALSE /\ Across("client") = "upstream"
      /\ "client" \in Sides /\ "upstream" \in Sides
    BY DEF Across, Sides
<1> DEFINE i == ids["client"][m.obj]
<1>4. /\ FdCount(i, m, FALSE) = Len(m.fds)
      /\ \A d \in Sides : Learned("client", d, i, m) =
                IF m.op = "make" THEN [Map EXCEPT ![m.id] = Kn(m.type)] ELSE Map
    BY <1>2, RequestRead, Zenon
<1>5. i = ids["client"][m.obj]
    OBVIOUS
<1> HIDE DEF i
<1>6. \A d \in Sides : ids'[d] = Learned("client", d, i, m)
    BY <1>5, Zenon DEF Pump
<1>7. Forward(Across("client"), m, m.fds, Len(m.fds))
    BY <1>3, <1>4, <1>5, Taken, Zenon
<1>8. leg'["client"].fds = SubSeq(leg["client"].fds, Len(m.fds) + 1, Len(leg["client"].fds))
    BY <1>3, <1>4, <1>5, Taken, Zenon
<1>9. /\ to'["upstream"] = IF "upstream" \in open THEN Put(to["upstream"], m) ELSE to["upstream"]
      /\ to'["client"] = to["client"]
    <2>1. Len(m.fds) \in Nat
        BY <1>2, LenProperties DEF Message, Fields
    <2>2. "client" \in Sides \ {"upstream"}
        BY DEF Sides
    <2>3. QED
        BY <1>3, <1>7, <2>1, <2>2, Forwards
<1>10. \A d \in Sides : ids'[d] =
         IF m.op = "make" THEN [Map EXCEPT ![m.id] = Kn(m.type)] ELSE Map
    BY <1>4, <1>6, Zenon
<1>11. QED
    BY <1>2, <1>8, <1>9, <1>10, Zenon

LEMMA EventPasses ==
    ASSUME Typed, Lives, SameMaps, FdsFollow, Covered, ~done, Pump("upstream"),
           NEW m, m = Head(leg["upstream"].msgs)
    PROVE  /\ m \in Message /\ LegalDown(m)
           /\ \A d \in Sides : ids'[d] =
                IF m.op = "make" /\ m.type \in Known THEN [Map EXCEPT ![m.id] = m.type]
                ELSE IF m.op = "delete_id" THEN [Map EXCEPT ![m.id] = None]
                ELSE Map
           /\ to'["client"] = IF "client" \in open /\ ~Dropped(m.iface, m)
                              THEN Put(to["client"], Spoofed(m.iface, m)) ELSE to["client"]
           /\ to'["upstream"] = to["upstream"]
           /\ leg'["upstream"].fds = SubSeq(leg["upstream"].fds, Len(m.fds) + 1, Len(leg["upstream"].fds))
<1>1. m = Down[1] /\ Down # <<>>
    BY EventPumped
<1>2. /\ m \in Message /\ LegalDown(m)
      /\ m.iface \in Known => Map[m.obj] = m.iface
      /\ m.iface \notin Known => Map[m.obj] = None
    BY <1>1, EventKnown
<1>3. /\ ("upstream" = "upstream") = TRUE /\ Across("upstream") = "client"
      /\ "client" \in Sides /\ "upstream" \in Sides
    BY DEF Across, Sides
<1> DEFINE i == ids["upstream"][m.obj]
<1>4. /\ FdCount(i, m, TRUE) = Len(m.fds)
      /\ Listed(i, m, TRUE) /\ Dropped(i, m) <=> Dropped(m.iface, m)
      /\ (IF Listed(i, m, TRUE) THEN Spoofed(i, m) ELSE m) = Spoofed(m.iface, m)
      /\ \A d \in Sides : Learned("upstream", d, i, m) =
                IF m.op = "make" /\ m.type \in Known THEN [Map EXCEPT ![m.id] = m.type]
                ELSE IF m.op = "delete_id" THEN [Map EXCEPT ![m.id] = None]
                ELSE Map
    BY <1>2, EventRead, Zenon
<1>5. i = ids["upstream"][m.obj]
    OBVIOUS
<1> HIDE DEF i
<1>a. FdCount(i, m, "upstream" = "upstream") = Len(m.fds)
    BY <1>3, <1>4, Zenon
<1>6. \A d \in Sides : ids'[d] = Learned("upstream", d, i, m)
    BY <1>5 DEF Pump
<1>b. Listed(i, m, TRUE) /\ Dropped(i, m) => to' = to
    BY <1>3, <1>a, <1>5, Taken, Zenon
<1>c. Listed(i, m, TRUE) /\ ~Dropped(i, m) =>
        Forward(Across("upstream"), Spoofed(i, m), m.fds, Len(m.fds))
    BY <1>3, <1>a, <1>5, Taken, Zenon
<1>d. ~Listed(i, m, TRUE) => Forward(Across("upstream"), m, m.fds, Len(m.fds))
    BY <1>3, <1>a, <1>5, Taken, Zenon
<1>7. /\ Listed(i, m, TRUE) /\ Dropped(i, m) => to' = to
      /\ Listed(i, m, TRUE) /\ ~Dropped(i, m) =>
           Forward(Across("upstream"), Spoofed(i, m), m.fds, Len(m.fds))
      /\ ~Listed(i, m, TRUE) => Forward(Across("upstream"), m, m.fds, Len(m.fds))
    BY <1>b, <1>c, <1>d, Zenon
<1>8. leg'["upstream"].fds = SubSeq(leg["upstream"].fds, Len(m.fds) + 1, Len(leg["upstream"].fds))
    BY <1>3, <1>a, <1>5, Taken, Zenon
<1> DEFINE e == Spoofed(m.iface, m)
<1>9. e.fds = m.fds
    BY <1>2 DEF Spoofed, Message, Fields
<1> HIDE DEF e
<1>10. IF Dropped(m.iface, m) THEN to' = to ELSE Forward("client", e, m.fds, Len(m.fds))
    <2>1. CASE Listed(i, m, TRUE)
        <3>1. Spoofed(i, m) = e /\ (Dropped(i, m) <=> Dropped(m.iface, m))
            BY <1>4, <2>1, Zenon DEF e
        <3>2. QED
            BY <1>3, <1>7, <2>1, <3>1, Zenon
    <2>2. CASE ~Listed(i, m, TRUE)
        <3>1. m = e /\ ~Dropped(m.iface, m)
            BY <1>4, <2>2, Zenon DEF e
        <3>2. Forward("client", m, m.fds, Len(m.fds))
            BY <1>3, <1>7, <2>2
        <3>3. QED
            BY <3>1, <3>2
    <2>3. QED
        BY <2>1, <2>2, Zenon
<1>11. /\ to'["client"] = IF "client" \in open /\ ~Dropped(m.iface, m)
                          THEN Put(to["client"], e) ELSE to["client"]
       /\ to'["upstream"] = to["upstream"]
    <2>1. Len(m.fds) \in Nat
        BY <1>2, LenProperties DEF Message, Fields
    <2>2. "upstream" \in Sides \ {"client"}
        BY DEF Sides
    <2>3. CASE Dropped(m.iface, m)
        BY <1>10, <2>3
    <2>4. CASE ~Dropped(m.iface, m)
        BY <1>3, <1>9, <1>10, <2>1, <2>2, <2>4, Forwards
    <2>5. QED
        BY <2>3, <2>4
<1>12. \A d \in Sides : ids'[d] =
         IF m.op = "make" /\ m.type \in Known THEN [Map EXCEPT ![m.id] = m.type]
         ELSE IF m.op = "delete_id" THEN [Map EXCEPT ![m.id] = None]
         ELSE Map
    BY <1>4, <1>6, Zenon
<1>13. QED
    BY <1>2, <1>8, <1>11, <1>12, Zenon DEF e

-----------------------------------------------------------------------------
(* The descriptors keep to their messages, step by step.                    *)
Follow == FdsFollow /\ Covered

LEMMA PumpHeldFollows ==
    ASSUME Typed, Follow, ~done, NEW s \in Sides, Pump(s), NEW m, m = Head(leg[s].msgs),
           leg'[s].fds = SubSeq(leg[s].fds, Len(m.fds) + 1, Len(leg[s].fds))
    PROVE  Covered' /\ \A p \in Sides : Held(p)'.fds = FdsOf(Held(p)'.msgs)
<1>1. leg[s].msgs # <<>> /\ from' = from /\ done' = done
    BY Zenon DEF Pump
<1>2. Covered'
    BY <1>1 DEF Follow, Covered
<1>3. leg'[s].msgs = Tail(leg[s].msgs) /\ \A p \in Sides \ {s} : Held(p)' = Held(p)
    BY PumpHeld
<1>4. SubSeq(leg[s].fds, Len(m.fds) + 1, Len(leg[s].fds)) \o from[s].fds
        = FdsOf(Tail(leg[s].msgs) \o from[s].msgs)
    BY <1>1, FdsReady, Zenon DEF Follow
<1>5. Held(s)'.fds = leg'[s].fds \o from'[s].fds /\ Held(s)'.msgs = leg'[s].msgs \o from'[s].msgs
    BY Zenon DEF Held
<1>6. Held(s)'.fds = FdsOf(Held(s)'.msgs)
    <2> DEFINE a == leg'[s].msgs
               b == from[s].msgs
               l == leg'[s].fds
               f == from[s].fds
    <2>1. l \o f = FdsOf(a \o b)
        BY <1>3, <1>4, Zenon
    <2>2. Held(s)'.fds = l \o f /\ Held(s)'.msgs = a \o b
        BY <1>1, <1>5
    <2> HIDE DEF a, b, l, f
    <2>3. QED
        BY <2>1, <2>2
<1>7. \A p \in Sides \ {s} : Held(p)'.fds = FdsOf(Held(p)'.msgs)
    BY <1>3 DEF Follow, FdsFollow
<1>8. QED
    BY <1>2, <1>6, <1>7

LEMMA SpoofedTyped ==
    ASSUME NEW i, NEW m \in Message
    PROVE  /\ Spoofed(i, m) \in Message
           /\ Spoofed(i, m).obj = m.obj /\ Spoofed(i, m).op = m.op /\ Spoofed(i, m).id = m.id
           /\ Spoofed(i, m).type = m.type /\ Spoofed(i, m).iface = m.iface
           /\ Spoofed(i, m).fds = m.fds
BY Zenon DEF Spoofed, Message, Fields

LEMMA ToFollows ==
    ASSUME Typed, Follow, NEW s \in Sides, NEW m \in Message,
           to'[s] = Put(to[s], m) \/ to'[s] = to[s], \A p \in Sides \ {s} : to'[p] = to[p]
    PROVE  \A p \in Sides : to'[p].fds = FdsOf(to'[p].msgs)
<1>1. \A p \in Sides : to[p].fds = FdsOf(to[p].msgs)
    BY DEF Follow, FdsFollow
<1>2. to[s] \in Queue
    BY QueuesTyped
<1>3. Put(to[s], m).fds = FdsOf(Put(to[s], m).msgs)
    BY <1>1, <1>2, PutFollows
<1>4. QED
    BY <1>1, <1>3

LEMMA PumpFollows ==
    ASSUME Typed, Idle, Lives, SameMaps, Follow, NEW s \in Sides, Pump(s)
    PROVE  Follow'
<1>1. ~done
    BY RelayAssumption, Zenon DEF Idle, Pump, Sides
<1>2. CASE s = "client"
    <2>1. PICK m : m = Head(leg["client"].msgs)
        OBVIOUS
    <2>2. /\ m \in Message
          /\ to'["upstream"] = Put(to["upstream"], m) \/ to'["upstream"] = to["upstream"]
          /\ to'["client"] = to["client"]
          /\ leg'["client"].fds = SubSeq(leg["client"].fds, Len(m.fds) + 1, Len(leg["client"].fds))
        BY <1>1, <1>2, <2>1, RequestPasses, Zenon DEF Follow
    <2>3. Covered' /\ \A p \in Sides : Held(p)'.fds = FdsOf(Held(p)'.msgs)
        BY <1>1, <1>2, <2>1, <2>2, PumpHeldFollows, Zenon
    <2>4. \A p \in Sides : to'[p].fds = FdsOf(to'[p].msgs)
        BY <2>2, ToFollows DEF Sides
    <2>5. QED
        BY <2>3, <2>4 DEF Follow, FdsFollow
<1>3. CASE s = "upstream"
    <2>1. PICK m : m = Head(leg["upstream"].msgs)
        OBVIOUS
    <2>2. /\ m \in Message
          /\ \/ to'["client"] = Put(to["client"], Spoofed(m.iface, m))
             \/ to'["client"] = to["client"]
          /\ to'["upstream"] = to["upstream"]
          /\ leg'["upstream"].fds = SubSeq(leg["upstream"].fds, Len(m.fds) + 1, Len(leg["upstream"].fds))
        BY <1>1, <1>3, <2>1, EventPasses, Zenon DEF Follow
    <2>3. Covered' /\ \A p \in Sides : Held(p)'.fds = FdsOf(Held(p)'.msgs)
        BY <1>1, <1>3, <2>1, <2>2, PumpHeldFollows, Zenon
    <2>4. \A p \in Sides : to'[p].fds = FdsOf(to'[p].msgs)
        <3>1. Spoofed(m.iface, m) \in Message
            BY <2>2, SpoofedTyped
        <3>2. QED
            BY <2>2, <3>1, ToFollows DEF Sides
    <2>5. QED
        BY <2>3, <2>4 DEF Follow, FdsFollow
<1>4. QED
    BY <1>2, <1>3 DEF Sides

LEMMA SendFollows ==
    ASSUME Typed, Follow, NEW s \in Sides, NEW m \in Message, Send(s, m), UNCHANGED <<leg, to, done>>
    PROVE  Follow'
<1>1. CASE ~done
    <2> DEFINE c == Carrying(m, <<s, plan[s]>>)
    <2>1. c \in Message /\ from'[s] = Put(from[s], c) /\ \A p \in Sides \ {s} : from'[p] = from[p]
        BY <1>1, SendHeld
    <2> HIDE DEF c
    <2>2. Covered' /\ \A p \in Sides : Held(p)'.fds = FdsOf(Held(p)'.msgs)
        BY <1>1, <2>1, WriteFollows DEF Follow
    <2>3. QED
        BY <2>2 DEF Follow, FdsFollow
<1>2. CASE done
    BY <1>2 DEF Follow, FdsFollow, Covered
<1>3. QED
    BY <1>1, <1>2

LEMMA ReceiveFollows ==
    ASSUME Typed, Follow, NEW s \in Sides, Receive(s)
    PROVE  \A p \in Sides : to'[p].fds = FdsOf(to'[p].msgs)
<1>1. PICK n : n = IF Len(Head(to[s].msgs).fds) <= Len(to[s].fds)
                   THEN Len(Head(to[s].msgs).fds) ELSE Len(to[s].fds)
    OBVIOUS
<1>2. to \in [Sides -> Queue] /\ to[s] \in Queue /\ to[s].msgs # <<>>
    BY DEF Typed, SocketsTyped, Receive
<1>3. to' = [to EXCEPT ![s] = [msgs |-> Tail(to[s].msgs),
                               fds  |-> SubSeq(to[s].fds, n + 1, Len(to[s].fds))]]
    BY <1>1, <1>2 DEF Receive
<1>4. to[s].fds = FdsOf(to[s].msgs)
    BY DEF Follow, FdsFollow
<1>5. SubSeq(to[s].fds, n + 1, Len(to[s].fds)) = FdsOf(Tail(to[s].msgs))
    BY <1>1, <1>2, <1>4, TakeFollows, Zenon
<1>6. to'[s].fds = FdsOf(to'[s].msgs)
    BY <1>2, <1>3, <1>5
<1>7. \A p \in Sides \ {s} : to'[p] = to[p]
    BY <1>2, <1>3
<1>8. QED
    BY <1>6, <1>7 DEF Follow, FdsFollow

LEMMA DeliverFollows == ASSUME Typed, Follow, ClientReceives PROVE Follow'
<1>1. \A p \in Sides : to'[p].fds = FdsOf(to'[p].msgs)
    BY ReceiveFollows DEF ClientReceives, Sides
<1>2. UNCHANGED <<from, leg, done>>
    BY DEF ClientReceives, inner
<1>3. QED
    BY <1>1, <1>2, Zenon DEF Follow, FdsFollow, Covered, Held

LEMMA ServeFollows == ASSUME Typed, Follow, CompositorReceives PROVE Follow'
<1> DEFINE m == Head(Ahead)
<1>1. \A p \in Sides : to'[p].fds = FdsOf(to'[p].msgs)
    BY ReceiveFollows DEF CompositorReceives, Sides
<1>2. UNCHANGED <<leg, done>>
    BY DEF CompositorReceives, inner
<1>3. IF m.op = "destroy" /\ m.obj \in ClientId /\ ~done
      THEN from'["upstream"] = Put(from["upstream"], DeleteId(m.obj)) /\ from'["client"] = from["client"]
      ELSE from' = from
    BY ServedMoves
<1> HIDE DEF m
<1>4. CASE m.op = "destroy" /\ m.obj \in ClientId /\ ~done
    <2>1. DeleteId(m.obj) \in Message
        BY <1>4, DeleteIdTyped DEF Ids
    <2>2. "upstream" \in Sides /\ \A p \in Sides \ {"upstream"} : from'[p] = from[p]
        BY <1>3, <1>4 DEF Sides
    <2>3. Covered' /\ \A p \in Sides : Held(p)'.fds = FdsOf(Held(p)'.msgs)
        BY <1>2, <1>3, <1>4, <2>1, <2>2, WriteFollows DEF Follow
    <2>4. QED
        BY <1>1, <2>3 DEF Follow, FdsFollow
<1>5. CASE ~(m.op = "destroy" /\ m.obj \in ClientId /\ ~done)
    BY <1>1, <1>2, <1>3, <1>5, Zenon DEF Follow, FdsFollow, Covered, Held
<1>6. QED
    BY <1>4, <1>5

LEMMA HangUpFollows == ASSUME Typed, Follow, NEW s \in Sides, HangUp(s) PROVE Follow'
<1>1. /\ to'[s] = Nothing /\ \A p \in Sides \ {s} : to'[p] = to[p]
    BY HungUpMoves
<1>2. Nothing.fds = FdsOf(Nothing.msgs)
    BY FdsOfEmpty DEF Nothing
<1>3. UNCHANGED <<from, leg, done>>
    BY DEF HangUp, inner
<1>4. \A p \in Sides : to'[p].fds = FdsOf(to'[p].msgs)
    BY <1>1, <1>2 DEF Follow, FdsFollow
<1>5. QED
    BY <1>3, <1>4, Zenon DEF Follow, FdsFollow, Covered, Held

LEMMA ReadFollows == ASSUME Typed, Follow, LegRead PROVE Follow'
<1>1. /\ \A p \in Sides : Held(p)'.msgs = Held(p).msgs /\ Held(p)'.fds = Held(p).fds
    BY ReadMoves
<1>2. UNCHANGED <<to, done>> /\ ~done
    BY DEF LegRead
<1>3. FdsFollow'
    BY <1>1, <1>2 DEF Follow, FdsFollow
<1>4. PICK s \in Sides : s = Head(todo)
    BY HeadTailProperties DEF LegRead, Typed, RelayTyped
<1> DEFINE q == from[s]
<1>5. PICK j \in 0..Len(q.msgs), n \in 0..Len(q.fds) :
        /\ Len(q.fds) - n <= Len(FdsOf(SubSeq(q.msgs, j + 1, Len(q.msgs))))
        /\ from' = [from EXCEPT ![s] = [msgs |-> SubSeq(q.msgs, j + 1, Len(q.msgs)),
                                        fds  |-> SubSeq(q.fds, n + 1, Len(q.fds))]]
    BY <1>4, Zenon DEF LegRead, Typed, RelayTyped
<1>6. from \in [Sides -> Queue] /\ q.fds \in Seq(Fd)
    BY QueuesTyped DEF Typed, SocketsTyped
<1>7. /\ from'[s].msgs = SubSeq(q.msgs, j + 1, Len(q.msgs))
      /\ from'[s].fds = SubSeq(q.fds, n + 1, Len(q.fds))
      /\ \A p \in Sides \ {s} : from'[p] = from[p]
    BY <1>5, <1>6, Zenon
<1>8. Len(SubSeq(q.fds, n + 1, Len(q.fds))) = Len(q.fds) - n
    <2> DEFINE f == q.fds
    <2>1. f \in Seq(Fd) /\ n \in 0..Len(f) /\ Len(f) \in Nat
        BY <1>6, LenProperties
    <2> HIDE DEF f
    <2>2. \A i \in (n + 1)..Len(f) : f[i] \in Fd
        BY <2>1, ElementOfSeq
    <2>3. Len(SubSeq(f, n + 1, Len(f))) = IF n + 1 <= Len(f) THEN Len(f) - (n + 1) + 1 ELSE 0
        BY <2>1, <2>2, SubSeqProperties
    <2>4. Len(SubSeq(f, n + 1, Len(f))) = Len(f) - n
        BY <2>1, <2>3
    <2>5. QED
        BY <2>4 DEF f
<1>9. Covered'
    BY <1>2, <1>5, <1>7, <1>8, Zenon DEF Follow, Covered
<1>10. QED
    BY <1>3, <1>9 DEF Follow

-----------------------------------------------------------------------------
(* An event that is not about an id goes on, or arrives.                    *)
Heard(x) ==
    /\ NoId(Seen, x) => NoId(Seen', x)
    /\ Once(Seen, x) => Once(Seen', x)
    /\ \A t : Brings(Seen, x, t) => Brings(Seen', x, t)

LEMMA HeardTail ==
    ASSUME NEW x, Cut(Seen, 1, Seen'), Seen[1].id # x
    PROVE  Heard(x)
<1>1. NoId(Seen, x) => NoId(Seen', x)
    BY CutWords
<1>2. /\ Once(Seen, x) => Once(Seen', x)
      /\ \A t : Brings(Seen, x, t) => Brings(Seen', x, t)
    BY TailIds, Zenon
<1>3. QED
    BY <1>1, <1>2 DEF Heard

LEMMA HeardMore ==
    ASSUME NEW x, NEW m, m.id # x, Seen' = Seen \/ Grown(Seen, m, Seen')
    PROVE  Heard(x)
<1>1. CASE Grown(Seen, m, Seen')
    <2>1. NoId(Seen, x) => NoId(Seen', x)
        BY <1>1, GrownWords
    <2>2. /\ Once(Seen, x) => Once(Seen', x)
          /\ \A t : Brings(Seen, x, t) => Brings(Seen', x, t)
        BY <1>1, GrownIds, Zenon
    <2>3. QED
        BY <2>1, <2>2 DEF Heard
<1>2. CASE Seen' = Seen
    BY <1>2 DEF Heard
<1>3. QED
    BY <1>1, <1>2

LEMMA ClientHeard ==
    ASSUME NEW x, ClientLife(x), Down' = Down \/ (Cut(Down, 1, Down') /\ Down[1].id # x),
           mine'[x] = mine[x], theirs'[x] = theirs[x], Map'[x] = Map[x], open' = open,
           Up' = Up, Wait' = Wait, Heard(x)
    PROVE  ClientLife(x)'
<1>1. /\ NoId(Down, x) => NoId(Down', x)
      /\ NoWord(Down, x) => NoWord(Down', x)
      /\ \A t : As(Down, x, t) => As(Down', x, t)
      /\ FreedLast(Down, x) => FreedLast(Down', x)
    <2>1. CASE Cut(Down, 1, Down') /\ Down[1].id # x
        <3>1. /\ NoId(Down, x) => NoId(Down', x)
              /\ NoWord(Down, x) => NoWord(Down', x)
              /\ \A t : As(Down, x, t) => As(Down', x, t)
            BY <2>1, CutWords, Zenon
        <3>2. FreedLast(Down, x) => FreedLast(Down', x)
            BY <2>1, TailIds
        <3>3. QED
            BY <3>1, <3>2
    <2>2. CASE Down' = Down
        BY <2>2
    <2>3. QED
        BY <2>1, <2>2
<1>2. NoId(Seen, x) => NoId(Seen', x)
    BY DEF Heard
<1>3. Once(Seen, x) => Once(Seen', x)
    BY DEF Heard
<1>4. \A t : Uses(x, t) => Uses(x, t)'
    BY DEF Uses
<1>5. CASE Unborn(x)
    BY <1>1, <1>2, <1>5 DEF ClientLife, Unborn
<1>6. CASE Asked(x)
    BY <1>1, <1>2, <1>4, <1>6 DEF ClientLife, Asked
<1>7. CASE Living(x)
    BY <1>1, <1>2, <1>4, <1>7 DEF ClientLife, Living
<1>8. CASE Freed(x)
    BY <1>1, <1>2, <1>8 DEF ClientLife, Freed
<1>9. CASE Told(x)
    BY <1>1, <1>2, <1>3, <1>9 DEF ClientLife, Told
<1>10. QED
    BY <1>5, <1>6, <1>7, <1>8, <1>9 DEF ClientLife

LEMMA ServerHeard ==
    ASSUME NEW x, ServerLife(x), Down' = Down \/ (Cut(Down, 1, Down') /\ Down[1].id # x),
           mine'[x] = mine[x], theirs'[x] = theirs[x], Map'[x] = Map[x], open' = open,
           Up' = Up, Heard(x)
    PROVE  ServerLife(x)'
<1>1. /\ NoId(Down, x) => NoId(Down', x)
      /\ \A t : Brings(Down, x, t) => Brings(Down', x, t)
    <2>1. CASE Cut(Down, 1, Down') /\ Down[1].id # x
        <3>1. NoId(Down, x) => NoId(Down', x)
            BY <2>1, CutWords
        <3>2. \A t : Brings(Down, x, t) => Brings(Down', x, t)
            BY <2>1, TailIds, Zenon
        <3>3. QED
            BY <3>1, <3>2
    <2>2. CASE Down' = Down
        BY <2>2
    <2>3. QED
        BY <2>1, <2>2
<1>2. /\ NoId(Seen, x) => NoId(Seen', x)
      /\ \A t : Brings(Seen, x, t) => Brings(Seen', x, t)
    BY DEF Heard
<1>3. CASE Free(x)
    BY <1>1, <1>2, <1>3 DEF ServerLife, Free
<1>4. CASE theirs[x] \in {"offer", "tool"} /\ Offered(x)
    BY <1>1, <1>2, <1>4 DEF ServerLife, Offered, Fits
<1>5. CASE theirs[x] \in {"offer", "tool"} /\ Used(x)
    BY <1>1, <1>2, <1>5 DEF ServerLife, Used, Fits
<1>6. QED
    BY <1>3, <1>4, <1>5 DEF ServerLife

(* What a message that reaches the client or the relay is about.            *)
LEMMA FirstBrings ==
    ASSUME NEW q, NEW r, NEW x, NEW t, Cut(q, 1, r), q[1].id = x, Brings(q, x, t)
    PROVE  NoId(r, x) /\ q[1].type = t
<1>1. PICK j \in 1..Len(q) : OnlyId(q, x, j) /\ q[j].type = t
    BY DEF Brings
<1>2. 1 \in 1..Len(q) /\ \A k \in 1..Len(r) : k + 1 \in 1..Len(q) /\ k + 1 # 1 /\ r[k] = q[k + 1]
    BY DEF Cut
<1>3. j = 1
    BY <1>1, <1>2 DEF OnlyId
<1>4. NoId(r, x)
    BY <1>1, <1>2, <1>3 DEF OnlyId, NoId
<1>5. QED
    BY <1>1, <1>3, <1>4

LEMMA FirstOnce ==
    ASSUME NEW q, NEW r, NEW x, Cut(q, 1, r), q[1].id = x
    PROVE  /\ ~NoId(q, x)
           /\ Once(q, x) => NoId(r, x)
           /\ FreedLast(q, x) => NoId(r, x) /\ NoWord(r, x)
<1>1. 1 \in 1..Len(q) /\ \A k \in 1..Len(r) : k + 1 \in 1..Len(q) /\ k + 1 # 1 /\ r[k] = q[k + 1]
    BY DEF Cut
<1>2. ~NoId(q, x)
    BY <1>1 DEF NoId
<1>3. ASSUME Once(q, x) PROVE NoId(r, x)
    <2>1. PICK j \in 1..Len(q) : OnlyId(q, x, j)
        BY <1>3 DEF Once
    <2>2. j = 1
        BY <1>1, <2>1 DEF OnlyId
    <2>3. QED
        BY <1>1, <2>1, <2>2 DEF OnlyId, NoId
<1>4. ASSUME FreedLast(q, x) PROVE NoId(r, x) /\ NoWord(r, x)
    <2>1. PICK j \in 1..Len(q) : OnlyId(q, x, j) /\ \A k \in j..Len(q) : q[k].obj # x
        BY <1>4 DEF FreedLast
    <2>2. j = 1
        BY <1>1, <2>1 DEF OnlyId
    <2>3. QED
        BY <1>1, <2>1, <2>2 DEF OnlyId, NoId, NoWord
<1>5. QED
    BY <1>2, <1>3, <1>4

LEMMA DeliversLives ==
    ASSUME Typed, Lives, ~done, ClientReceives
    PROVE  Lives'
<1> DEFINE m == Head(Seen)
<1>1. /\ mine' = CASE m.op = "make" -> [mine EXCEPT ![m.id] = m.type]
                   [] m.op = "delete_id" -> [mine EXCEPT ![m.id] = None]
                   [] OTHER -> mine
      /\ offered' = IF m.op = "global" THEN offered \cup {m.type} ELSE offered
      /\ UNCHANGED <<theirs, ids, open, done>> /\ "client" \in open
    BY DEF ClientReceives, Receive, Seen, inner
<1>2. /\ Seen # <<>> /\ Cut(Seen, 1, Seen') /\ m = Seen[1] /\ m \in Message
      /\ Up' = Up /\ Ahead' = Ahead /\ Wait' = Wait /\ Down' = Down
    BY DeliveredMoves
<1> HIDE DEF m
<1>3. LegalDown(m) /\ (m.op = "global" => Relayable(m.type))
    <2>1. 1 \in 1..Len(Seen)
        BY <1>2 DEF Cut
    <2>2. QED
        BY <1>2, <2>1 DEF Lives, Legal
<1>4. mine \in [Ids -> Interface \cup {None, "zombie"}] /\ Map' = Map /\ theirs' = theirs /\ open' = open
    BY <1>1 DEF Typed, PeersTyped, Map
<1>5. /\ m.op = "make" => m.id \in ServerId /\ m.id \in Ids
      /\ m.op = "delete_id" => m.id \in ClientId /\ m.id \in Ids
      /\ m.op \notin {"make", "delete_id"} => m.id = None
    <2>1. "make" \notin Events(m.iface) /\ "delete_id" \notin Events(m.iface)
        BY <1>2, Tables DEF Message, Fields
    <2>2. QED
        BY <1>3, <2>1 DEF LegalDown, Ids
<1>6. \A y \in Ids : y # m.id => mine'[y] = mine[y]
    BY <1>1, <1>4, <1>5
<1>7. Legal'
    <2>1. \A t \in offered' : Relayable(t)
        BY <1>1, <1>3 DEF Lives, Legal
    <2>2. \A k \in 1..Len(Seen') : k + 1 \in 1..Len(Seen) /\ Seen'[k] = Seen[k + 1]
        BY <1>2 DEF Cut
    <2>3. QED
        BY <1>2, <2>1, <2>2 DEF Lives, Legal
<1>8. Roots'
    <2>1. \A o \in {"display", "registry"} : o \in Ids /\ o # m.id
        BY <1>5, RelayAssumption DEF Ids, Interface, Known
    <2>2. QED
        BY <1>4, <1>6, <2>1 DEF Lives, Roots
<1>9. ASSUME NEW y \in ClientId PROVE ClientLife(y)'
    <2>1. ClientLife(y) /\ y \in Ids /\ y \notin ServerId /\ y # None
        BY RelayAssumption DEF Lives, Ids
    <2>2. CASE y # m.id
        <3>1. mine'[y] = mine[y] /\ Heard(y)
            BY <1>2, <1>6, <2>1, <2>2, HeardTail
        <3>2. QED
            BY <1>2, <1>4, <2>1, <3>1, ClientHeard
    <2>3. CASE y = m.id
        <3>1. m.op = "delete_id" /\ mine'[y] = None
            BY <1>1, <1>4, <1>5, <2>1, <2>3
        <3>2. ~NoId(Seen, y) /\ (Once(Seen, y) => NoId(Seen', y))
            BY <1>2, <2>3, FirstOnce
        <3>3. Told(y)
            BY <2>1, <3>2 DEF ClientLife, Unborn, Asked, Living, Freed
        <3>4. Once(Seen, y)
            BY <3>2, <3>3 DEF Told
        <3>5. QED
            BY <1>2, <1>4, <3>1, <3>2, <3>3, <3>4 DEF ClientLife, Told, Unborn
    <2>4. QED
        BY <2>2, <2>3
<1>10. ASSUME NEW y \in ServerId PROVE ServerLife(y)'
    <2>1. ServerLife(y) /\ y \in Ids /\ y \notin ClientId /\ y # None
        BY RelayAssumption DEF Lives, Ids
    <2>2. CASE y # m.id
        <3>1. mine'[y] = mine[y] /\ Heard(y)
            BY <1>2, <1>6, <2>1, <2>2, HeardTail
        <3>2. QED
            BY <1>2, <1>4, <2>1, <3>1, ServerHeard
    <2>3. CASE y = m.id
        <3>1. m.op = "make" /\ mine'[y] = m.type
            BY <1>1, <1>4, <1>5, <2>1, <2>3
        <3>2. ~NoId(Seen, y)
            BY <1>2, <2>3, FirstOnce
        <3>3. theirs[y] \in {"offer", "tool"} /\ Offered(y)
            BY <2>1, <3>2 DEF ServerLife, Free, Used
        <3>4. NoWord(Up, y) /\ NoId(Down, y) /\ Brings(Seen, y, theirs[y]) /\ Fits(y, theirs[y])
            BY <3>2, <3>3 DEF Offered
        <3>5. NoId(Seen', y) /\ m.type = theirs[y]
            BY <1>2, <2>3, <3>4, FirstBrings, Zenon
        <3>6. As(Up, y, theirs[y]) /\ KillsLast(Up, y) /\ ~Killed(Up, y)
            BY <3>4 DEF NoWord, As, KillsLast, Killed, Kills
        <3>7. QED
            BY <1>2, <1>4, <2>1, <3>1, <3>3, <3>4, <3>5, <3>6 DEF ServerLife, Used, Fits
    <2>4. QED
        BY <2>2, <2>3
<1>11. QED
    BY <1>7, <1>8, <1>9, <1>10 DEF Lives

-----------------------------------------------------------------------------
(* pump passes a request on, or into the void once the compositor is gone.  *)
LEMMA ClientUnheard ==
    ASSUME NEW x, ClientLife(x), Cut(Up, 1, Up'), Kills(Up[1], x), "upstream" \notin open,
           mine'[x] = mine[x], theirs'[x] = theirs[x], Map'[x] = Map[x], open' = open,
           Seen' = Seen, Down' = Down
    PROVE  ClientLife(x)'
<1>1. ~NoWord(Up, x) /\ Killed(Up, x) /\ \A t : ~Made(Up, x, t)
    BY FirstKill, Zenon
<1>2. ~Asked(x)
    BY <1>1 DEF Asked
<1>3. Living(x)
    BY <1>1, <1>2 DEF ClientLife, Unborn, Freed, Told
<1>4. PICK t \in Had :
        /\ NoId(Up, x) /\ Uses(x, t) /\ Map[x] = Kn(t)
        /\ As(Down, x, t) /\ NoId(Down, x) /\ NoId(Seen, x)
    BY <1>3 DEF Living
<1>5. /\ As(Up', x, t) /\ KillsLast(Up', x) /\ mine[x] = "zombie"
    BY <1>1, <1>4, CutWords, Zenon DEF Uses
<1>6. NoWord(Up', x)
    BY <1>4, TailWords, Zenon DEF Uses
<1>7. NoId(Up', x)
    BY <1>4, CutIds
<1>8. Uses(x, t)'
    BY <1>5, <1>6 DEF Uses
<1>9. QED
    BY <1>4, <1>7, <1>8 DEF ClientLife, Living

LEMMA ServerUnheard ==
    ASSUME NEW x, ServerLife(x), Cut(Up, 1, Up'), Kills(Up[1], x), "upstream" \notin open,
           mine'[x] = mine[x], theirs'[x] = theirs[x], Map'[x] = Map[x], open' = open,
           Seen' = Seen, Down' = Down
    PROVE  ServerLife(x)'
<1>1. ~NoWord(Up, x) /\ Killed(Up, x)
    BY FirstKill, Zenon
<1>2. Used(x) /\ Map[x] \in {None, "offer"} /\ theirs[x] \in {"offer", "tool"}
    BY <1>1 DEF ServerLife, Free, Offered
<1>3. /\ mine[x] = None /\ As(Up, x, theirs[x]) /\ KillsLast(Up, x)
      /\ NoId(Down, x) /\ NoId(Seen, x) /\ Fits(x, theirs[x])
    BY <1>1, <1>2 DEF Used
<1>4. As(Up', x, theirs[x]) /\ KillsLast(Up', x)
    BY <1>3, CutWords, Zenon
<1>5. QED
    BY <1>2, <1>3, <1>4 DEF ServerLife, Used, Fits

(* The map learns of the object when the request to make it goes by.        *)
LEMMA ClientKnown ==
    ASSUME NEW x, ClientLife(x), NEW n \in 1..Len(Up), Up[n].id = x, Up' = Up,
           mine'[x] = mine[x], theirs'[x] = theirs[x], Map'[x] = Kn(Up[n].type),
           Seen' = Seen, Down' = Down, open' = open
    PROVE  ClientLife(x)'
<1>1. ~NoId(Up, x)
    BY DEF NoId
<1>2. Asked(x)
    BY <1>1 DEF ClientLife, Unborn, Living, Freed, Told
<1>3. PICK t \in Had :
        /\ theirs[x] = None /\ Made(Up, x, t) /\ Uses(x, t)
        /\ NoId(Down, x) /\ NoWord(Down, x) /\ NoId(Seen, x)
    BY <1>2 DEF Asked
<1>4. PICK j \in 1..Len(Up) : OnlyId(Up, x, j) /\ Up[j].type = t
    BY <1>3 DEF Made
<1>5. n = j
    BY <1>4 DEF OnlyId
<1>6. Map'[x] = Kn(t)
    BY <1>4, <1>5
<1>7. Uses(x, t)' /\ Made(Up', x, t)
    BY <1>3 DEF Uses
<1>8. QED
    BY <1>3, <1>6, <1>7 DEF ClientLife, Asked

LEMMA ClientLost ==
    ASSUME NEW x, ClientLife(x), Cut(Up, 1, Up'), Up[1].id = x, Up[1].op = "make",
           "upstream" \notin open, mine'[x] = mine[x], theirs'[x] = theirs[x],
           Map'[x] = Kn(Up[1].type), Seen' = Seen, Down' = Down, open' = open
    PROVE  ClientLife(x)'
<1>1. ~NoId(Up, x)
    BY FirstOnce
<1>2. Asked(x)
    BY <1>1 DEF ClientLife, Unborn, Living, Freed, Told
<1>3. PICK t \in Had :
        /\ theirs[x] = None /\ Made(Up, x, t) /\ Uses(x, t)
        /\ NoId(Down, x) /\ NoWord(Down, x) /\ NoId(Seen, x)
    BY <1>2 DEF Asked
<1>4. NoId(Up', x) /\ Up[1].type = t
    BY <1>3, FirstMade
<1>5. ~Kills(Up[1], x)
    BY DEF Kills
<1>6. Uses(x, t)'
    BY <1>3, <1>5, UsesServed
<1>7. As(Down', x, t)
    BY <1>3 DEF As, NoWord
<1>8. QED
    BY <1>3, <1>4, <1>6, <1>7 DEF ClientLife, Living

LEMMA RequestLives ==
    ASSUME Typed, Lives, SameMaps, FdsFollow, Covered, Ended, ~done, Pump("client")
    PROVE  Lives' /\ SameMaps'
<1> DEFINE m == Head(leg["client"].msgs)
           n == Len(Ahead) + 1
<1>1. UNCHANGED <<mine, theirs, offered, open, done>>
    BY Zenon DEF Pump, peers
<1>2. /\ m \in Message /\ m = Wait[1] /\ Cut(Wait, 1, Wait')
      /\ Down' = Down /\ Seen' = Seen
      /\ n \in 1..Len(Up) /\ Up[n] = m
      /\ Ahead' = Append(Ahead, m) => Up' = Up
      /\ Ahead = <<>> /\ Ahead' = <<>> => Cut(Up, 1, Up') /\ Up[1] = m
    BY RequestPumped
<1>3. m = Head(leg["client"].msgs)
    OBVIOUS
<1> HIDE DEF m, n
<1>4. /\ LegalUp(m)
      /\ \A d \in Sides : ids'[d] =
                IF m.op = "make" THEN [Map EXCEPT ![m.id] = Kn(m.type)] ELSE Map
      /\ to'["upstream"] = IF "upstream" \in open THEN Put(to["upstream"], m)
                           ELSE to["upstream"]
    BY <1>3, RequestPasses, Zenon
<1>5. \/ "upstream" \in open /\ Up' = Up
      \/ "upstream" \notin open /\ Cut(Up, 1, Up') /\ Up[1] = m
    <2>1. CASE "upstream" \in open
        <3>1. Ahead' = Append(Ahead, m)
            BY <1>4, <2>1 DEF Ahead, Put
        <3>2. QED
            BY <1>2, <2>1, <3>1
    <2>2. CASE "upstream" \notin open
        <3>1. to["upstream"] = Nothing /\ to'["upstream"] = Nothing
            BY <1>4, <2>2 DEF Ended, Sides
        <3>2. Ahead = <<>> /\ Ahead' = <<>>
            BY <3>1 DEF Ahead, Nothing
        <3>3. QED
            BY <1>2, <2>2, <3>2
    <2>3. QED
        BY <2>1, <2>2
<1>6. /\ m.op = "make" => m.id \in ClientId /\ m.id \in Ids
      /\ m.op # "make" => m.id = None
    <2>1. m.iface \in Interface /\ "make" \notin Requests(m.iface)
        BY <1>2, <1>4, LegalIface, Tables
    <2>2. QED
        BY <1>4, <2>1 DEF LegalUp, Ids
<1>7. Map \in [Ids -> Known \cup {None}]
    BY DEF Typed, RelayTyped, Map, Sides
<1>8. /\ \A y \in Ids : y # m.id => Map'[y] = Map[y]
      /\ m.op = "make" => Map'[m.id] = Kn(m.type)
      /\ SameMaps'
    <2>1. /\ Map' = IF m.op = "make" THEN [Map EXCEPT ![m.id] = Kn(m.type)] ELSE Map
          /\ ids'["upstream"] = ids'["client"]
        BY <1>4 DEF Map, Sides
    <2>2. QED
        BY <1>6, <1>7, <2>1 DEF SameMaps
<1>9. Legal'
    BY <1>1, <1>2, <1>5, LegalCut, Zenon DEF Lives, Legal
<1>10. Roots'
    <2>1. \A o \in {"display", "registry"} : o \in Ids /\ o # m.id
        BY <1>6, RelayAssumption DEF Ids, Interface, Known
    <2>2. QED
        BY <1>1, <1>8, <2>1 DEF Lives, Roots
<1>11. ASSUME NEW y \in ClientId PROVE ClientLife(y)'
    <2>1. ClientLife(y) /\ y \in Ids /\ y # None
        BY RelayAssumption DEF Lives, Ids
    <2>2. mine'[y] = mine[y] /\ theirs'[y] = theirs[y] /\ open' = open
        BY <1>1
    <2>3. CASE y # m.id
        <3>1. (NoId(Wait', y) => NoId(Wait, y)) /\ Map'[y] = Map[y]
            BY <1>2, <1>8, <2>1, <2>3, TailWords, Zenon
        <3>2. Quiet(Down, Down', y) /\ Quiet(Seen, Seen', y)
            BY <1>2 DEF Quiet
        <3>3. CASE Up' = Up
            <4>1. Quiet(Up, Up', y)
                BY <3>3 DEF Quiet
            <4>2. QED
                BY <2>1, <2>2, <3>1, <3>2, <4>1, ClientKept
        <3>4. CASE "upstream" \notin open /\ Cut(Up, 1, Up') /\ Up[1] = m
            <4>1. CASE Kills(Up[1], y)
                BY <1>2, <2>1, <2>2, <3>1, <3>4, <4>1, ClientUnheard
            <4>2. CASE ~Kills(Up[1], y)
                BY <1>2, <2>1, <2>2, <2>3, <3>1, <3>2, <3>4, <4>2, ClientServed
            <4>3. QED
                BY <4>1, <4>2
        <3>5. QED
            BY <1>5, <3>3, <3>4
    <2>4. CASE y = m.id
        <3>1. m.op = "make" /\ Map'[y] = Kn(m.type)
            BY <1>6, <1>8, <2>1, <2>4
        <3>2. CASE Up' = Up
            BY <1>2, <2>1, <2>2, <2>4, <3>1, <3>2, ClientKnown
        <3>3. CASE "upstream" \notin open /\ Cut(Up, 1, Up') /\ Up[1] = m
            BY <1>2, <2>1, <2>2, <2>4, <3>1, <3>3, ClientLost
        <3>4. QED
            BY <1>5, <3>2, <3>3
    <2>5. QED
        BY <2>3, <2>4
<1>12. ASSUME NEW y \in ServerId PROVE ServerLife(y)'
    <2>1. ServerLife(y) /\ y \in Ids /\ y # m.id
        BY <1>6, RelayAssumption DEF Lives, Ids
    <2>2. mine'[y] = mine[y] /\ theirs'[y] = theirs[y] /\ Map'[y] = Map[y] /\ open' = open
        BY <1>1, <1>8, <2>1
    <2>3. Quiet(Down, Down', y) /\ Quiet(Seen, Seen', y)
        BY <1>2 DEF Quiet
    <2>4. CASE Up' = Up
        <3>1. Quiet(Up, Up', y)
            BY <2>4 DEF Quiet
        <3>2. QED
            BY <2>1, <2>2, <2>3, <3>1, ServerKept
    <2>5. CASE "upstream" \notin open /\ Cut(Up, 1, Up') /\ Up[1] = m
        <3>1. CASE Kills(Up[1], y)
            BY <1>2, <2>1, <2>2, <2>5, <3>1, ServerUnheard
        <3>2. CASE ~Kills(Up[1], y)
            BY <1>2, <2>1, <2>2, <2>3, <2>5, <3>2, ServerServed
        <3>3. QED
            BY <3>1, <3>2
    <2>6. QED
        BY <1>5, <2>4, <2>5
<1>13. QED
    BY <1>8, <1>9, <1>10, <1>11, <1>12 DEF Lives

-----------------------------------------------------------------------------
(* pump passes an event on, tells one of its lies of it, or withholds it.   *)
LEMMA ClientFreed ==
    ASSUME NEW x, ClientLife(x), Cut(Down, 1, Down'), Down[1].id = x, NEW e, e.id = x,
           \/ "client" \in open /\ Grown(Seen, e, Seen')
           \/ "client" \notin open /\ Seen' = Seen,
           mine'[x] = mine[x], theirs'[x] = theirs[x], open' = open, Up' = Up
    PROVE  ClientLife(x)'
<1>1. ~NoId(Down, x)
    BY FirstOnce
<1>2. Freed(x)
    BY <1>1 DEF ClientLife, Unborn, Asked, Living, Told
<1>3. /\ mine[x] = "zombie" /\ theirs[x] = None
      /\ NoId(Up, x) /\ NoWord(Up, x) /\ FreedLast(Down, x) /\ NoId(Seen, x)
    BY <1>2 DEF Freed
<1>4. NoId(Down', x) /\ NoWord(Down', x)
    BY <1>3, FirstOnce
<1>5. CASE "client" \in open /\ Grown(Seen, e, Seen')
    <2>1. Once(Seen', x)
        BY <1>3, <1>5, GrownIds
    <2>2. QED
        BY <1>3, <1>4, <2>1 DEF ClientLife, Told
<1>6. CASE "client" \notin open /\ Seen' = Seen
    BY <1>3, <1>4, <1>6 DEF ClientLife, Told
<1>7. QED
    BY <1>5, <1>6

LEMMA ServerOffered ==
    ASSUME NEW x, ServerLife(x), Cut(Down, 1, Down'), Down[1].id = x,
           NEW e, e.id = x, e.type = Down[1].type,
           \/ "client" \in open /\ Grown(Seen, e, Seen')
           \/ "client" \notin open /\ Seen' = Seen,
           Map'[x] = IF Down[1].type \in Known THEN Down[1].type ELSE Map[x],
           mine'[x] = mine[x], theirs'[x] = theirs[x], open' = open, Up' = Up
    PROVE  ServerLife(x)'
<1>1. ~NoId(Down, x)
    BY FirstOnce
<1>2. Offered(x) /\ theirs[x] \in {"offer", "tool"} /\ Map[x] \in {None, "offer"}
    BY <1>1 DEF ServerLife, Free, Used
<1>3. mine[x] = None /\ NoWord(Up, x) /\ NoId(Seen, x) /\ Brings(Down, x, theirs[x])
    BY <1>1, <1>2 DEF Offered
<1>4. NoId(Down', x) /\ Down[1].type = theirs[x]
    BY <1>3, FirstBrings
<1>5. Fits(x, theirs[x])' /\ Map'[x] \in {None, "offer"}
    BY <1>2, <1>4 DEF Fits, Known
<1>6. CASE "client" \in open /\ Grown(Seen, e, Seen')
    <2>1. Brings(Seen', x, e.type)
        BY <1>3, <1>6, GrownIds, Zenon
    <2>2. QED
        BY <1>2, <1>3, <1>4, <1>5, <2>1 DEF ServerLife, Offered, Fits
<1>7. CASE "client" \notin open /\ Seen' = Seen
    BY <1>2, <1>3, <1>4, <1>5, <1>7 DEF ServerLife, Offered
<1>8. QED
    BY <1>6, <1>7

LEMMA EventLives ==
    ASSUME Typed, Lives, SameMaps, FdsFollow, Covered, ~done, Pump("upstream")
    PROVE  Lives' /\ SameMaps'
<1>1. PICK m : m = Head(leg["upstream"].msgs)
    OBVIOUS
<1>2. UNCHANGED <<mine, theirs, offered, open, done>>
    BY DEF Pump, peers
<1>3. /\ m \in Message /\ m = Down[1] /\ Cut(Down, 1, Down')
      /\ Up' = Up /\ Wait' = Wait
    BY <1>1, EventPumped
<1>4. /\ LegalDown(m)
      /\ \A d \in Sides : ids'[d] =
           IF m.op = "make" /\ m.type \in Known THEN [Map EXCEPT ![m.id] = m.type]
           ELSE IF m.op = "delete_id" THEN [Map EXCEPT ![m.id] = None]
           ELSE Map
      /\ to'["client"] = IF "client" \in open /\ ~Dropped(m.iface, m)
                         THEN Put(to["client"], Spoofed(m.iface, m)) ELSE to["client"]
    BY <1>1, EventPasses, Zenon
<1>5. PICK e \in Message :
        /\ e = Spoofed(m.iface, m)
        /\ e.obj = m.obj /\ e.op = m.op /\ e.id = m.id /\ e.type = m.type
        /\ e.iface = m.iface /\ e.fds = m.fds
    BY <1>3, SpoofedTyped
<1>6. IF "client" \in open /\ ~Dropped(m.iface, m)
      THEN Grown(Seen, e, Seen') ELSE Seen' = Seen
    <2>1. Seen' = IF "client" \in open /\ ~Dropped(m.iface, m) THEN Append(Seen, e) ELSE Seen
        BY <1>4, <1>5 DEF Seen, Put
    <2>2. Grown(Seen, e, Append(Seen, e))
        BY QueuesTyped, AppendGrows
    <2>3. QED
        BY <2>1, <2>2
<1>7. m.iface \in Interface /\ m.obj \in Ids
    BY <1>3, <1>4, LegalIface
<1>8. /\ m.op = "make" => m.id \in ServerId /\ m.id \in Ids
      /\ m.op = "delete_id" => m.id \in ClientId /\ m.id \in Ids
      /\ m.op \notin {"make", "delete_id"} => m.id = None
      /\ m.op = "global" => m.iface = "registry"
    <2>1. "make" \notin Events(m.iface) /\ "delete_id" \notin Events(m.iface)
          /\ "global" \notin Events(m.iface)
        BY <1>7, Tables
    <2>2. QED
        BY <1>4, <2>1 DEF LegalDown, Ids
<1>9. m.op \in {"make", "delete_id"} => ~Dropped(m.iface, m)
    BY DEF Dropped
<1>10. Map \in [Ids -> Known \cup {None}]
    BY DEF Typed, RelayTyped, Map, Sides
<1>11. /\ \A y \in Ids : y # m.id => Map'[y] = Map[y]
       /\ m.op = "make" => Map'[m.id] = IF m.type \in Known THEN m.type ELSE Map[m.id]
       /\ SameMaps'
    <2>1. /\ Map' = IF m.op = "make" /\ m.type \in Known THEN [Map EXCEPT ![m.id] = m.type]
                    ELSE IF m.op = "delete_id" THEN [Map EXCEPT ![m.id] = None]
                    ELSE Map
          /\ ids'["upstream"] = ids'["client"]
        BY <1>4 DEF Map, Sides
    <2>2. QED
        BY <1>8, <1>10, <2>1 DEF SameMaps
<1>12. Legal'
    <2>1. LegalDown(e)
        BY <1>4, <1>5 DEF LegalDown
    <2>2. e.op = "global" /\ ~Dropped(m.iface, m) => Relayable(e.type)
        BY <1>5, <1>8 DEF Dropped
    <2>3. \A k \in 1..Len(Seen') :
              LegalDown(Seen'[k]) /\ (Seen'[k].op = "global" => Relayable(Seen'[k].type))
        <3>1. CASE Seen' = Seen
            BY <3>1 DEF Lives, Legal
        <3>2. CASE Grown(Seen, e, Seen') /\ ~Dropped(m.iface, m)
            <4>1. 1..Len(Seen') = 1..Len(Seen) \cup {Len(Seen) + 1}
                BY <3>2 DEF Grown
            <4>2. \A k \in 1..Len(Seen) :
                    LegalDown(Seen[k]) /\ (Seen[k].op = "global" => Relayable(Seen[k].type))
                BY DEF Lives, Legal
            <4>3. QED
                BY <2>1, <2>2, <3>2, <4>1, <4>2 DEF Grown
        <3>3. QED
            BY <1>6, <3>1, <3>2
    <2>4. \A k \in 1..Len(Down') : LegalDown(Down'[k])
        BY <1>3, LegalCut DEF Lives, Legal
    <2>5. QED
        BY <1>2, <1>3, <2>3, <2>4 DEF Lives, Legal
<1>13. Roots'
    <2>1. \A o \in {"display", "registry"} : o \in Ids /\ o # m.id
        BY <1>8, RelayAssumption DEF Ids, Interface, Known
    <2>2. QED
        BY <1>2, <1>11, <2>1 DEF Lives, Roots
<1>14. ASSUME NEW y \in Ids
       PROVE  mine'[y] = mine[y] /\ theirs'[y] = theirs[y] /\ open' = open
              /\ (y # m.id => Map'[y] = Map[y] /\ Heard(y))
    <2>1. ASSUME y # m.id PROVE Heard(y)
        BY <1>5, <1>6, <2>1, HeardMore
    <2>2. QED
        BY <1>2, <1>11, <2>1
<1>15. ASSUME NEW y \in ClientId PROVE ClientLife(y)'
    <2>1. ClientLife(y) /\ y \in Ids /\ y \notin ServerId /\ y # None
        BY RelayAssumption DEF Lives, Ids
    <2>2. CASE y # m.id
        BY <1>3, <1>14, <2>1, <2>2, ClientHeard
    <2>3. CASE y = m.id
        <3>1. m.op = "delete_id"
            BY <1>8, <2>1, <2>3
        <3>2. \/ "client" \in open /\ Grown(Seen, e, Seen')
              \/ "client" \notin open /\ Seen' = Seen
            BY <1>6, <1>9, <3>1
        <3>3. QED
            BY <1>3, <1>5, <1>14, <2>1, <2>3, <3>2, ClientFreed
    <2>4. QED
        BY <2>2, <2>3
<1>16. ASSUME NEW y \in ServerId PROVE ServerLife(y)'
    <2>1. ServerLife(y) /\ y \in Ids /\ y \notin ClientId /\ y # None
        BY RelayAssumption DEF Lives, Ids
    <2>2. CASE y # m.id
        BY <1>3, <1>14, <2>1, <2>2, ServerHeard
    <2>3. CASE y = m.id
        <3>1. m.op = "make"
            BY <1>8, <2>1, <2>3
        <3>2. \/ "client" \in open /\ Grown(Seen, e, Seen')
              \/ "client" \notin open /\ Seen' = Seen
            BY <1>6, <1>9, <3>1
        <3>3. Map'[y] = IF Down[1].type \in Known THEN Down[1].type ELSE Map[y]
            BY <1>3, <1>11, <2>3, <3>1
        <3>4. QED
            BY <1>3, <1>5, <1>14, <2>1, <2>3, <3>2, <3>3, ServerOffered
    <2>4. QED
        BY <2>2, <2>3
<1>17. QED
    BY <1>11, <1>12, <1>13, <1>15, <1>16 DEF Lives

-----------------------------------------------------------------------------
(* A peer closes its socket: what the relay has for it goes nowhere.        *)
LEMMA NoneThere ==
    ASSUME NEW x, NEW q, q = <<>>
    PROVE  NoId(q, x) /\ Len(q) = 0
BY EmptySeq DEF NoId

LEMMA ClientLeaves ==
    ASSUME Typed, Lives, ~done, HangUp("client")
    PROVE  Lives'
<1>1. /\ Up' = Up /\ Wait' = Wait /\ Down' = Down /\ Seen' = <<>>
    BY HungUpMoves DEF Sides
<1>2. /\ UNCHANGED <<mine, theirs, offered, ids>> /\ Map' = Map
      /\ "client" \notin open' /\ ("upstream" \in open' <=> "upstream" \in open)
    BY DEF HangUp, peers, inner, Map
<1>3. Legal' /\ Roots'
    <2>1. 1..Len(Seen') = {}
        BY <1>1, NoneThere
    <2>2. QED
        BY <1>1, <1>2, <2>1 DEF Lives, Legal, Roots
<1>4. ASSUME NEW x \in ClientId PROVE ClientLife(x)'
    <2>1. ClientLife(x) /\ NoId(Seen', x)
        BY <1>1, NoneThere DEF Lives
    <2>2. \A t : Uses(x, t) => Uses(x, t)'
        BY <1>1, <1>2 DEF Uses
    <2>3. CASE Unborn(x)
        BY <1>1, <1>2, <2>1, <2>3 DEF ClientLife, Unborn
    <2>4. CASE Asked(x)
        BY <1>1, <1>2, <2>1, <2>2, <2>4 DEF ClientLife, Asked
    <2>5. CASE Living(x)
        BY <1>1, <1>2, <2>1, <2>2, <2>5 DEF ClientLife, Living
    <2>6. CASE Freed(x)
        BY <1>1, <1>2, <2>1, <2>6 DEF ClientLife, Freed
    <2>7. CASE Told(x)
        BY <1>1, <1>2, <2>1, <2>7 DEF ClientLife, Told
    <2>8. QED
        BY <2>1, <2>3, <2>4, <2>5, <2>6, <2>7 DEF ClientLife
<1>5. ASSUME NEW x \in ServerId PROVE ServerLife(x)'
    <2>1. ServerLife(x) /\ NoId(Seen', x)
        BY <1>1, NoneThere DEF Lives
    <2>2. CASE Free(x)
        BY <1>1, <1>2, <2>1, <2>2 DEF ServerLife, Free
    <2>3. CASE theirs[x] \in {"offer", "tool"} /\ Offered(x)
        BY <1>1, <1>2, <2>1, <2>3 DEF ServerLife, Offered
    <2>4. CASE theirs[x] \in {"offer", "tool"} /\ Used(x)
        BY <1>1, <1>2, <2>1, <2>4 DEF ServerLife, Used, Fits
    <2>5. QED
        BY <2>1, <2>2, <2>3, <2>4 DEF ServerLife
<1>6. QED
    BY <1>3, <1>4, <1>5 DEF Lives

LEMMA CompositorLeaves ==
    ASSUME Typed, Lives, ~done, HangUp("upstream")
    PROVE  Lives'
<1>1. /\ Up' = Wait /\ Cut(Up, Len(Ahead), Up') /\ Wait' = Wait /\ Down' = Down /\ Seen' = Seen
    BY HungUpMoves DEF Sides
<1>2. /\ UNCHANGED <<mine, theirs, offered, ids>> /\ Map' = Map
      /\ "upstream" \notin open' /\ ("client" \in open' <=> "client" \in open)
    BY DEF HangUp, peers, inner, Map
<1>3. Legal' /\ Roots'
    BY <1>1, <1>2, LegalCut DEF Lives, Legal, Roots
<1>4. ASSUME NEW x
      PROVE  /\ NoId(Up, x) => NoId(Up', x)
             /\ NoWord(Up, x) => NoWord(Up', x)
             /\ \A t : As(Up, x, t) => As(Up', x, t)
             /\ Killed(Up', x) => Killed(Up, x)
             /\ KillsLast(Up, x) => KillsLast(Up', x)
             /\ Killed(Up, x) /\ KillsLast(Up, x) => Killed(Up', x) \/ NoWord(Up', x)
             /\ \A t : Made(Up, x, t) => NoId(Up', x) \/ Made(Up', x, t)
    BY <1>1, CutWords
<1>5. ASSUME NEW x \in ClientId PROVE ClientLife(x)'
    <2>1. ClientLife(x)
        BY DEF Lives
    <2>2. \A t : Uses(x, t) => Uses(x, t)'
        BY <1>2, <1>4 DEF Uses
    <2>3. CASE Unborn(x)
        BY <1>1, <1>2, <1>4, <2>3 DEF ClientLife, Unborn
    <2>4. CASE Asked(x)
        <3>1. PICK t \in Had :
                /\ theirs[x] = None /\ Made(Up, x, t) /\ Uses(x, t)
                /\ NoId(Wait, x) => Map[x] = Kn(t)
                /\ NoId(Down, x) /\ NoWord(Down, x) /\ NoId(Seen, x)
            BY <2>4 DEF Asked
        <3>2. Uses(x, t)' /\ (NoId(Up', x) \/ Made(Up', x, t))
            BY <1>4, <2>2, <3>1
        <3>3. CASE Made(Up', x, t)
            BY <1>1, <1>2, <3>1, <3>2, <3>3 DEF ClientLife, Asked
        <3>4. CASE NoId(Up', x)
            <4>1. As(Down', x, t) /\ Map'[x] = Kn(t)
                BY <1>1, <1>2, <3>1, <3>4 DEF As, NoWord
            <4>2. QED
                BY <1>1, <1>2, <3>1, <3>2, <3>4, <4>1 DEF ClientLife, Living
        <3>5. QED
            BY <3>2, <3>3, <3>4
    <2>5. CASE Living(x)
        BY <1>1, <1>2, <1>4, <2>2, <2>5 DEF ClientLife, Living
    <2>6. CASE Freed(x)
        BY <1>1, <1>2, <1>4, <2>6 DEF ClientLife, Freed
    <2>7. CASE Told(x)
        BY <1>1, <1>2, <1>4, <2>7 DEF ClientLife, Told
    <2>8. QED
        BY <2>1, <2>3, <2>4, <2>5, <2>6, <2>7 DEF ClientLife
<1>6. ASSUME NEW x \in ServerId PROVE ServerLife(x)'
    <2>1. ServerLife(x)
        BY DEF Lives
    <2>2. CASE Free(x)
        BY <1>1, <1>2, <1>4, <2>1, <2>2 DEF ServerLife, Free
    <2>3. CASE theirs[x] \in {"offer", "tool"} /\ Offered(x)
        BY <1>1, <1>2, <1>4, <2>1, <2>3 DEF ServerLife, Offered, Fits
    <2>4. CASE theirs[x] \in {"offer", "tool"} /\ Used(x)
        BY <1>1, <1>2, <1>4, <2>1, <2>4 DEF ServerLife, Used, Fits
    <2>5. QED
        BY <2>1, <2>2, <2>3, <2>4 DEF ServerLife
<1>7. QED
    BY <1>3, <1>5, <1>6 DEF Lives

(* A step inside the relay that passes nothing on.                          *)
LEMMA LivesSame ==
    ASSUME Lives, ~done, UNCHANGED <<mine, theirs, offered, ids, open>>,
           Up' = Up, Wait' = Wait, Down' = Down, Seen' = Seen
    PROVE  Lives'
<1>1. Map' = Map
    BY DEF Map
<1>2. Legal' /\ Roots'
    BY <1>1 DEF Lives, Legal, Roots
<1>3. ASSUME NEW x \in ClientId PROVE ClientLife(x)'
    <2>1. Quiet(Up, Up', x) /\ Quiet(Down, Down', x) /\ Quiet(Seen, Seen', x)
        BY DEF Quiet
    <2>2. ClientLife(x)
        BY DEF Lives
    <2>3. QED
        BY <1>1, <2>1, <2>2, ClientKept
<1>4. ASSUME NEW x \in ServerId PROVE ServerLife(x)'
    <2>1. Quiet(Up, Up', x) /\ Quiet(Down, Down', x) /\ Quiet(Seen, Seen', x)
        BY DEF Quiet
    <2>2. ServerLife(x)
        BY DEF Lives
    <2>3. QED
        BY <1>1, <2>1, <2>2, ServerKept
<1>5. QED
    BY <1>2, <1>3, <1>4 DEF Lives

LEMMA QueuesSame ==
    ASSUME UNCHANGED <<from, to, leg>>
    PROVE  Up' = Up /\ Wait' = Wait /\ Down' = Down /\ Seen' = Seen
BY DEF Up, Ahead, Wait, Down, Seen, Held

LEMMA StaysDone == [Next]_vars /\ done => done'
<1> SUFFICES ASSUME [Next]_vars, done PROVE done'
    OBVIOUS
<1>1. CASE ClientSends
    BY <1>1, Zenon DEF ClientSends, ClientMakes, ClientAsks, inner
<1>2. CASE CompositorSends
    BY <1>2, Zenon DEF CompositorSends, Announces, CompositorTells, CompositorMakes, inner
<1>3. CASE Relay
    BY <1>3, Zenon DEF Relay, Poll, LegRead, EndOfFile, Pump, Pumped
<1>4. CASE ClientWaits \/ ClientResumes \/ ClientReceives \/ CompositorReceives
    BY <1>4, Zenon DEF ClientWaits, ClientResumes, ClientReceives, CompositorReceives, inner
<1>5. CASE (\E s \in Sides : HangUp(s)) \/ UNCHANGED vars
    BY <1>5, Zenon DEF HangUp, inner, vars
<1>6. QED
    BY <1>1, <1>2, <1>3, <1>4, <1>5 DEF Next

LEMMA LivesNext == IInv /\ [Next]_vars => Lives'
<1> SUFFICES ASSUME IInv, [Next]_vars, ~done' PROVE Lives'
    BY DEF Lives
<1>1. /\ ~done /\ Typed /\ Lives /\ SameMaps /\ FdsFollow /\ Covered /\ Ended /\ Idle
    BY StaysDone DEF IInv
<1>2. CASE Poll \/ \E s \in Sides : Pumped(s)
    BY <1>1, <1>2, QueuesSame, LivesSame DEF Poll, Pumped, peers
<1>3. CASE LegRead
    BY <1>1, <1>3, ReadMoves, LivesSame, Zenon DEF LegRead, peers
<1>4. CASE \E s \in Sides : Pump(s)
    BY <1>1, <1>4, RequestLives, EventLives DEF Sides
<1>5. CASE ClientSends
    <2>1. PICK o \in Ids :
            \/ \E x \in ClientId, t \in Interface : ClientMakes(o, x, t)
            \/ \E op \in {"destroy", "receive", "set_cursor"} : ClientAsks(o, op)
        BY <1>5 DEF ClientSends
    <2>2. CASE \E x \in ClientId, t \in Interface : ClientMakes(o, x, t)
        BY <1>1, <2>2, MakesLives
    <2>3. CASE \E op \in {"destroy", "receive", "set_cursor"} : ClientAsks(o, op)
        BY <1>1, <2>3, AsksLives
    <2>4. QED
        BY <2>1, <2>2, <2>3
<1>6. CASE CompositorSends
    <2>1. CASE \E g \in plan.globals : Announces(g)
        BY <1>1, <2>1, AnnouncesLives
    <2>2. ASSUME NEW o \in Ids, NEW op, NEW on \in BOOLEAN, CompositorTells(o, op, on) PROVE Lives'
        BY <1>1, <2>2, TellsLives
    <2>3. ASSUME NEW o \in Ids, NEW x \in ServerId, NEW t \in Interface, CompositorMakes(o, x, t)
          PROVE  Lives'
        BY <1>1, <2>3, OffersLives
    <2>4. QED
        BY <1>6, <2>1, <2>2, <2>3 DEF CompositorSends
<1>7. CASE ClientReceives
    BY <1>1, <1>7, DeliversLives
<1>8. CASE CompositorReceives
    BY <1>1, <1>8, ServesLives
<1>9. CASE ClientWaits \/ ClientResumes
    BY <1>1, <1>9, QueuesSame, LivesSame DEF ClientWaits, ClientResumes, inner
<1>10. CASE \E s \in Sides : HangUp(s)
    BY <1>1, <1>10, ClientLeaves, CompositorLeaves DEF Sides
<1>11. CASE EndOfFile
    BY <1>11 DEF EndOfFile
<1>12. CASE UNCHANGED vars
    BY <1>1, <1>12, QueuesSame, LivesSame DEF vars
<1>13. QED
    BY <1>2, <1>3, <1>4, <1>5, <1>6, <1>7, <1>8, <1>9, <1>10, <1>11, <1>12 DEF Next, Relay

-----------------------------------------------------------------------------
(* The rest of the invariant, one part at a time.                           *)
LEMMA FollowNext == IInv /\ [Next]_vars => Follow'
<1> SUFFICES ASSUME IInv, [Next]_vars PROVE Follow'
    OBVIOUS
<1>1. Typed /\ Idle /\ Lives /\ SameMaps /\ Follow
    BY DEF IInv, Follow
<1>2. ASSUME UNCHANGED <<from, to, leg, done>> PROVE Follow'
    BY <1>1, <1>2, Zenon DEF Follow, FdsFollow, Covered, Held
<1>3. ASSUME NEW s \in Sides, NEW m \in Message, Send(s, m), UNCHANGED <<leg, to, done>>
      PROVE  Follow'
    BY <1>1, <1>3, SendFollows
<1>4. CASE ClientSends
    <2>1. ASSUME NEW o \in Ids, NEW x \in ClientId, NEW t \in Interface, ClientMakes(o, x, t)
          PROVE  Follow'
        <3>1. Making(o, mine[o], x, t) \in Message
            BY <1>1, MakingTyped, Zenon DEF Typed, PeersTyped, Ids
        <3>2. QED
            BY <1>3, <2>1, <3>1 DEF ClientMakes, inner, Sides
    <2>2. ASSUME NEW o \in Ids, NEW op \in {"destroy", "receive", "set_cursor"}, ClientAsks(o, op)
          PROVE  Follow'
        <3>1. Plain(o, mine[o], op) \in Message
            BY <1>1, PlainTyped, Zenon DEF Typed, PeersTyped, Op
        <3>2. QED
            BY <1>3, <2>2, <3>1 DEF ClientAsks, inner, Sides
    <2>3. QED
        BY <1>4, <2>1, <2>2 DEF ClientSends
<1>5. CASE CompositorSends
    <2>1. ASSUME NEW g \in plan.globals, Announces(g) PROVE Follow'
        <3>1. g \in {"seat", "shell", "data", "tablets", "lease"}
            BY <1>1, <2>1 DEF Typed, PeersTyped, Plan
        <3>2. Global(g) \in Message
            BY <3>1, GlobalTyped DEF Interface, Known, FdFree
        <3>3. QED
            BY <1>3, <2>1, <3>2 DEF Announces, inner, Sides
    <2>2. ASSUME NEW o \in Ids, NEW op \in {"keymap", "enter", "leave", "configure", "drm_fd"},
                 NEW on \in BOOLEAN, CompositorTells(o, op, on)
          PROVE  Follow'
        <3>1. Plain(o, theirs[o], op) \in Message
            BY <1>1, PlainTyped DEF Typed, PeersTyped, Op
        <3>2. [Plain(o, theirs[o], op) EXCEPT !.active = on] \in Message
            BY <3>1 DEF Message, Fields
        <3>3. QED
            BY <1>3, <2>2, <3>2 DEF CompositorTells, inner, Sides
    <2>3. ASSUME NEW o \in Ids, NEW x \in ServerId, NEW t \in Interface, CompositorMakes(o, x, t)
          PROVE  Follow'
        <3>1. Making(o, theirs[o], x, t) \in Message
            BY <1>1, MakingTyped DEF Typed, PeersTyped, Ids
        <3>2. QED
            BY <1>3, <2>3, <3>1 DEF CompositorMakes, inner, Sides
    <2>4. QED
        BY <1>5, <2>1, <2>2, <2>3 DEF CompositorSends
<1>6. CASE ClientReceives \/ CompositorReceives
    BY <1>1, <1>6, DeliverFollows, ServeFollows
<1>7. ASSUME NEW s \in Sides, HangUp(s) \/ Pump(s) PROVE Follow'
    BY <1>1, <1>7, HangUpFollows, PumpFollows
<1>8. CASE LegRead
    BY <1>1, <1>8, ReadFollows
<1>9. CASE EndOfFile
    BY <1>1, <1>9 DEF EndOfFile, Follow, FdsFollow, Covered
<1>10. CASE Poll \/ ClientWaits \/ ClientResumes \/ UNCHANGED vars
    BY <1>2, <1>10 DEF Poll, ClientWaits, ClientResumes, vars, inner
<1>11. ASSUME NEW s \in Sides, Pumped(s) PROVE Follow'
    BY <1>2, <1>11 DEF Pumped
<1>12. QED
    BY <1>4, <1>5, <1>6, <1>7, <1>8, <1>9, <1>10, <1>11 DEF Next, Relay

(* What the steps of the peers leave alone.                                 *)
LEMMA PeersLeave ==
    ASSUME ClientSends \/ CompositorSends
    PROVE  /\ UNCHANGED <<to, leg, ids, todo, busy, done, open>>
           /\ ~done => \E s \in Sides : \E m :
                 from' = [from EXCEPT ![s] = Put(from[s], m)]
<1>1. CASE ClientSends
    BY <1>1 DEF ClientSends, ClientMakes, ClientAsks, Send, inner, Sides
<1>2. CASE CompositorSends
    BY <1>2, Zenon DEF CompositorSends, Announces, CompositorTells, CompositorMakes, Send, inner, Sides
<1>3. QED
    BY <1>1, <1>2

LEMMA EndedNext == Typed /\ Ended /\ [Next]_vars => Ended'
<1> SUFFICES ASSUME Typed, Ended, [Next]_vars, NEW p \in Sides, p \notin open' PROVE to'[p] = Nothing
    BY DEF Ended
<1>1. p \notin open => to[p] = Nothing
    BY DEF Ended
<1>2. to \in [Sides -> Queue]
    BY DEF Typed, SocketsTyped
<1>3. CASE ClientSends \/ CompositorSends
    BY <1>1, <1>3, PeersLeave
<1>4. CASE Poll \/ LegRead \/ EndOfFile \/ ClientWaits \/ ClientResumes \/ UNCHANGED vars
    BY <1>1, <1>4, Zenon DEF Poll, LegRead, EndOfFile, ClientWaits, ClientResumes, inner, vars
<1>5. ASSUME NEW s \in Sides, Pumped(s) PROVE to'[p] = Nothing
    BY <1>1, <1>5 DEF Pumped
<1>6. ASSUME NEW s \in Sides, Pump(s) PROVE to'[p] = Nothing
    <2>1. open' = open
        BY <1>6 DEF Pump
    <2>2. to'[p] = to[p]
        BY <1>2, <1>6, <2>1, Zenon DEF Pump, Forward
    <2>3. QED
        BY <1>1, <2>1, <2>2
<1>7. ASSUME NEW s \in Sides, Receive(s), open' = open PROVE to'[p] = Nothing
    BY <1>1, <1>7, ReceiveMoves, Zenon DEF Receive
<1>8. CASE ClientReceives \/ CompositorReceives
    BY <1>7, <1>8 DEF ClientReceives, CompositorReceives, inner, Sides
<1>9. ASSUME NEW s \in Sides, HangUp(s) PROVE to'[p] = Nothing
    BY <1>1, <1>9, HungUpMoves, Zenon DEF HangUp
<1>10. QED
    BY <1>3, <1>4, <1>5, <1>6, <1>8, <1>9 DEF Next, Relay

LEMMA IdleNext == Typed /\ Idle /\ [Next]_vars => Idle'
<1> SUFFICES ASSUME Typed, Idle, [Next]_vars PROVE Idle'
    OBVIOUS
<1>1. leg \in [Sides -> Queue] /\ None \notin Sides
    BY RelayAssumption DEF Typed, RelayTyped, Sides
<1>2. ASSUME UNCHANGED <<leg, busy, done>> PROVE Idle'
    BY <1>2 DEF Idle
<1>3. CASE ClientSends \/ CompositorSends
    BY <1>2, <1>3, PeersLeave
<1>4. CASE Poll \/ ClientWaits \/ ClientResumes \/ ClientReceives \/ CompositorReceives
    BY <1>2, <1>4 DEF Poll, ClientWaits, ClientResumes, ClientReceives, CompositorReceives, inner
<1>5. CASE UNCHANGED vars \/ \E s \in Sides : HangUp(s)
    BY <1>2, <1>5 DEF vars, HangUp, inner
<1>6. CASE LegRead
    <2>1. PICK s \in Sides : s = Head(todo)
        BY <1>6, HeadTailProperties DEF LegRead, Typed, RelayTyped
    <2>2. busy' = s /\ ~done' /\ busy = None
        BY <1>6, <2>1 DEF LegRead
    <2>3. \A p \in Sides \ {s} : leg'[p] = leg[p]
        BY <1>1, <1>6, <2>1, Zenon DEF LegRead
    <2>4. QED
        BY <1>1, <2>2, <2>3 DEF Idle
<1>7. CASE EndOfFile
    BY <1>7 DEF EndOfFile, Idle
<1>8. ASSUME NEW s \in Sides, Pump(s) PROVE Idle'
    <2>1. busy = s /\ busy' = s /\ done' = done /\ \A p \in Sides \ {s} : leg'[p] = leg[p]
        BY <1>8, PumpHeld, Zenon DEF Pump
    <2>2. QED
        BY <1>1, <2>1 DEF Idle
<1>9. ASSUME NEW s \in Sides, Pumped(s) PROVE Idle'
    BY <1>1, <1>9 DEF Pumped, Idle
<1>10. QED
    BY <1>3, <1>4, <1>5, <1>6, <1>7, <1>8, <1>9 DEF Next, Relay

(* Nobody but leg_read takes from what a peer wrote.                        *)
LEMMA StaysReadable ==
    ASSUME Typed, [Next]_vars, ~LegRead, ~EndOfFile, ~done,
           NEW s \in Sides, from[s] # Nothing \/ s \notin open
    PROVE  from'[s] # Nothing \/ s \notin open'
<1>1. from \in [Sides -> Queue]
    BY DEF Typed, SocketsTyped
<1>2. ASSUME NEW q, NEW m, q \in Queue PROVE Put(q, m) # Nothing
    <2>1. Append(q.msgs, m) # <<>>
        BY <1>2 DEF Queue
    <2>2. QED
        BY <2>1 DEF Put, Nothing
<1>3. ASSUME NEW p \in Sides, NEW m, from' = [from EXCEPT ![p] = Put(from[p], m)], open' = open
      PROVE  from'[s] # Nothing \/ s \notin open'
    BY <1>1, <1>2, <1>3
<1>4. CASE ClientSends \/ CompositorSends
    BY <1>3, <1>4, PeersLeave
<1>5. CASE CompositorReceives
    <2>1. \/ from' = from
          \/ \E m : from' = [from EXCEPT !["upstream"] = Put(from["upstream"], m)]
        BY <1>5 DEF CompositorReceives
    <2>2. open' = open /\ "upstream" \in Sides
        BY <1>5 DEF CompositorReceives, Sides
    <2>3. QED
        BY <1>3, <2>1, <2>2
<1>6. CASE Poll \/ ClientWaits \/ ClientResumes \/ ClientReceives \/ UNCHANGED vars
    BY <1>6 DEF Poll, ClientWaits, ClientResumes, ClientReceives, inner, vars
<1>7. ASSUME NEW p \in Sides, Pump(p) \/ Pumped(p) \/ HangUp(p)
      PROVE  from'[s] # Nothing \/ s \notin open'
    BY <1>7, Zenon DEF Pump, Pumped, HangUp
<1>8. QED
    BY <1>4, <1>5, <1>6, <1>7 DEF Next, Relay

LEMMA TurnsTaken ==
    /\ <<>> \o <<>> = <<>> /\ <<>> \o <<"upstream">> = <<"upstream">>
    /\ <<"client">> \o <<>> = <<"client">>
    /\ <<"client">> \o <<"upstream">> = <<"client", "upstream">>
    /\ Tail(<<"client">>) = <<>> /\ Tail(<<"upstream">>) = <<>>
    /\ Tail(<<"client", "upstream">>) = <<"upstream">>
    /\ Head(<<"client">>) = "client" /\ Head(<<"upstream">>) = "upstream"
    /\ Head(<<"client", "upstream">>) = "client"
<1>1. <<>> \o <<>> = <<>> /\ <<>> \o <<"upstream">> = <<"upstream">> /\ <<"client">> \o <<>> = <<"client">>
    <2>1. <<"client">> \in Seq(Sides) /\ <<"upstream">> \in Seq(Sides)
        BY DEF Sides
    <2>2. QED
        BY <2>1, EmptySeq, ConcatEmptySeq
<1>2. <<"client">> \o <<"upstream">> = <<"client", "upstream">>
    <2> DEFINE c == <<"client">>
               u == <<"upstream">>
               t == <<"client", "upstream">>
    <2>1. /\ c \in Seq(Sides) /\ u \in Seq(Sides) /\ t \in Seq(Sides)
          /\ Len(c) = 1 /\ Len(u) = 1 /\ Len(t) = 2
          /\ c[1] = "client" /\ u[1] = "upstream" /\ t[1] = "client" /\ t[2] = "upstream"
        BY DEF Sides
    <2> HIDE DEF c, u, t
    <2>2. /\ c \o u \in Seq(Sides) /\ Len(c \o u) = 2
          /\ (c \o u)[1] = "client" /\ (c \o u)[2] = "upstream"
        BY <2>1, ConcatProperties
    <2>3. c \o u = t
        BY <2>1, <2>2, SeqEqual
    <2>4. QED
        BY <2>3 DEF c, u, t
<1>3. Tail(<<"client">>) = <<>> /\ Tail(<<"upstream">>) = <<>>
    OBVIOUS
<1>4. Tail(<<"client", "upstream">>) = <<"upstream">>
    OBVIOUS
<1>5. /\ Head(<<"client">>) = "client" /\ Head(<<"upstream">>) = "upstream"
      /\ Head(<<"client", "upstream">>) = "client"
    OBVIOUS
<1>6. QED
    BY <1>1, <1>2, <1>3, <1>4, <1>5

LEMMA RoundsNext == Typed /\ Rounds /\ [Next]_vars => Rounds'
<1> SUFFICES ASSUME Typed, Rounds, [Next]_vars, ~done' PROVE Rounds'
    BY DEF Rounds
<1>1. ~done /\ ~EndOfFile
    BY StaysDone DEF EndOfFile
<1> DEFINE Turns == {<<>>, <<"client">>, <<"upstream">>, <<"client", "upstream">>}
           Comes(s) == \E k \in 1..Len(todo) : todo[k] = s
           Said(s) == from[s] # Nothing \/ s \notin open
<1>2. todo \in Turns /\ \A s \in Sides : Comes(s) => Said(s)
    BY <1>1 DEF Rounds
<1>3. CASE Poll
    <2>1. todo' = Turn("client") \o Turn("upstream") /\ from' = from /\ open' = open
        BY <1>3 DEF Poll
    <2>2. /\ todo' \in Turns
          /\ Comes("client")' => Readable("client")
          /\ Comes("upstream")' => Readable("upstream")
        <3>1. CASE Readable("client") /\ Readable("upstream")
            BY <2>1, <3>1, TurnsTaken DEF Turn
        <3>2. CASE Readable("client") /\ ~Readable("upstream")
            <4>1. todo' = <<"client">>
                BY <2>1, <3>2, TurnsTaken DEF Turn
            <4>2. QED
                BY <3>2, <4>1
        <3>3. CASE ~Readable("client") /\ Readable("upstream")
            <4>1. todo' = <<"upstream">>
                BY <2>1, <3>3, TurnsTaken DEF Turn
            <4>2. QED
                BY <3>3, <4>1
        <3>4. CASE ~Readable("client") /\ ~Readable("upstream")
            <4>1. todo' = <<>>
                BY <2>1, <3>4, TurnsTaken DEF Turn
            <4>2. QED
                BY <4>1
        <3>5. QED
            BY <3>1, <3>2, <3>3, <3>4
    <2>3. QED
        BY <2>1, <2>2 DEF Rounds, Readable, Sides
<1>4. CASE LegRead
    <2>1. todo # <<>> /\ todo' = Tail(todo) /\ open' = open
        BY <1>4 DEF LegRead
    <2>2. from \in [Sides -> Queue] /\ \A p \in Sides : p # Head(todo) => from'[p] = from[p]
        BY <1>4 DEF LegRead, Typed, SocketsTyped
    <2>3. CASE todo = <<"client">> \/ todo = <<"upstream">>
        <3>1. todo' = <<>>
            BY <2>1, <2>3, TurnsTaken, Zenon
        <3>2. QED
            BY <3>1 DEF Rounds
    <2>4. CASE todo = <<"client", "upstream">>
        <3>1. todo' = <<"upstream">> /\ Head(todo) = "client"
            BY <2>1, <2>4, TurnsTaken
        <3>2. Comes("upstream")
            <4>1. Len(todo) = 2 /\ todo[2] = "upstream"
                BY <2>4
            <4>2. QED
                BY <4>1
        <3>3. from'["upstream"] # Nothing \/ "upstream" \notin open'
            BY <1>2, <2>1, <2>2, <3>1, <3>2 DEF Sides
        <3>4. QED
            BY <3>1, <3>3 DEF Rounds
    <2>5. QED
        BY <1>2, <2>1, <2>3, <2>4
<1>5. CASE ~Poll /\ ~LegRead
    <2>1. todo' = todo
        <3>1. CASE ClientSends \/ CompositorSends
            BY <3>1, PeersLeave
        <3>2. CASE ClientWaits \/ ClientResumes \/ ClientReceives \/ CompositorReceives \/ UNCHANGED vars
            BY <3>2 DEF ClientWaits, ClientResumes, ClientReceives, CompositorReceives, inner, vars
        <3>3. ASSUME NEW s \in Sides, Pump(s) \/ Pumped(s) \/ HangUp(s) PROVE todo' = todo
            BY <3>3, Zenon DEF Pump, Pumped, HangUp, inner
        <3>4. QED
            BY <1>1, <1>5, <3>1, <3>2, <3>3 DEF Next, Relay
    <2>2. \A s \in Sides : Comes(s) => from'[s] # Nothing \/ s \notin open'
        BY <1>1, <1>2, <1>5, StaysReadable
    <2>3. QED
        BY <1>2, <2>1, <2>2 DEF Rounds
<1>6. QED
    BY <1>3, <1>4, <1>5

LEMMA SameMapsNext == IInv /\ [Next]_vars => SameMaps'
<1> SUFFICES ASSUME IInv, [Next]_vars PROVE SameMaps'
    OBVIOUS
<1>1. /\ Typed /\ Idle /\ Lives /\ SameMaps /\ FdsFollow /\ Covered /\ Ended
    BY DEF IInv
<1>2. ASSUME NEW s \in Sides, Pump(s) PROVE SameMaps'
    <2>1. ~done
        BY <1>1, <1>2, RelayAssumption, Zenon DEF Idle, Pump, Sides
    <2>2. QED
        BY <1>1, <1>2, <2>1, RequestLives, EventLives DEF Sides
<1>3. ASSUME UNCHANGED ids PROVE SameMaps'
    BY <1>1, <1>3 DEF SameMaps
<1>4. CASE ClientSends \/ CompositorSends
    BY <1>3, <1>4, PeersLeave
<1>5. CASE Poll \/ LegRead \/ EndOfFile \/ ClientWaits \/ ClientResumes \/ ClientReceives
           \/ CompositorReceives \/ UNCHANGED vars
    BY <1>3, <1>5, Zenon DEF Poll, LegRead, EndOfFile, ClientWaits, ClientResumes, ClientReceives,
                      CompositorReceives, inner, vars
<1>6. ASSUME NEW s \in Sides, Pumped(s) \/ HangUp(s) PROVE SameMaps'
    BY <1>3, <1>6 DEF Pumped, HangUp, inner
<1>7. QED
    BY <1>2, <1>4, <1>5, <1>6 DEF Next, Relay

LEMMA IInvInit == Init => IInv
<1> SUFFICES ASSUME Init PROVE IInv
    OBVIOUS
<1>1. /\ from = [s \in Sides |-> Nothing] /\ to = [s \in Sides |-> Nothing]
      /\ leg = [s \in Sides |-> Nothing] /\ ids = [s \in Sides |-> Begun]
      /\ mine = Begun /\ theirs = Begun /\ offered = {} /\ busy = None /\ ~done /\ todo = <<>>
    BY DEF Init
<1>2. Typed
    BY TypedInit
<1>3. <<>> \o <<>> = <<>> /\ Len(<<>>) = 0 /\ 1..0 = {}
    BY EmptySeq
<1>4. Up = <<>> /\ Wait = <<>> /\ Down = <<>> /\ Seen = <<>>
    BY <1>1, <1>3 DEF Up, Ahead, Wait, Down, Seen, Held, Nothing, Sides
<1>5. \A s \in Sides : from[s] = Nothing /\ to[s] = Nothing /\ leg[s] = Nothing
      /\ Held(s).msgs = <<>> /\ Held(s).fds = <<>>
    BY <1>1, <1>3 DEF Held, Nothing
<1>6. Ended /\ Idle
    BY <1>1, <1>5 DEF Ended, Idle, Nothing
<1>7. Rounds
    BY <1>1, <1>3 DEF Rounds
<1>8. SameMaps
    BY <1>1 DEF SameMaps, Sides
<1>9. Covered /\ FdsFollow
    BY <1>3, <1>5, FdsOfEmpty DEF Covered, FdsFollow, Nothing
<1>10. Lives
    <2>1. Map = Begun /\ mine = Begun /\ theirs = Begun
        BY <1>1 DEF Map, Sides
    <2>2. Legal
        BY <1>1, <1>3, <1>4 DEF Legal
    <2>3. Roots
        BY <2>1 DEF Roots, Begun, Ids
    <2>4. ASSUME NEW x \in ClientId \cup ServerId
          PROVE  /\ mine[x] = None /\ theirs[x] = None /\ Map[x] = None
                 /\ NoId(Up, x) /\ NoWord(Up, x) /\ NoId(Down, x) /\ NoWord(Down, x) /\ NoId(Seen, x)
        <3>1. x \in Ids /\ x \notin {"display", "registry"}
            BY RelayAssumption DEF Ids
        <3>2. QED
            BY <1>3, <1>4, <2>1, <3>1 DEF Begun, NoId, NoWord
    <2>5. QED
        BY <2>2, <2>3, <2>4 DEF Lives, ClientLife, Unborn, ServerLife, Free
<1>11. QED
    BY <1>2, <1>6, <1>7, <1>8, <1>9, <1>10 DEF IInv

LEMMA IInvNext == IInv /\ [Next]_vars => IInv'
<1>1. IInv /\ [Next]_vars => Typed'
    BY TypedNext DEF IInv
<1>2. IInv /\ [Next]_vars => Ended' /\ Idle' /\ Rounds'
    BY EndedNext, IdleNext, RoundsNext DEF IInv
<1>3. IInv /\ [Next]_vars => Covered' /\ FdsFollow'
    BY FollowNext DEF Follow
<1>4. QED
    BY <1>1, <1>2, <1>3, SameMapsNext, LivesNext DEF IInv

LEMMA Inductive == Spec => []IInv
BY IInvInit, IInvNext, PTL DEF Spec

(* Messages of one id, the next use of it included, and those on their way  *)
(* to an object that is gone, are read as what their sender meant           *)
(* (id_map_set, id_map_del).                                                *)
THEOREM MessagesIdentified == Spec => []Identified
<1>1. IInv => Identified
    <2> SUFFICES ASSUME IInv, NEW s \in Sides, ~done, Held(s).msgs # <<>>,
                        NEW m, m = Head(Held(s).msgs), NEW i, i = ids[s][m.obj]
                 PROVE  IF m.iface \in Known THEN i = m.iface
                        ELSE i = None \/ (m.obj \in ServerId /\ i = "offer")
        BY DEF Identified
    <2>1. Typed /\ Lives /\ i = Map[m.obj]
        BY DEF IInv, SameMaps, Map, Sides
    <2>2. CASE s = "client"
        <3>1. Wait # <<>> /\ m = Wait[1]
            BY <2>1, <2>2, QueuesTyped, TailCuts DEF Wait
        <3>2. QED
            BY <2>1, <3>1, RequestKnown
    <2>3. CASE s = "upstream"
        <3>1. Down # <<>> /\ m = Down[1]
            BY <2>1, <2>3, QueuesTyped, TailCuts DEF Down
        <3>2. QED
            BY <2>1, <3>1, EventKnown
    <2>4. QED
        BY <2>2, <2>3 DEF Sides
<1>2. QED
    BY <1>1, Inductive, PTL

(* Whatever leg_read gets at a time and send_message finds room for, no     *)
(* descriptor is lost, left behind or another message's (fdq_pop).          *)
THEOREM DescriptorsFollow == Spec => []FdsFollow
<1>1. IInv => FdsFollow
    BY DEF IInv
<1>2. QED
    BY <1>1, Inductive, PTL

-----------------------------------------------------------------------------
(* The focus filter, a message at a time.                                   *)
Shown == [m \in Message |-> IF Dropped(m.iface, m) THEN <<>> ELSE <<Spoofed(m.iface, m)>>]

LEMMA FilteredMaps ==
    /\ Shown \in [Message -> Seq(Message)]
    /\ \A ms \in Seq(Message) : Filtered(ms) = FlatMap(Shown, ms)
<1>1. Shown \in [Message -> Seq(Message)]
    <2>1. \A m \in Message : <<>> \in Seq(Message) /\ <<Spoofed(m.iface, m)>> \in Seq(Message)
        BY SpoofedTyped, EmptySeq
    <2>2. QED
        BY <2>1 DEF Shown
<1>2. ASSUME NEW ms \in Seq(Message) PROVE Filtered(ms) = FlatMap(Shown, ms)
    <2>1. \A k \in DOMAIN ms : Shown[ms[k]] =
            IF Dropped(ms[k].iface, ms[k]) THEN <<>> ELSE <<Spoofed(ms[k].iface, ms[k])>>
        <3>1. \A k \in DOMAIN ms : ms[k] \in Message
            BY ElementOfSeq, LenProperties
        <3>2. QED
            BY <3>1, Zenon DEF Shown
    <2>2. [k \in DOMAIN ms |-> Shown[ms[k]]]
            = [k \in DOMAIN ms |-> IF Dropped(ms[k].iface, ms[k]) THEN <<>>
                                   ELSE <<Spoofed(ms[k].iface, ms[k])>>]
        BY <2>1, Zenon
    <2>3. QED
        BY <2>2, Zenon DEF Filtered, FlatMap
<1>3. QED
    BY <1>1, <1>2

LEMMA FilteredTyped == ASSUME NEW ms \in Seq(Message) PROVE Filtered(ms) \in Seq(Message)
<1>1. Shown \in [Message -> Seq(Message)]
    BY FilteredMaps
<1>2. FlatMap(Shown, ms) \in Seq(Message)
    BY <1>1, FlatMapTyped
<1>3. QED
    BY <1>2, FilteredMaps

LEMMA FilteredEmpty == Filtered(<<>>) = <<>>
<1>1. <<>> \in Seq(Message)
    BY EmptySeq
<1>2. QED
    BY <1>1, FilteredMaps, FlatMapEmpty, Zenon

LEMMA FilteredConcat ==
    ASSUME NEW a \in Seq(Message), NEW b \in Seq(Message)
    PROVE  Filtered(a \o b) = Filtered(a) \o Filtered(b)
<1>1. a \o b \in Seq(Message)
    BY ConcatProperties
<1>2. FlatMap(Shown, a \o b) = FlatMap(Shown, a) \o FlatMap(Shown, b)
    <2>1. Shown \in [Message -> Seq(Message)]
        BY FilteredMaps
    <2>2. QED
        BY <2>1, FlatMapConcat
<1>3. QED
    BY <1>1, <1>2, FilteredMaps, Zenon

LEMMA FilteredOne ==
    ASSUME NEW m \in Message
    PROVE  Filtered(<<m>>) = IF Dropped(m.iface, m) THEN <<>> ELSE <<Spoofed(m.iface, m)>>
<1>1. <<m>> \in Seq(Message)
    OBVIOUS
<1>2. FlatMap(Shown, <<m>>) = Shown[m]
    <2>1. Shown \in [Message -> Seq(Message)]
        BY FilteredMaps
    <2>2. QED
        BY <2>1, FlatMapOne
<1>3. Filtered(<<m>>) = Shown[m]
    BY <1>1, <1>2, FilteredMaps, Zenon
<1>4. QED
    BY <1>3 DEF Shown

(* What the client is shown is not filtered again.                          *)
LEMMA FilteredTwice ==
    ASSUME NEW m \in Message, ~Dropped(m.iface, m), NEW e, e = Spoofed(m.iface, m)
    PROVE  e \in Message /\ Filtered(<<e>>) = <<e>>
<1>1. e \in Message /\ e.iface = m.iface /\ e.op = m.op /\ e.type = m.type
    BY SpoofedTyped
<1>2. ~Dropped(e.iface, e)
    BY <1>1 DEF Dropped
<1>3. Spoofed(e.iface, e) = e
    BY <1>1, Zenon DEF Spoofed, Message, Fields
<1>4. QED
    BY <1>1, <1>2, <1>3, FilteredOne

-----------------------------------------------------------------------------
(* The channel's queues.                                                    *)
UpQ == IF "upstream" \in open THEN Up ELSE <<>>
DownQ == IF "client" \in open THEN Seen \o Filtered(Down) ELSE <<>>

LEMMA ChannelFilter == \A ms : Channel!Filtered(ms) = Filtered(ms)
<1>1. \A i, m : Channel!Dropped(i, m) = Dropped(i, m)
    BY DEF Channel!Dropped, Dropped, Channel!Relayable, Relayable,
           Channel!Known, Known, Channel!FdFree, FdFree
<1>2. \A i, m : Channel!Spoofed(i, m) = Spoofed(i, m)
    BY DEF Channel!Spoofed, Spoofed
<1>3. ASSUME NEW ms
      PROVE  [k \in DOMAIN ms |-> IF Channel!Dropped(ms[k].iface, ms[k]) THEN <<>>
                                  ELSE <<Channel!Spoofed(ms[k].iface, ms[k])>>]
           = [k \in DOMAIN ms |-> IF Dropped(ms[k].iface, ms[k]) THEN <<>>
                                  ELSE <<Spoofed(ms[k].iface, ms[k])>>]
    BY <1>1, <1>2
<1>4. ASSUME NEW q PROVE Channel!FlattenSeq(q) = FlattenSeq(q)
    BY DEF Channel!FlattenSeq, FlattenSeq
<1>5. QED
    BY <1>3, <1>4, Zenon DEF Channel!Filtered, Filtered

ChannelVars == <<UpQ, DownQ, open>>

LEMMA Stutters ==
    ASSUME UpQ' = UpQ, DownQ' = DownQ, open' = open
    PROVE  [Channel!ChannelNext]_ChannelVars
BY DEF ChannelVars

LEMMA IsRequest ==
    ASSUME "client" \in open, NEW m \in Message, UpQ \in Seq(Message), UpQ' = Append(UpQ, m),
           DownQ' = DownQ, open' = open
    PROVE  Channel!ChannelNext
<1>1. UpQ' # <<>> /\ UpQ' = Append(UpQ, UpQ'[Len(UpQ')])
    <2>1. UpQ'[Len(UpQ')] = m /\ UpQ' # <<>>
        BY AppendProperties, LenProperties
    <2>2. QED
        BY <2>1
<1>2. QED
    BY <1>1, Zenon DEF Channel!ChannelNext, Channel!Request, Channel!Grows, UpQ, DownQ, Up, Ahead, Wait, Seen, Down

LEMMA LastOf ==
    ASSUME NEW q \in Seq(Message), NEW m \in Message, NEW r, r = Append(q, m)
    PROVE  r # <<>> /\ r[Len(r)] = m /\ r = Append(q, r[Len(r)])
BY AppendProperties, LenProperties

LEMMA IsEvent ==
    ASSUME "upstream" \in open, NEW e \in Message, Filtered(<<e>>) = <<e>>, DownQ \in Seq(Message),
           DownQ' = Append(DownQ, e), UpQ' = UpQ, open' = open
    PROVE  Channel!ChannelNext
<1>1. DownQ' # <<>> /\ DownQ'[Len(DownQ')] = e /\ DownQ' = Append(DownQ, DownQ'[Len(DownQ')])
    BY LastOf
<1>2. Channel!Filtered(<<DownQ'[Len(DownQ')]>>) = <<DownQ'[Len(DownQ')]>>
    BY <1>1, ChannelFilter
<1>3. QED
    BY <1>1, <1>2, Zenon DEF Channel!ChannelNext, Channel!Event, Channel!Grows, UpQ, DownQ, Up, Ahead,
                      Wait, Seen, Down

LEMMA IsServe ==
    ASSUME UpQ # <<>>, UpQ' = Tail(UpQ), open' = open, DownQ \in Seq(Message),
           \/ DownQ' = DownQ
           \/ \E e \in Message : DownQ' = Append(DownQ, e) /\ e.op = "delete_id"
    PROVE  Channel!ChannelNext
<1>1. CASE DownQ' = DownQ
    BY <1>1, Zenon DEF Channel!ChannelNext, Channel!Serve, UpQ, DownQ, Up, Ahead, Wait, Seen, Down
<1>2. CASE \E e \in Message : DownQ' = Append(DownQ, e) /\ e.op = "delete_id"
    <2>1. PICK e \in Message : DownQ' = Append(DownQ, e) /\ e.op = "delete_id"
        BY <1>2
    <2>2. DownQ' # <<>> /\ DownQ'[Len(DownQ')].op = "delete_id" /\ DownQ' = Append(DownQ, DownQ'[Len(DownQ')])
        BY <2>1, LastOf
    <2>3. QED
        BY <2>2, Zenon DEF Channel!ChannelNext, Channel!Serve, Channel!Grows, UpQ, DownQ, Up, Ahead,
                    Wait, Seen, Down
<1>3. QED
    BY <1>1, <1>2

LEMMA IsDeliver ==
    ASSUME DownQ # <<>>, DownQ' = Tail(DownQ), UpQ' = UpQ, open' = open
    PROVE  Channel!ChannelNext
BY DEF Channel!ChannelNext, Channel!Deliver, UpQ, DownQ, Up, Ahead, Wait, Seen, Down

LEMMA IsHangUp ==
    ASSUME NEW s \in open, open' = open \ {s},
           IF s = "client" THEN DownQ' = <<>> /\ UpQ' = UpQ ELSE UpQ' = <<>> /\ DownQ' = DownQ
    PROVE  Channel!ChannelNext
<1>1. Channel!HangUp(s)
    BY DEF Channel!HangUp, UpQ, DownQ, Up, Ahead, Wait, Seen, Down
<1>2. QED
    BY <1>1 DEF Channel!ChannelNext

-----------------------------------------------------------------------------
(* Each step of the connection is one of the channel's, or none.            *)
LEMMA QsTyped == ASSUME Typed PROVE UpQ \in Seq(Message) /\ DownQ \in Seq(Message)
<1>1. <<>> \in Seq(Message) /\ Up \in Seq(Message) /\ Seen \in Seq(Message)
      /\ Filtered(Down) \in Seq(Message)
    BY QueuesTyped, FilteredTyped, EmptySeq
<1>2. Seen \o Filtered(Down) \in Seq(Message)
    BY <1>1, ConcatProperties
<1>3. QED
    BY <1>1, <1>2 DEF UpQ, DownQ

LEMMA RequestSent ==
    ASSUME Typed, NEW m \in Message, Send("client", m), UNCHANGED <<leg, to, open>>
    PROVE  [Channel!ChannelNext]_ChannelVars
<1>1. CASE done
    <2>1. UNCHANGED from
        BY <1>1 DEF Send, Typed, SocketsTyped
    <2>2. UpQ' = UpQ /\ DownQ' = DownQ
        BY <2>1, QueuesSame DEF UpQ, DownQ
    <2>3. QED
        BY <2>2, Stutters
<1>2. CASE ~done
    <2> DEFINE c == Carrying(m, <<"client", plan["client"]>>)
    <2>1. c \in Message /\ Up' = Append(Up, c) /\ Down' = Down /\ Seen' = Seen
        BY <1>2, RequestMoves, Zenon
    <2> HIDE DEF c
    <2>2. DownQ' = DownQ
        BY <2>1 DEF DownQ
    <2>3. CASE "upstream" \in open
        <3>1. UpQ' = Append(UpQ, c)
            BY <2>1, <2>3 DEF UpQ
        <3>2. "client" \in open
            BY DEF Send
        <3>3. QED
            BY <2>1, <2>2, <3>1, <3>2, QsTyped, IsRequest
    <2>4. CASE "upstream" \notin open
        <3>1. UpQ' = UpQ
            BY <2>4 DEF UpQ
        <3>2. QED
            BY <2>2, <3>1, Stutters
    <2>5. QED
        BY <2>3, <2>4
<1>3. QED
    BY <1>1, <1>2

LEMMA DownGrows ==
    ASSUME Typed, NEW c \in Message, Down' = Append(Down, c), Seen' = Seen, "client" \in open, open' = open
    PROVE  DownQ' = IF Dropped(c.iface, c) THEN DownQ ELSE Append(DownQ, Spoofed(c.iface, c))
<1> DEFINE f == Filtered(Down)
           e == Spoofed(c.iface, c)
<1>1. f \in Seq(Message) /\ Seen \in Seq(Message) /\ Down \in Seq(Message) /\ e \in Message
    BY QueuesTyped, FilteredTyped, SpoofedTyped
<1>2. Filtered(Append(Down, c)) = f \o Filtered(<<c>>)
    <2>1. <<c>> \in Seq(Message) /\ Append(Down, c) = Down \o <<c>>
        BY <1>1, AppendIsConcat
    <2>2. QED
        BY <1>1, <2>1, FilteredConcat, Zenon
<1>3. Filtered(<<c>>) = IF Dropped(c.iface, c) THEN <<>> ELSE <<e>>
    BY FilteredOne
<1>4. DownQ = Seen \o f /\ DownQ' = Seen \o (f \o Filtered(<<c>>))
    BY <1>2 DEF DownQ
<1> HIDE DEF f, e
<1>5. f \o <<>> = f /\ f \o <<e>> = Append(f, e) /\ Seen \o Append(f, e) = Append(Seen \o f, e)
    BY <1>1, ConcatEmptySeq, AppendIsConcat, AppendToSecond
<1>6. QED
    BY <1>3, <1>4, <1>5, Zenon DEF e

LEMMA EventSent ==
    ASSUME Typed, NEW m \in Message, Send("upstream", m), UNCHANGED <<leg, to, open>>
    PROVE  [Channel!ChannelNext]_ChannelVars
<1>1. CASE done
    <2>1. UNCHANGED from
        BY <1>1 DEF Send, Typed, SocketsTyped
    <2>2. UpQ' = UpQ /\ DownQ' = DownQ
        BY <2>1, QueuesSame DEF UpQ, DownQ
    <2>3. QED
        BY <2>2, Stutters
<1>2. CASE ~done
    <2>1. PICK c \in Message : Down' = Append(Down, c) /\ Up' = Up /\ Seen' = Seen
        BY <1>2, EventMoves
    <2>2. UpQ' = UpQ
        BY <2>1 DEF UpQ
    <2>3. CASE "client" \notin open \/ Dropped(c.iface, c)
        <3>1. DownQ' = DownQ
            <4>1. CASE "client" \in open
                BY <2>1, <2>3, <4>1, DownGrows
            <4>2. CASE "client" \notin open
                BY <4>2 DEF DownQ
            <4>3. QED
                BY <4>1, <4>2
        <3>2. QED
            BY <2>2, <3>1, Stutters
    <2>4. CASE "client" \in open /\ ~Dropped(c.iface, c)
        <3>1. PICK e : e = Spoofed(c.iface, c)
            OBVIOUS
        <3>2. DownQ' = Append(DownQ, e)
            BY <2>1, <2>4, <3>1, DownGrows
        <3>3. e \in Message /\ Filtered(<<e>>) = <<e>>
            BY <2>4, <3>1, FilteredTwice
        <3>4. "upstream" \in open
            BY DEF Send
        <3>5. QED
            BY <2>2, <3>2, <3>3, <3>4, QsTyped, IsEvent
    <2>5. QED
        BY <2>3, <2>4
<1>3. QED
    BY <1>1, <1>2

LEMMA RequestServed ==
    ASSUME Typed, CompositorReceives
    PROVE  [Channel!ChannelNext]_ChannelVars
<1>1. PICK m : m = Head(Ahead)
    OBVIOUS
<1>2. "upstream" \in open /\ open' = open
    BY DEF CompositorReceives, Receive, inner
<1>3. /\ Up # <<>> /\ m \in Message /\ Up' = Tail(Up) /\ Seen' = Seen
    BY <1>1, ServedMoves
<1>4. UpQ # <<>> /\ UpQ' = Tail(UpQ)
    BY <1>2, <1>3 DEF UpQ
<1>5. CASE Down' = Down \/ "client" \notin open
    <2>1. DownQ' = DownQ
        BY <1>2, <1>3, <1>5 DEF DownQ
    <2>2. QED
        BY <1>2, <1>4, <2>1, QsTyped, IsServe
<1>6. CASE Down' # Down /\ "client" \in open
    <2>1. PICK d : d = DeleteId(m.obj)
        OBVIOUS
    <2>2. Down' = Append(Down, d) /\ m.obj \in ClientId
        BY <1>1, <1>6, <2>1, ServedMoves
    <2>3. d \in Message /\ d.op = "delete_id" /\ ~Dropped(d.iface, d) /\ Spoofed(d.iface, d) = d
        <3>1. Plain("display", "display", "delete_id") \in Message
            BY PlainTyped DEF Ids, Interface, Known, Op
        <3>2. d.op = "delete_id" /\ d.iface = "display"
            BY <2>1 DEF DeleteId, Plain
        <3>3. d \in Message
            BY <2>1, <2>2, <3>1, Zenon DEF DeleteId, Message, Fields, Plain, Ids
        <3>4. QED
            BY <3>2, <3>3 DEF Dropped, Spoofed
    <2>4. DownQ' = Append(DownQ, d)
        BY <1>2, <1>3, <1>6, <2>2, <2>3, DownGrows
    <2>5. QED
        BY <1>2, <1>4, <2>3, <2>4, QsTyped, IsServe
<1>7. QED
    BY <1>5, <1>6

LEMMA EventDelivered ==
    ASSUME Typed, ClientReceives
    PROVE  [Channel!ChannelNext]_ChannelVars
<1>1. "client" \in open /\ open' = open
    BY DEF ClientReceives, Receive, inner
<1>2. /\ Seen # <<>> /\ Seen' = Tail(Seen) /\ Up' = Up /\ Down' = Down
    BY DeliveredMoves
<1>3. Seen \in Seq(Message) /\ Filtered(Down) \in Seq(Message)
    BY QueuesTyped, FilteredTyped
<1> DEFINE f == Filtered(Down)
<1> HIDE DEF f
<1>4. Seen \o f # <<>> /\ Tail(Seen \o f) = Tail(Seen) \o f
    BY <1>2, <1>3, HeadOfFirst DEF f
<1>5. DownQ = Seen \o f /\ DownQ' = Tail(Seen) \o f
    BY <1>1, <1>2 DEF DownQ, f
<1>6. DownQ # <<>> /\ DownQ' = Tail(DownQ) /\ UpQ' = UpQ
    BY <1>1, <1>2, <1>4, <1>5 DEF UpQ
<1>7. QED
    BY <1>1, <1>6, IsDeliver

LEMMA RequestPassed ==
    ASSUME IInv, ~done, Pump("client")
    PROVE  UpQ' = UpQ /\ DownQ' = DownQ /\ open' = open
<1>1. Typed /\ Lives /\ SameMaps /\ FdsFollow /\ Covered
    BY DEF IInv
<1>2. PICK m : m = Head(leg["client"].msgs)
    OBVIOUS
<1>3. Down' = Down /\ Seen' = Seen /\ (Ahead' = Append(Ahead, m) => Up' = Up)
    BY <1>1, <1>2, RequestPumped
<1>4. open' = open
    BY Zenon DEF Pump
<1>5. CASE "upstream" \in open
    <2>1. Ahead' = Append(Ahead, m)
        <3>1. to'["upstream"] = Put(to["upstream"], m)
            BY <1>1, <1>2, <1>5, RequestPasses, Zenon
        <3>2. QED
            BY <3>1 DEF Ahead, Put
    <2>2. QED
        BY <1>3, <1>4, <2>1 DEF UpQ, DownQ
<1>6. CASE "upstream" \notin open
    BY <1>3, <1>4, <1>6 DEF UpQ, DownQ
<1>7. QED
    BY <1>5, <1>6

LEMMA EventPassed ==
    ASSUME IInv, ~done, Pump("upstream")
    PROVE  UpQ' = UpQ /\ DownQ' = DownQ /\ open' = open
<1>1. Typed /\ Lives /\ SameMaps /\ FdsFollow /\ Covered
    BY DEF IInv
<1>2. PICK m : m = Head(leg["upstream"].msgs)
    OBVIOUS
<1>3. Up' = Up /\ m \in Message /\ m = Head(Down) /\ Down # <<>> /\ Down' = Tail(Down)
    BY <1>1, <1>2, EventPumped
<1>4. open' = open
    BY DEF Pump
<1>5. CASE "client" \in open
    <2> DEFINE e == Spoofed(m.iface, m)
               r == Tail(Down)
               f == Filtered(r)
    <2>1. Seen' = IF Dropped(m.iface, m) THEN Seen ELSE Append(Seen, e)
        <3>1. to'["client"] = IF ~Dropped(m.iface, m) THEN Put(to["client"], e) ELSE to["client"]
            BY <1>1, <1>2, <1>5, EventPasses, Zenon
        <3>2. QED
            BY <3>1 DEF Seen, Put
    <2>2. Down \in Seq(Message) /\ Seen \in Seq(Message) /\ e \in Message
        BY <1>1, <1>3, QueuesTyped, SpoofedTyped
    <2>3. r \in Seq(Message) /\ Down = <<m>> \o r /\ <<m>> \in Seq(Message)
        BY <1>3, <2>2, HeadThenTail, HeadTailProperties
    <2>4. f \in Seq(Message)
        BY <2>3, FilteredTyped, Zenon
    <2>5. Filtered(<<m>>) = IF Dropped(m.iface, m) THEN <<>> ELSE <<e>>
        BY <1>3, FilteredOne
    <2>6. DownQ = Seen \o Filtered(Down) /\ DownQ' = Seen' \o f
        BY <1>3, <1>4, <1>5 DEF DownQ
    <2> HIDE DEF e, r
    <2>7. Filtered(Down) = Filtered(<<m>>) \o f
        BY <2>3, FilteredConcat, Zenon
    <2> HIDE DEF f
    <2>8. CASE Dropped(m.iface, m)
        <3>1. Filtered(Down) = f
            BY <2>4, <2>5, <2>7, <2>8, ConcatEmptySeq
        <3>2. QED
            BY <1>3, <1>4, <2>1, <2>6, <2>8, <3>1 DEF UpQ
    <2>9. CASE ~Dropped(m.iface, m)
        <3>1. Seen' = Seen \o <<e>> /\ <<e>> \in Seq(Message)
            BY <2>1, <2>2, <2>9, AppendIsConcat
        <3>2. (Seen \o <<e>>) \o f = Seen \o (<<e>> \o f)
            BY <2>2, <2>4, <3>1, ConcatAssociative
        <3>3. DownQ' = DownQ
            BY <2>5, <2>6, <2>7, <2>9, <3>1, <3>2, Zenon
        <3>4. QED
            BY <1>3, <1>4, <3>3 DEF UpQ
    <2>10. QED
        BY <2>8, <2>9
<1>6. CASE "client" \notin open
    BY <1>3, <1>4, <1>6 DEF UpQ, DownQ
<1>7. QED
    BY <1>5, <1>6

(* The relay returns when everything the peer that is gone sent has been    *)
(* passed on; what is lost is what was for that peer.                       *)
LEMMA NothingLost ==
    ASSUME IInv, EndOfFile
    PROVE  UpQ' = UpQ /\ DownQ' = DownQ /\ open' = open
<1>1. Typed /\ Idle /\ Rounds /\ Ended
    BY DEF IInv
<1>2. /\ ~done /\ busy = None /\ todo # <<>> /\ from[Head(todo)] = Nothing
      /\ from' = [s \in Sides |-> Nothing] /\ UNCHANGED <<to, leg, open>>
    BY DEF EndOfFile
<1>3. PICK s \in Sides : s = Head(todo)
    BY <1>1, <1>2, HeadTailProperties DEF Typed, RelayTyped
<1>4. s \notin open
    <2>1. \E k \in 1..Len(todo) : todo[k] = s
        BY <1>1, <1>2, <1>3, TurnsTaken DEF Rounds
    <2>2. QED
        BY <1>1, <1>2, <1>3, <2>1 DEF Rounds
<1>5. \A p \in Sides : leg[p].msgs = <<>>
    BY <1>1, <1>2, RelayAssumption DEF Idle, Sides
<1>6. Ahead' = Ahead /\ Seen' = Seen
    BY <1>2 DEF Ahead, Seen
<1>7. CASE s = "client"
    <2>1. Wait' = Wait
        BY <1>2, <1>3, <1>7, Zenon DEF Wait, Held, Sides
    <2>2. QED
        BY <1>2, <1>4, <1>6, <1>7, <2>1 DEF UpQ, DownQ, Up
<1>8. CASE s = "upstream"
    <2>1. Down' = Down
        BY <1>2, <1>3, <1>8, Zenon DEF Down, Held, Sides
    <2>2. QED
        BY <1>2, <1>4, <1>6, <1>8, <2>1 DEF UpQ, DownQ
<1>9. QED
    BY <1>7, <1>8 DEF Sides

LEMMA PeerLeft ==
    ASSUME Typed, NEW s \in Sides, HangUp(s)
    PROVE  [Channel!ChannelNext]_ChannelVars
<1>1. s \in open /\ open' = open \ {s}
    BY DEF HangUp
<1>2. CASE s = "client"
    <2>1. Up' = Up /\ DownQ' = <<>> /\ UpQ' = UpQ
        BY <1>1, <1>2, HungUpMoves DEF UpQ, DownQ
    <2>2. QED
        BY <1>1, <1>2, <2>1, IsHangUp
<1>3. CASE s = "upstream"
    <2>1. Seen' = Seen /\ Down' = Down
        BY <1>3, HungUpMoves
    <2>2. UpQ' = <<>> /\ DownQ' = DownQ
        BY <1>1, <1>3, <2>1 DEF UpQ, DownQ
    <2>3. QED
        BY <1>1, <1>3, <2>2, IsHangUp
<1>4. QED
    BY <1>2, <1>3 DEF Sides

LEMMA ChannelStep == IInv /\ [Next]_vars => [Channel!ChannelNext]_ChannelVars
<1> SUFFICES ASSUME IInv, [Next]_vars PROVE [Channel!ChannelNext]_ChannelVars
    OBVIOUS
<1>1. Typed /\ Idle
    BY DEF IInv
<1>2. CASE ClientSends
    <2>1. ASSUME NEW o \in Ids, NEW x \in ClientId, NEW t \in Interface, ClientMakes(o, x, t)
          PROVE  [Channel!ChannelNext]_ChannelVars
        <3>1. Making(o, mine[o], x, t) \in Message
            BY <1>1, MakingTyped, Zenon DEF Typed, PeersTyped, Ids
        <3>2. QED
            BY <1>1, <2>1, <3>1, RequestSent DEF ClientMakes, inner
    <2>2. ASSUME NEW o \in Ids, NEW op \in {"destroy", "receive", "set_cursor"}, ClientAsks(o, op)
          PROVE  [Channel!ChannelNext]_ChannelVars
        <3>1. Plain(o, mine[o], op) \in Message
            BY <1>1, PlainTyped, Zenon DEF Typed, PeersTyped, Op
        <3>2. QED
            BY <1>1, <2>2, <3>1, RequestSent DEF ClientAsks, inner
    <2>3. QED
        BY <1>2, <2>1, <2>2 DEF ClientSends
<1>3. CASE CompositorSends
    <2>1. ASSUME NEW g \in plan.globals, Announces(g) PROVE [Channel!ChannelNext]_ChannelVars
        <3>1. g \in {"seat", "shell", "data", "tablets", "lease"}
            BY <1>1, <2>1 DEF Typed, PeersTyped, Plan
        <3>2. Global(g) \in Message
            BY <3>1, GlobalTyped DEF Interface, Known, FdFree
        <3>3. QED
            BY <1>1, <2>1, <3>2, EventSent DEF Announces, inner
    <2>2. ASSUME NEW o \in Ids, NEW op \in {"keymap", "enter", "leave", "configure", "drm_fd"},
                 NEW on \in BOOLEAN, CompositorTells(o, op, on)
          PROVE  [Channel!ChannelNext]_ChannelVars
        <3>1. Plain(o, theirs[o], op) \in Message
            BY <1>1, PlainTyped DEF Typed, PeersTyped, Op
        <3>2. [Plain(o, theirs[o], op) EXCEPT !.active = on] \in Message
            BY <3>1 DEF Message, Fields
        <3>3. QED
            BY <1>1, <2>2, <3>2, EventSent DEF CompositorTells, inner
    <2>3. ASSUME NEW o \in Ids, NEW x \in ServerId, NEW t \in Interface, CompositorMakes(o, x, t)
          PROVE  [Channel!ChannelNext]_ChannelVars
        <3>1. Making(o, theirs[o], x, t) \in Message
            BY <1>1, MakingTyped DEF Typed, PeersTyped, Ids
        <3>2. QED
            BY <1>1, <2>3, <3>1, EventSent DEF CompositorMakes, inner
    <2>4. QED
        BY <1>3, <2>1, <2>2, <2>3 DEF CompositorSends
<1>4. CASE ClientReceives \/ CompositorReceives
    BY <1>1, <1>4, EventDelivered, RequestServed
<1>5. ASSUME NEW s \in Sides, HangUp(s) PROVE [Channel!ChannelNext]_ChannelVars
    BY <1>1, <1>5, PeerLeft
<1>6. ASSUME NEW s \in Sides, Pump(s) PROVE [Channel!ChannelNext]_ChannelVars
    <2>1. ~done
        BY <1>1, <1>6, RelayAssumption, Zenon DEF Idle, Pump, Sides
    <2>2. QED
        BY <1>6, <2>1, RequestPassed, EventPassed, Stutters DEF Sides
<1>7. CASE EndOfFile
    BY <1>7, NothingLost, Stutters
<1>8. CASE LegRead
    <2>1. Up' = Up /\ Down' = Down /\ Seen' = Seen /\ open' = open
        BY <1>1, <1>8, ReadMoves, Zenon DEF LegRead
    <2>2. QED
        BY <2>1, Stutters DEF UpQ, DownQ
<1>9. ASSUME UNCHANGED <<from, to, leg, open>> PROVE [Channel!ChannelNext]_ChannelVars
    BY <1>9, QueuesSame, Stutters DEF UpQ, DownQ
<1>10. CASE Poll \/ ClientWaits \/ ClientResumes \/ UNCHANGED vars
    BY <1>9, <1>10 DEF Poll, ClientWaits, ClientResumes, vars, inner
<1>11. ASSUME NEW s \in Sides, Pumped(s) PROVE [Channel!ChannelNext]_ChannelVars
    BY <1>9, <1>11 DEF Pumped
<1>12. QED
    BY <1>2, <1>3, <1>4, <1>5, <1>6, <1>7, <1>8, <1>10, <1>11 DEF Next, Relay

(* Through the relay the two peers see what a channel with a focus filter   *)
(* would show them: nothing lost, repeated, reordered or altered, but for   *)
(* the three lies and the withheld globals, hang-ups included (pump,        *)
(* run_relay).                                                              *)
THEOREM RelayIsChannel == Spec => ChannelSpec
<1>1. Init => Channel!ChannelInit
    <2> SUFFICES ASSUME Init PROVE Channel!ChannelInit
        OBVIOUS
    <2>1. /\ from = [s \in Sides |-> Nothing] /\ to = [s \in Sides |-> Nothing]
          /\ leg = [s \in Sides |-> Nothing] /\ open = Sides
        BY DEF Init
    <2>2. <<>> \o <<>> = <<>>
        BY EmptySeq
    <2>3. Up = <<>> /\ Down = <<>> /\ Seen = <<>>
        BY <2>1, <2>2 DEF Up, Ahead, Wait, Down, Seen, Held, Nothing, Sides
    <2>4. UpQ = <<>> /\ DownQ = <<>>
        BY <2>1, <2>2, <2>3, FilteredEmpty DEF UpQ, DownQ
    <2>5. QED
        BY <2>1, <2>4 DEF Channel!ChannelInit, UpQ, DownQ, Up, Ahead, Wait, Seen, Down, Sides
<1>2. IInv /\ [Next]_vars => [Channel!ChannelNext]_ChannelVars
    BY ChannelStep
<1>3. QED
    BY <1>1, <1>2, Inductive, PTL DEF Spec, ChannelSpec, Channel!ChannelSpec, ChannelVars,
       UpQ, DownQ, Up, Ahead, Wait, Seen, Down
=============================================================================
