-------------------------- MODULE X11Relay_proofs --------------------------
(***************************************************************************)
(* Two things of x11-focus-proxy, for any sizes of buffers and whatever    *)
(* the peers do.                                                           *)
(*                                                                         *)
(* That server_to_client reads its lengths in the client's byte order.     *)
(* The order travels from thread to thread without a lock:                 *)
(* client_to_server stores it before the setup request leaves for the      *)
(* server, and server_to_client loads it when it has the first bytes of    *)
(* the reply.                                                              *)
(*                                                                         *)
(* That what arrives is what was sent.  A peer's line is what he has read, *)
(* what waits in his socket, what the thread holds and what waits in the   *)
(* other peer's socket, end to end: IInv says that it spells what the      *)
(* other peer wrote, for each way of looking at a message, and follows the *)
(* descriptors along it.                                                   *)
(***************************************************************************)
EXTENDS X11Relay, SequenceFacts, TLAPS

(* Writing uses up what a peer may write and nothing else of the plan.      *)
LEMMA PlanUsed ==
    ASSUME plan \in Plan, NEW s \in Sides, NEW ms, Write(s, ms), Len(ms) \in Nat
    PROVE  plan' \in Plan /\ plan'.order = plan.order /\ plan'.batches = plan.batches
<1>1. CASE s = "client"
    BY <1>1 DEF Write, Plan
<1>2. CASE s = "server"
    BY <1>2 DEF Write, Plan
<1>3. QED
    BY <1>1, <1>2 DEF Sides

(* The sockets, the threads, and a byte order that is right once it is      *)
(* known.                                                                   *)
Shape ==
    /\ DOMAIN from = Sides /\ DOMAIN to = Sides /\ DOMAIN got = Sides
    /\ plan \in Plan
    /\ big \in {None, plan.order}
    /\ up = [pc |-> up.pc, buf |-> up.buf, fds |-> up.fds]
    /\ down = [pc |-> down.pc, buf |-> down.buf, fds |-> down.fds, order |-> down.order]

(* Nothing has gone to the server before the order was stored, and nothing  *)
(* comes from a server that has read nothing.                               *)
Learnt ==
    (up.pc = "send" \/ to["server"] # <<>> \/ got["server"] # <<>> \/ from["server"] # <<>>)
        => big = plan.order

OrderInv == Shape /\ Learnt /\ Framed

LEMMA FramedInit == Init => OrderInv
<1> SUFFICES ASSUME Init PROVE OrderInv
    OBVIOUS
<1>1. plan \in Plan
    BY X11Assumption DEF Init
<1>2. QED
    BY <1>1 DEF Init, OrderInv, Shape, Learnt, Framed, Sides

LEMMA FramedNext ==
    ASSUME OrderInv, [Next]_vars
    PROVE  OrderInv'
<1> USE DEF OrderInv, Shape, Learnt, Framed, Sides
<1>1. ASSUME ClientWrites PROVE OrderInv'
    <2>1. PICK ms : Write("client", ms) /\ Len(ms) = 1
        BY <1>1 DEF ClientWrites
    <2>2. plan' \in Plan /\ plan'.order = plan.order
        BY <2>1, PlanUsed
    <2>3. from'["server"] = from["server"] /\ DOMAIN from' = Sides
        BY <2>1 DEF Write
    <2>4. QED
        BY <1>1, <2>2, <2>3 DEF ClientWrites
<1>2. ASSUME ServerWrites PROVE OrderInv'
    <2>1. PICK ms : Write("server", ms) /\ Len(ms) \in Nat
        BY <1>2 DEF ServerWrites
    <2>2. plan' \in Plan /\ plan'.order = plan.order
        BY <2>1, PlanUsed
    <2>3. DOMAIN from' = Sides
        BY <2>1 DEF Write
    <2>4. QED
        BY <1>2, <2>2, <2>3 DEF ServerWrites
<1>3. ASSUME NEW s \in Sides, Read(s) PROVE OrderInv'
    <2>1. /\ DOMAIN got' = Sides /\ DOMAIN to' = Sides
          /\ to[s] # <<>>
          /\ \A q \in Sides \ {s} : got'[q] = got[q] /\ to'[q] = to[q]
          /\ UNCHANGED <<from, up, down, big, plan>>
        BY <1>3 DEF Read
    <2>2. CASE s = "server"
        BY <2>1, <2>2 DEF Read
    <2>3. CASE s = "client"
        BY <2>1, <2>3
    <2>4. QED
        BY <2>2, <2>3
<1>4. ASSUME NEW s \in Sides, ReadEnd(s) \/ HangUp(s) PROVE OrderInv'
    BY <1>4 DEF ReadEnd, HangUp
<1>5. ASSUME Serve \/ Join PROVE OrderInv'
    <2>1. /\ from' \in {from, [s \in Sides |-> <<>>]}
          /\ up' \in {up, [up EXCEPT !.pc = "read"]}
          /\ down' \in {down, [down EXCEPT !.pc = "setup"]}
          /\ UNCHANGED <<to, got, big, plan>>
        BY <1>5 DEF Serve, Join, peers
    <2>2. QED
        BY <2>1
<1>6. ASSUME UpRead PROVE OrderInv'
    BY <1>6 DEF UpRead, peers
<1>7. ASSUME UpStore PROVE OrderInv'
    BY <1>7 DEF UpStore, peers
<1>8. ASSUME UpSend \/ UpEnd PROVE OrderInv'
    <2>1. DOMAIN to' = Sides /\ UNCHANGED <<from, got, down, big, plan>>
        BY <1>8 DEF UpSend, UpEnd, SendAll, peers
    <2>2. up' = [pc |-> up'.pc, buf |-> up'.buf, fds |-> up'.fds]
        BY <1>8 DEF UpSend, UpEnd
    <2>3. up'.pc = "send" \/ to'["server"] # <<>> => up.pc = "send" \/ to["server"] # <<>>
        BY <1>8, <2>2 DEF UpSend, UpEnd
    <2>4. QED
        BY <2>1, <2>2, <2>3
<1>9. ASSUME DownRead PROVE OrderInv'
    BY <1>9 DEF DownRead, peers
<1>10. ASSUME DownForward \/ DownEnd PROVE OrderInv'
    <2>1. DOMAIN to' = Sides /\ to'["server"] = to["server"]
        BY <1>10 DEF DownForward, DownEnd, SendAll
    <2>2. UNCHANGED <<from, up, got, big, plan>>
        BY <1>10 DEF DownForward, DownEnd, peers
    <2>3. down' = [pc |-> down'.pc, buf |-> down'.buf, fds |-> down'.fds, order |-> down'.order]
        BY <1>10 DEF DownForward, DownEnd
    <2>4. CASE DownForward
        BY <2>1, <2>2, <2>3, <2>4 DEF DownForward
    <2>5. CASE DownEnd
        BY <2>1, <2>2, <2>3, <2>5 DEF DownEnd
    <2>6. QED
        BY <1>10, <2>4, <2>5
<1>11. CASE UNCHANGED vars
    BY <1>11 DEF vars
<1>12. QED
    BY <1>1, <1>2, <1>3, <1>4, <1>5, <1>6, <1>7, <1>8, <1>9, <1>10, <1>11
    DEF Next, UpThread, DownThread

(* Every length of a reply or an event is read in the client's byte order,  *)
(* with sockets of any capacity and any peers.                              *)
THEOREM AlwaysFramed == Spec => []Framed
<1>1. OrderInv => Framed
    BY DEF OrderInv
<1>2. QED
    BY <1>1, FramedInit, FramedNext, PTL DEF Spec

-----------------------------------------------------------------------------
Fd == Kind \X Nat
Message == {m \in [kind : Kind, fds : Seq(Fd)] : m.kind = "focus" => m.fds = <<>>}
Packet == [msg : Message, att : Seq(Fd)]

(***************************************************************************)
(* K is what is looked at of a message: its kind, or the whole of it.      *)
(***************************************************************************)
Pass(K) == [m \in Message |-> IF Drop(m) THEN <<>> ELSE K[m]]
OfMsg(F) == [p \in Packet |-> F[p.msg]]

(***************************************************************************)
(* One direction of the connection: g has arrived, t, b and f are in the   *)
(* socket to the reader, in the relay, and in the socket from the writer,  *)
(* and w is what was written.                                              *)
(***************************************************************************)
Line(K, g, t, b, f, w) ==
    FlatMap(K, g) \o (FlatMap(OfMsg(K), t) \o (FlatMap(Pass(K), b) \o FlatMap(OfMsg(Pass(K)), f)))
      = FlatMap(Pass(K), w)

LEMMA PassTyped ==
    ASSUME NEW Q, NEW K \in [Message -> Seq(Q)]
    PROVE  /\ Pass(K) \in [Message -> Seq(Q)]
           /\ OfMsg(K) \in [Packet -> Seq(Q)]
           /\ OfMsg(Pass(K)) \in [Packet -> Seq(Q)]
<1>1. <<>> \in Seq(Q)
    BY EmptySeq
<1>2. Pass(K) \in [Message -> Seq(Q)]
    BY <1>1 DEF Pass
<1>3. \A p \in Packet : p.msg \in Message
    BY DEF Packet
<1>4. QED
    BY <1>2, <1>3 DEF OfMsg

(* What a line's parts become, as plain sequences.                          *)
LEMMA PartsTyped ==
    ASSUME NEW Q, NEW K \in [Message -> Seq(Q)], NEW g \in Seq(Message), NEW t \in Seq(Packet)
    PROVE  /\ FlatMap(K, g) \in Seq(Q) /\ FlatMap(Pass(K), g) \in Seq(Q)
           /\ FlatMap(OfMsg(K), t) \in Seq(Q) /\ FlatMap(OfMsg(Pass(K)), t) \in Seq(Q)
BY PassTyped, FlatMapTyped

LEMMA LineWrites ==
    ASSUME NEW Q, NEW K \in [Message -> Seq(Q)],
           NEW g \in Seq(Message), NEW t \in Seq(Packet), NEW b \in Seq(Message),
           NEW f \in Seq(Packet), NEW w \in Seq(Message),
           NEW ps \in Seq(Packet), NEW ms \in Seq(Message),
           Line(K, g, t, b, f, w),
           FlatMap(OfMsg(Pass(K)), ps) = FlatMap(Pass(K), ms)
    PROVE  Line(K, g, t, b, f \o ps, w \o ms)
<1>1. PICK G, T, B, F, W, P \in Seq(Q) :
        /\ G = FlatMap(K, g) /\ T = FlatMap(OfMsg(K), t) /\ B = FlatMap(Pass(K), b)
        /\ F = FlatMap(OfMsg(Pass(K)), f) /\ W = FlatMap(Pass(K), w) /\ P = FlatMap(Pass(K), ms)
    BY PartsTyped
<1>2. FlatMap(OfMsg(Pass(K)), f \o ps) = F \o P /\ FlatMap(Pass(K), w \o ms) = W \o P
    <2>1. PICK X \in [Packet -> Seq(Q)], Y \in [Message -> Seq(Q)] : X = OfMsg(Pass(K)) /\ Y = Pass(K)
        BY PassTyped
    <2>2. Splits(Packet, Q) /\ Splits(Message, Q)
        BY FlatMapLaw, Zenon
    <2>3. FlatMap(X, f \o ps) = FlatMap(X, f) \o FlatMap(X, ps)
        BY <2>2, Zenon DEF Splits
    <2>4. FlatMap(Y, w \o ms) = FlatMap(Y, w) \o FlatMap(Y, ms)
        BY <2>2, Zenon DEF Splits
    <2>5. QED
        BY <1>1, <2>1, <2>3, <2>4
<1>3. G \o (T \o (B \o F)) = W
    BY <1>1 DEF Line
<1>4. G \o (T \o (B \o (F \o P))) = (G \o (T \o (B \o F))) \o P
    <2>1. Associative(Q) /\ Closed(Q)
        BY ConcatLaws, Zenon
    <2>2. B \o F \in Seq(Q)
        BY <2>1, Zenon DEF Closed
    <2>3. T \o (B \o F) \in Seq(Q)
        BY <2>1, <2>2, Zenon DEF Closed
    <2>4. (B \o F) \o P = B \o (F \o P)
        BY <2>1, Zenon DEF Associative
    <2>5. (T \o (B \o F)) \o P = T \o ((B \o F) \o P)
        BY <2>1, <2>2, Zenon DEF Associative
    <2>6. (G \o (T \o (B \o F))) \o P = G \o ((T \o (B \o F)) \o P)
        BY <2>1, <2>3, Zenon DEF Associative
    <2>7. QED
        BY <2>4, <2>5, <2>6, Zenon
<1>5. QED
    BY <1>1, <1>2, <1>3, <1>4 DEF Line

LEMMA LineTakes ==
    ASSUME NEW Q, NEW K \in [Message -> Seq(Q)],
           NEW g \in Seq(Message), NEW t \in Seq(Packet),
           NEW f \in Seq(Packet), NEW w \in Seq(Message),
           NEW ps \in Seq(Packet), NEW ms \in Seq(Message),
           Line(K, g, t, <<>>, ps \o f, w),
           FlatMap(OfMsg(Pass(K)), ps) = FlatMap(Pass(K), ms)
    PROVE  Line(K, g, t, ms, f, w)
<1>1. PICK F, P \in Seq(Q) : F = FlatMap(OfMsg(Pass(K)), f) /\ P = FlatMap(Pass(K), ms)
    BY PartsTyped
<1>2. FlatMap(OfMsg(Pass(K)), ps \o f) = P \o F
    <2>1. PICK X \in [Packet -> Seq(Q)] : X = OfMsg(Pass(K))
        BY PassTyped
    <2>2. Splits(Packet, Q)
        BY FlatMapLaw, Zenon
    <2>3. FlatMap(X, ps \o f) = FlatMap(X, ps) \o FlatMap(X, f)
        BY <2>2, Zenon DEF Splits
    <2>4. QED
        BY <1>1, <2>1, <2>3
<1>3. FlatMap(Pass(K), <<>>) \o (P \o F) = P \o F
    <2>1. FlatMap(Pass(K), <<>>) = <<>>
        BY FlatMapEmpty
    <2>2. P \o F \in Seq(Q)
        BY ConcatProperties
    <2>3. QED
        BY <2>1, <2>2, ConcatEmptySeq
<1>4. QED
    BY <1>1, <1>2, <1>3 DEF Line

LEMMA LineSends ==
    ASSUME NEW Q, NEW K \in [Message -> Seq(Q)],
           NEW g \in Seq(Message), NEW t \in Seq(Packet), NEW b \in Seq(Message),
           NEW f \in Seq(Packet), NEW w \in Seq(Message),
           NEW m \in Message, NEW p \in Packet, p.msg = m, ~Drop(m),
           Line(K, g, t, <<m>> \o b, f, w)
    PROVE  Line(K, g, t \o <<p>>, b, f, w)
<1>1. PICK T, B, F, M \in Seq(Q) :
        /\ T = FlatMap(OfMsg(K), t) /\ B = FlatMap(Pass(K), b)
        /\ F = FlatMap(OfMsg(Pass(K)), f) /\ M = K[m]
    BY PartsTyped
<1>2. FlatMap(Pass(K), <<m>> \o b) = M \o B
    <2>1. Pass(K) \in [Message -> Seq(Q)] /\ Pass(K)[m] = M
        BY <1>1, PassTyped DEF Pass
    <2>2. FlatMap(Pass(K), <<m>> \o b) = Pass(K)[m] \o FlatMap(Pass(K), b)
        BY <2>1, FlatMapFirst
    <2>3. QED
        BY <1>1, <2>1, <2>2
<1>3. FlatMap(OfMsg(K), t \o <<p>>) = T \o M
    <2>1. OfMsg(K) \in [Packet -> Seq(Q)] /\ OfMsg(K)[p] = M
        BY <1>1, PassTyped DEF OfMsg
    <2>2. FlatMap(OfMsg(K), t \o <<p>>) = FlatMap(OfMsg(K), t) \o OfMsg(K)[p]
        BY <2>1, FlatMapLast
    <2>3. QED
        BY <1>1, <2>1, <2>2
<1>4. T \o ((M \o B) \o F) = (T \o M) \o (B \o F)
    <2>1. Associative(Q) /\ Closed(Q)
        BY ConcatLaws, Zenon
    <2>2. B \o F \in Seq(Q)
        BY <2>1, Zenon DEF Closed
    <2>3. (M \o B) \o F = M \o (B \o F)
        BY <2>1, Zenon DEF Associative
    <2>4. (T \o M) \o (B \o F) = T \o (M \o (B \o F))
        BY <2>1, <2>2, Zenon DEF Associative
    <2>5. QED
        BY <2>3, <2>4, Zenon
<1>5. QED
    BY <1>1, <1>2, <1>3, <1>4 DEF Line

LEMMA LineDrops ==
    ASSUME NEW Q, NEW K \in [Message -> Seq(Q)],
           NEW g, NEW t, NEW f, NEW w, NEW m \in Message, Drop(m),
           Line(K, g, t, <<m>>, f, w)
    PROVE  Line(K, g, t, <<>>, f, w)
<1>1. FlatMap(Pass(K), <<m>>) = <<>>
    <2>1. Pass(K) \in [Message -> Seq(Q)]
        BY PassTyped
    <2>2. FlatMap(Pass(K), <<m>>) = Pass(K)[m]
        BY <2>1, FlatMapOne
    <2>3. QED
        BY <2>2 DEF Pass
<1>2. FlatMap(Pass(K), <<>>) = <<>>
    BY FlatMapEmpty
<1>3. QED
    BY <1>1, <1>2 DEF Line

LEMMA LineReads ==
    ASSUME NEW Q, NEW K \in [Message -> Seq(Q)],
           NEW g \in Seq(Message), NEW t \in Seq(Packet), NEW b \in Seq(Message),
           NEW f \in Seq(Packet), NEW w,
           NEW p \in Packet, NEW m \in Message, K[m] = K[p.msg],
           Line(K, g, <<p>> \o t, b, f, w)
    PROVE  Line(K, g \o <<m>>, t, b, f, w)
<1>1. PICK G, T, B, F, M \in Seq(Q) :
        /\ G = FlatMap(K, g) /\ T = FlatMap(OfMsg(K), t) /\ B = FlatMap(Pass(K), b)
        /\ F = FlatMap(OfMsg(Pass(K)), f) /\ M = K[m]
    BY PartsTyped
<1>2. FlatMap(K, g \o <<m>>) = G \o M
    <2>1. FlatMap(K, g \o <<m>>) = FlatMap(K, g) \o K[m]
        BY FlatMapLast
    <2>2. QED
        BY <1>1, <2>1
<1>3. FlatMap(OfMsg(K), <<p>> \o t) = M \o T
    <2>1. OfMsg(K) \in [Packet -> Seq(Q)] /\ OfMsg(K)[p] = M
        BY <1>1, PassTyped DEF OfMsg
    <2>2. FlatMap(OfMsg(K), <<p>> \o t) = OfMsg(K)[p] \o FlatMap(OfMsg(K), t)
        BY <2>1, FlatMapFirst
    <2>3. QED
        BY <1>1, <2>1, <2>2
<1>4. G \o ((M \o T) \o (B \o F)) = (G \o M) \o (T \o (B \o F))
    <2>1. Associative(Q) /\ Closed(Q)
        BY ConcatLaws, Zenon
    <2>2. B \o F \in Seq(Q)
        BY <2>1, Zenon DEF Closed
    <2>3. T \o (B \o F) \in Seq(Q)
        BY <2>1, <2>2, Zenon DEF Closed
    <2>4. (M \o T) \o (B \o F) = M \o (T \o (B \o F))
        BY <2>1, <2>2, Zenon DEF Associative
    <2>5. (G \o M) \o (T \o (B \o F)) = G \o (M \o (T \o (B \o F)))
        BY <2>1, <2>3, Zenon DEF Associative
    <2>6. QED
        BY <2>4, <2>5, Zenon
<1>5. QED
    BY <1>1, <1>2, <1>3, <1>4 DEF Line

-----------------------------------------------------------------------------
(***************************************************************************)
(* The descriptors that travel with the packets t, and those meant for the *)
(* messages in them, and for the messages ms.                              *)
(***************************************************************************)
Att == [p \in Packet |-> p.att]
FdsOf == [m \in Message |-> m.fds]
Atts(t) == FlatMap(Att, t)
Fds(t) == FlatMap(OfMsg(FdsOf), t)
MFds(ms) == FlatMap(FdsOf, ms)

(***************************************************************************)
(* A reader holds h, t is in his socket, and b is in the relay with the    *)
(* descriptors d it has for the next message: nothing is missing, and no   *)
(* message overtakes its descriptors.                                      *)
(***************************************************************************)
Due(h, t, b, d) == h \o (Atts(t) \o d) = Fds(t) \o MFds(b)
Early(h, t) == \A x, y \in Seq(Packet) :
    t = x \o y => \E r \in Seq(Fd) : h \o Atts(x) = Fds(x) \o r

LEMMA FdMaps ==
    /\ Att \in [Packet -> Seq(Fd)]
    /\ FdsOf \in [Message -> Seq(Fd)]
    /\ OfMsg(FdsOf) \in [Packet -> Seq(Fd)]
<1>1. Att \in [Packet -> Seq(Fd)]
    BY DEF Att, Packet
<1>2. FdsOf \in [Message -> Seq(Fd)]
    BY DEF FdsOf, Message
<1>3. QED
    BY <1>1, <1>2, PassTyped

LEMMA FdsTyped ==
    ASSUME NEW t \in Seq(Packet), NEW b \in Seq(Message)
    PROVE  Atts(t) \in Seq(Fd) /\ Fds(t) \in Seq(Fd) /\ MFds(b) \in Seq(Fd)
BY FdMaps, FlatMapTyped DEF Atts, Fds, MFds

LEMMA FdsEmpty == Atts(<<>>) = <<>> /\ Fds(<<>>) = <<>> /\ MFds(<<>>) = <<>>
BY FlatMapEmpty DEF Atts, Fds, MFds

LEMMA FdsLast ==
    ASSUME NEW t \in Seq(Packet), NEW p \in Packet
    PROVE  /\ Atts(t \o <<p>>) = Atts(t) \o p.att
           /\ Fds(t \o <<p>>) = Fds(t) \o p.msg.fds
<1>1. Att[p] = p.att /\ OfMsg(FdsOf)[p] = p.msg.fds
    BY DEF Att, OfMsg, FdsOf, Packet
<1>2. FlatMap(Att, t \o <<p>>) = FlatMap(Att, t) \o Att[p]
    BY FdMaps, FlatMapLast
<1>3. FlatMap(OfMsg(FdsOf), t \o <<p>>) = FlatMap(OfMsg(FdsOf), t) \o OfMsg(FdsOf)[p]
    BY FdMaps, FlatMapLast
<1>4. QED
    BY <1>1, <1>2, <1>3 DEF Atts, Fds

LEMMA FdsFirst ==
    ASSUME NEW t \in Seq(Packet), NEW p \in Packet
    PROVE  /\ Atts(<<p>> \o t) = p.att \o Atts(t)
           /\ Fds(<<p>> \o t) = p.msg.fds \o Fds(t)
<1>1. Att[p] = p.att /\ OfMsg(FdsOf)[p] = p.msg.fds
    BY DEF Att, OfMsg, FdsOf, Packet
<1>2. FlatMap(Att, <<p>> \o t) = Att[p] \o FlatMap(Att, t)
    BY FdMaps, FlatMapFirst
<1>3. FlatMap(OfMsg(FdsOf), <<p>> \o t) = OfMsg(FdsOf)[p] \o FlatMap(OfMsg(FdsOf), t)
    BY FdMaps, FlatMapFirst
<1>4. QED
    BY <1>1, <1>2, <1>3 DEF Atts, Fds

LEMMA MFdsFirst ==
    ASSUME NEW b \in Seq(Message), NEW m \in Message
    PROVE  MFds(<<m>> \o b) = m.fds \o MFds(b)
<1>1. FdsOf[m] = m.fds
    BY DEF FdsOf
<1>2. FlatMap(FdsOf, <<m>> \o b) = FdsOf[m] \o FlatMap(FdsOf, b)
    BY FdMaps, FlatMapFirst
<1>3. QED
    BY <1>1, <1>2 DEF MFds

(* Where a list with one element more is cut: at its end, or before.        *)
LEMMA CutBefore ==
    ASSUME NEW S, NEW t \in Seq(S), NEW p \in S, NEW x \in Seq(S), NEW y \in Seq(S),
           NEW f, f = <<p>>, t \o f = x \o y, y # <<>>
    PROVE  /\ SubSeq(t, Len(x) + 1, Len(t)) \in Seq(S)
           /\ t = x \o SubSeq(t, Len(x) + 1, Len(t))
<1>1. f \in Seq(S) /\ Len(f) = 1
    OBVIOUS
<1>2. Len(x) \in 0..Len(t)
    <2>1. Len(y) \in Nat \ {0}
        BY LenProperties, EmptySeq
    <2>2. Len(f) <= Len(y)
        BY <1>1, <2>1
    <2>3. QED
        BY <1>1, <2>2, InFirst
<1>3. SubSeq(t, 1, Len(x)) = x
    <2>1. QED
        BY <1>1, <1>2, FirstInL
<1> DEFINE n == Len(x)
<1>4. n \in 0..Len(t)
    BY <1>2
<1>5. (<<>> \o SubSeq(t, 1, n)) \o SubSeq(t, n + 1, Len(t)) = <<>> \o t
    <2>1. <<>> \in Seq(S)
        BY EmptySeq
    <2> HIDE DEF n
    <2>2. QED
        BY <1>4, <2>1, MovedAcross
<1>6. <<>> \o t = t /\ <<>> \o x = x
    BY ConcatEmptySeq
<1>7. SubSeq(t, n + 1, Len(t)) \in Seq(S)
    BY <1>2, SubSeqTyped, LenProperties
<1>8. QED
    BY <1>3, <1>5, <1>6, <1>7

-----------------------------------------------------------------------------
LEMMA EmptyAround == \A S : \A a \in Seq(S) : <<>> \o a = a /\ a \o <<>> = a
BY ConcatEmptySeq

LEMMA DueSends ==
    ASSUME NEW h \in Seq(Fd), NEW t \in Seq(Packet), NEW m \in Message,
           NEW b \in Seq(Message), NEW d \in Seq(Fd), NEW p \in Packet,
           p.msg = m, p.att = d, Due(h, t, <<m>> \o b, d)
    PROVE  Due(h, t \o <<p>>, b, <<>>)
<1>1. PICK A, F, B, x \in Seq(Fd) : A = Atts(t) /\ F = Fds(t) /\ B = MFds(b) /\ x = m.fds
    BY FdsTyped DEF Message
<1>2. Atts(t \o <<p>>) = A \o d /\ Fds(t \o <<p>>) = F \o x
    BY <1>1, FdsLast
<1>3. MFds(<<m>> \o b) = x \o B
    BY <1>1, MFdsFirst
<1>4. h \o (A \o d) = F \o (x \o B)
    BY <1>1, <1>3 DEF Due
<1>5. F \o (x \o B) = (F \o x) \o B
    <2>1. Associative(Fd)
        BY ConcatLaws, Zenon
    <2>2. QED
        BY <2>1, Zenon DEF Associative
<1>6. (A \o d) \o <<>> = A \o d
    <2>1. Closed(Fd)
        BY ConcatLaws, Zenon
    <2>2. A \o d \in Seq(Fd)
        BY <2>1, Zenon DEF Closed
    <2>3. QED
        BY <2>2, EmptyAround, Zenon
<1>7. Due(h, t \o <<p>>, b, <<>>) <=> h \o ((A \o d) \o <<>>) = (F \o x) \o B
    BY <1>1, <1>2, Zenon DEF Due
<1>8. QED
    BY <1>4, <1>5, <1>6, <1>7, Zenon

LEMMA EarlySends ==
    ASSUME NEW h \in Seq(Fd), NEW t \in Seq(Packet), NEW b \in Seq(Message), NEW p \in Packet,
           Early(h, t), Due(h, t \o <<p>>, b, <<>>)
    PROVE  Early(h, t \o <<p>>)
<1>1. SUFFICES ASSUME NEW x \in Seq(Packet), NEW y \in Seq(Packet), t \o <<p>> = x \o y
               PROVE  \E r \in Seq(Fd) : h \o Atts(x) = Fds(x) \o r
    BY DEF Early
<1>2. CASE y = <<>>
    <2>1. x = t \o <<p>>
        <3>1. x \o <<>> = x
            BY EmptyAround, Zenon
        <3>2. QED
            BY <1>1, <1>2, <3>1, Zenon
    <2>2. Due(h, x, b, <<>>)
        BY <2>1
    <2>3. Atts(x) \o <<>> = Atts(x)
        BY FdsTyped, ConcatEmptySeq
    <2>4. MFds(b) \in Seq(Fd)
        BY FdsTyped
    <2>5. h \o Atts(x) = Fds(x) \o MFds(b)
        BY <2>2, <2>3 DEF Due
    <2>6. QED
        BY <2>4, <2>5
<1>3. CASE y # <<>>
    <2>1. PICK z \in Seq(Packet) : t = x \o z
        <3> DEFINE o == <<p>>
                   z == SubSeq(t, Len(x) + 1, Len(t))
        <3>1. o = <<p>> /\ t \o o = x \o y
            BY <1>1
        <3> HIDE DEF o
        <3>2. z \in Seq(Packet) /\ t = x \o z
            BY <1>3, <3>1, CutBefore
        <3> HIDE DEF z
        <3>3. QED
            BY <3>2
    <2>2. QED
        BY <2>1 DEF Early
<1>4. QED
    BY <1>2, <1>3

LEMMA DueTakes ==
    ASSUME NEW h \in Seq(Fd), NEW t \in Seq(Packet), NEW b \in Seq(Message), NEW d \in Seq(Fd),
           d = MFds(b), Due(h, t, <<>>, <<>>)
    PROVE  Due(h, t, b, d)
<1>1. PICK A, F \in Seq(Fd) : A = Atts(t) /\ F = Fds(t)
    BY FdsTyped
<1>2. h \o A = F
    <2>1. h \o (A \o <<>>) = F \o <<>>
        BY <1>1, FdsEmpty DEF Due
    <2>2. A \o <<>> = A /\ F \o <<>> = F
        BY EmptyAround, Zenon
    <2>3. QED
        BY <2>1, <2>2, Zenon
<1>3. (h \o A) \o d = h \o (A \o d)
    <2>1. Associative(Fd)
        BY ConcatLaws, Zenon
    <2>2. QED
        BY <2>1, Zenon DEF Associative
<1>4. h \o (A \o d) = F \o d
    BY <1>2, <1>3, Zenon
<1>5. QED
    BY <1>1, <1>4, Zenon DEF Due

LEMMA DueReads ==
    ASSUME NEW h \in Seq(Fd), NEW t \in Seq(Packet), NEW b \in Seq(Message), NEW d \in Seq(Fd),
           NEW p \in Packet, NEW q, q = <<p>> \o t, Early(h, q), Due(h, q, b, d)
    PROVE  \E k \in Seq(Fd) :
             h \o p.att = p.msg.fds \o k /\ Early(k, t) /\ Due(k, t, b, d)
<1>1. PICK a, f \in Seq(Fd) : a = p.att /\ f = p.msg.fds
    BY DEF Packet, Message
<1>2. Associative(Fd) /\ Closed(Fd)
    BY ConcatLaws, Zenon
<1>2b. \A x, y \in Seq(Fd) : (f \o x) \o y = f \o (x \o y)
    BY <1>2, Zenon DEF Associative
<1>3. \A x \in Seq(Packet) : Atts(<<p>> \o x) = a \o Atts(x) /\ Fds(<<p>> \o x) = f \o Fds(x)
    BY <1>1, FdsFirst
<1>4. \A x \in Seq(Packet) : Atts(x) \in Seq(Fd) /\ Fds(x) \in Seq(Fd)
    BY FdsTyped, EmptySeq
<1> DEFINE o == <<p>>
<1>5. o \in Seq(Packet) /\ <<>> \in Seq(Packet) /\ o \o <<>> = o
    BY EmptySeq
<1>6. PICK k \in Seq(Fd) : h \o a = f \o k
    <2>1. Atts(o) = a /\ Fds(o) = f
        <3>1. Atts(o \o <<>>) = a \o <<>> /\ Fds(o \o <<>>) = f \o <<>>
            BY <1>3, <1>5, FdsEmpty
        <3>2. a \o <<>> = a /\ f \o <<>> = f
            BY EmptyAround, Zenon
        <3>3. QED
            BY <1>5, <3>1, <3>2, Zenon
    <2>2. \E r \in Seq(Fd) : h \o Atts(o) = Fds(o) \o r
        <3> HIDE DEF o
        <3>1. q = o \o t
            BY DEF o
        <3>2. QED
            BY <1>5, <3>1, Zenon DEF Early
    <2>3. QED
        BY <2>1, <2>2, Zenon
(* What h and f add to both sides goes.                                     *)
<1>7. ASSUME NEW u \in Seq(Fd), NEW v \in Seq(Fd), h \o (a \o u) = f \o v PROVE k \o u = v
    <2>1. h \o (a \o u) = (h \o a) \o u /\ (f \o k) \o u = f \o (k \o u)
        BY <1>2, Zenon DEF Associative
    <2>2. f \o (k \o u) = f \o v
        BY <1>6, <1>7, <2>1, Zenon
    <2>3. k \o u \in Seq(Fd)
        BY <1>2, Zenon DEF Closed
    <2>4. \A x \in Seq(Fd) : \A y, z \in Seq(Fd) : x \o y = x \o z => y = z
        <3>1. ASSUME NEW x \in Seq(Fd) PROVE \A y, z \in Seq(Fd) : x \o y = x \o z => y = z
            BY SameBehind
        <3>2. QED
            BY <3>1
    <2>5. QED
        BY <2>2, <2>3, <2>4, Zenon
<1>8. Early(k, t)
    <2>1. SUFFICES ASSUME NEW x \in Seq(Packet), NEW y \in Seq(Packet), t = x \o y
                   PROVE  \E r \in Seq(Fd) : k \o Atts(x) = Fds(x) \o r
        BY DEF Early
    <2>2. q = (o \o x) \o y /\ o \o x \in Seq(Packet)
        <3> HIDE DEF o
        <3>1. Associative(Packet) /\ Closed(Packet)
            BY ConcatLaws, Zenon
        <3>2. (o \o x) \o y = o \o (x \o y)
            BY <1>5, <3>1, Zenon DEF Associative
        <3>3. o \o x \in Seq(Packet)
            BY <1>5, <3>1, Zenon DEF Closed
        <3>4. q = o \o t
            BY DEF o
        <3>5. QED
            BY <2>1, <3>2, <3>3, <3>4, Zenon
    <2>3. PICK r \in Seq(Fd) : h \o Atts(o \o x) = Fds(o \o x) \o r
        <3> HIDE DEF o
        <3>1. QED
            BY <2>2, Zenon DEF Early
    <2>4. PICK X, Y \in Seq(Fd) : X = Atts(x) /\ Y = Fds(x)
        BY <1>4
    <2>5. h \o (a \o X) = (f \o Y) \o r
        BY <1>3, <2>3, <2>4
    <2>6. (f \o Y) \o r = f \o (Y \o r)
        BY <1>2b, Zenon
    <2>7. Y \o r \in Seq(Fd)
        BY <1>2, Zenon DEF Closed
    <2>8. PICK v \in Seq(Fd) : v = Y \o r
        BY <2>7
    <2>9. h \o (a \o X) = f \o v
        BY <2>5, <2>6, <2>8, Zenon
    <2>10. k \o X = v
        BY <1>7, <2>9, Zenon
    <2>11. k \o X = Y \o r
        BY <2>8, <2>10, Zenon
    <2>12. QED
        BY <2>4, <2>11, Zenon
<1>9. Due(k, t, b, d)
    <2>1. PICK X, Y, B \in Seq(Fd) : X = Atts(t) /\ Y = Fds(t) /\ B = MFds(b)
        BY FdsTyped
    <2>2. h \o ((a \o X) \o d) = (f \o Y) \o B
        BY <1>3, <2>1 DEF Due
    <2>3. (a \o X) \o d = a \o (X \o d)
        BY <1>2, Zenon DEF Associative
    <2>4. (f \o Y) \o B = f \o (Y \o B)
        BY <1>2b, Zenon
    <2>5. X \o d \in Seq(Fd)
        BY <1>2, Zenon DEF Closed
    <2>6. Y \o B \in Seq(Fd)
        BY <1>2, Zenon DEF Closed
    <2>7. PICK u, v \in Seq(Fd) : u = X \o d /\ v = Y \o B
        BY <2>5, <2>6
    <2>8. h \o (a \o u) = f \o v
        BY <2>2, <2>3, <2>4, <2>7, Zenon
    <2>9. k \o u = v
        BY <1>7, <2>8, Zenon
    <2>10. k \o (X \o d) = Y \o B
        BY <2>7, <2>9, Zenon
    <2>11. QED
        BY <2>1, <2>10, Zenon DEF Due
<1>10. QED
    BY <1>1, <1>6, <1>8, <1>9

-----------------------------------------------------------------------------
(* The client sends nothing that server_to_client would drop.               *)
Request == {m \in Message : ~Drop(m)}
Requested == [msg : Request, att : Seq(Fd)]
(* A packet with the descriptors of its message and no others.              *)
Owned == {p \in Packet : p.att = p.msg.fds}

Typed ==
    /\ from \in [Sides -> Seq(Packet)] /\ to \in [Sides -> Seq(Packet)]
    /\ from["client"] \in Seq(Requested)
    /\ up = [pc |-> up.pc, buf |-> up.buf, fds |-> up.fds]
    /\ down = [pc |-> down.pc, buf |-> down.buf, fds |-> down.fds, order |-> down.order]
    /\ up.buf \in Seq(Request) /\ up.fds \in Seq(Fd)
    /\ down.buf \in Seq(Message) /\ down.fds \in Seq(Fd)
    /\ held \in [Sides -> Seq(Fd)]
    /\ wrote \in [Sides -> Seq(Message)] /\ got \in [Sides -> Seq(Message)]
    /\ plan \in Plan

(* Where the two threads are, and what that says of their buffers.          *)
Placed ==
    /\ up.pc \in {"new", "read", "store", "send", "ended"}
    /\ down.pc \in {"new", "setup", "read", "send", "ended"}
    /\ up.pc = "new" <=> down.pc = "new"
    /\ up.pc \in {"new", "read"} => up.buf = <<>> /\ up.fds = <<>>
    /\ down.pc \in {"new", "setup", "read"} => down.buf = <<>> /\ down.fds = <<>>
    /\ up.pc \in {"store", "send"} => up.buf # <<>>
    /\ down.pc = "send" => Len(down.buf) = 1

(* A connection whose second thread was never there has carried nothing.    *)
Unserved == up.pc = "new" =>
    /\ shut = {}
    /\ \A s \in Sides : to[s] = <<>> /\ got[s] = <<>>
    /\ heard # {} => closed

(* What the end of a thread says: its reader is gone, or its writer is and  *)
(* nothing of his is left.                                                  *)
Drained(b, d, s) ==
    \/ s \notin open
    \/ b = <<>> /\ d = <<>> /\ from[Across(s)] = <<>> /\ Across(s) \notin open

Stopped ==
    /\ "server" \in shut => up.pc = "ended"
    /\ "client" \in shut => down.pc = "ended"
    /\ closed /\ up.pc # "new" => up.pc = "ended" /\ down.pc = "ended"
    /\ up.pc = "ended" => Drained(up.buf, up.fds, "server")
    /\ down.pc = "ended" => Drained(down.buf, down.fds, "client")
    /\ heard \subseteq Sides \ open
    /\ open \subseteq Sides /\ shut \subseteq Sides
    /\ \A s \in heard : up.pc # "new" => Across(s) \notin open

Buf(s) == IF s = "server" THEN up.buf ELSE down.buf
BufFds(s) == IF s = "server" THEN up.fds ELSE down.fds

(* What is looked at of a message: its kind, and the whole of it where the  *)
(* server writes every message by itself.                                   *)
Look == Kind \union Message
KindOf == [m \in Message |-> <<m.kind>>]
Whole == [m \in Message |-> <<m>>]
Looks == IF plan.batches THEN {KindOf} ELSE {KindOf, Whole}

LineOf(s) == \A K \in Looks :
    Line(K, got[s], to[s], Buf(s), from[Across(s)], wrote[Across(s)])
FdsFollow(s) == Early(held[s], to[s]) /\ Due(held[s], to[s], Buf(s), BufFds(s))

(* Nothing is lost, made up or out of order on the way to a peer.           *)
Carried == \A s \in open : up.pc # "new" \/ ~closed => LineOf(s)

(* What a peer has read is the beginning of what was to arrive, also when   *)
(* he has closed his socket and the line to him is cut.                     *)
Prefixed == \A s \in Sides : \A K \in Looks :
    \E r \in Seq(Look) : FlatMap(K, got[s]) \o r = FlatMap(Pass(K), wrote[Across(s)])

(* Who read to the end has read all of it.                                  *)
Complete == \A s \in heard : up.pc # "new" =>
    FlatMap(KindOf, got[s]) = FlatMap(Pass(KindOf), wrote[Across(s)])

(* Where the server writes its messages one by one, descriptors stay with   *)
(* the message they were sent with until it is read.                        *)
Followed == ~plan.batches =>
    /\ \A s \in Sides : from[s] \in Seq(Owned)
    /\ down.fds = MFds(down.buf)
    /\ \A s \in open : FdsFollow(s)

(* The line to a peer is known exactly while he reads (Carried), and of one *)
(* who has stopped what follows is kept (Prefixed, Complete).  Complete     *)
(* needs to know why a thread ended (Stopped): the writer is gone with      *)
(* nothing of his left, unless the reader went first.                       *)
IInv == Typed /\ Placed /\ Unserved /\ Stopped /\ Carried /\ Prefixed /\ Complete /\ Followed

LEMMA LooksTyped == \A K \in Looks : K \in [Message -> Seq(Look)]
<1>1. KindOf \in [Message -> Seq(Look)]
    BY DEF KindOf, Message, Look
<1>2. Whole \in [Message -> Seq(Look)]
    BY DEF Whole, Look
<1>3. QED
    BY <1>1, <1>2 DEF Looks

LEMMA Wider ==
    /\ Request \subseteq Message /\ Requested \subseteq Packet /\ Owned \subseteq Packet
    /\ Seq(Request) \subseteq Seq(Message) /\ Seq(Requested) \subseteq Seq(Packet)
    /\ Seq(Owned) \subseteq Seq(Packet)
<1>1. Request \subseteq Message /\ Requested \subseteq Packet /\ Owned \subseteq Packet
    BY DEF Request, Requested, Owned, Packet
<1>2. QED
    BY <1>1, WiderSeq

LEMMA Cut ==
    ASSUME NEW S, NEW q \in Seq(S), NEW n \in 0..Len(q)
    PROVE  /\ SubSeq(q, 1, n) \in Seq(S) /\ SubSeq(q, n + 1, Len(q)) \in Seq(S)
           /\ q = SubSeq(q, 1, n) \o SubSeq(q, n + 1, Len(q))
<1>1. SubSeq(q, 1, n) \in Seq(S) /\ SubSeq(q, n + 1, Len(q)) \in Seq(S)
    BY SubSeqTyped, LenProperties
<1>2. (<<>> \o SubSeq(q, 1, n)) \o SubSeq(q, n + 1, Len(q)) = <<>> \o q
    BY MovedAcross, EmptySeq
<1>3. <<>> \o SubSeq(q, 1, n) = SubSeq(q, 1, n) /\ <<>> \o q = q
    BY <1>1, ConcatEmptySeq
<1>4. QED
    BY <1>1, <1>2, <1>3

LEMMA SameMsgs ==
    ASSUME NEW F, NEW ps \in Seq(Packet), NEW ms \in Seq(Message), Len(ps) = Len(ms),
           \A k \in 1..Len(ms) : ps[k].msg = ms[k]
    PROVE  FlatMap(OfMsg(F), ps) = FlatMap(F, ms)
<1>1. DOMAIN ps = 1..Len(ms) /\ DOMAIN ms = 1..Len(ms) /\ \A k \in 1..Len(ms) : ps[k] \in Packet
    BY LenProperties, ElementOfSeq
<1>2. \A k \in 1..Len(ms) : OfMsg(F)[ps[k]] = F[ms[k]]
    BY <1>1 DEF OfMsg
<1>3. [k \in DOMAIN ps |-> OfMsg(F)[ps[k]]] = [k \in DOMAIN ms |-> F[ms[k]]]
    BY <1>1, <1>2
<1>4. QED
    BY <1>3, Zenon DEF FlatMap

-----------------------------------------------------------------------------
Control == Placed /\ Unserved /\ Stopped

(* What a peer writes: one message, or two where the server does so.        *)
Batch(ms) ==
    /\ ms \in Seq(Message) /\ Len(ms) \in {1, 2}
    /\ ~plan.batches => Len(ms) = 1

LEMMA MsgTyped ==
    ASSUME NEW k \in Kind, NEW i \in Nat
    PROVE  Msg(k, i) \in Message /\ (k = "focus" <=> Drop(Msg(k, i)))
<1>1. <<>> \in Seq(Fd) /\ (k \in WithFd => <<<<k, i>>>> \in Seq(Fd))
    BY DEF Fd
<1>2. QED
    BY <1>1 DEF Msg, Message, WithFd, Drop

LEMMA ClientWritten ==
    ASSUME ClientWrites, plan \in Plan
    PROVE  \E m \in Request : Write("client", <<m>>)
<1>1. plan["client"] \in Nat /\ 0 \in Nat
    BY DEF Plan
<1>2. Msg("setup", 0) \in Request /\ Msg("request", plan["client"]) \in Request
    BY <1>1, MsgTyped DEF Request, Kind
<1>3. QED
    BY <1>2 DEF ClientWrites

LEMMA ServerWritten ==
    ASSUME ServerWrites, plan \in Plan
    PROVE  \E ms : Batch(ms) /\ Write("server", ms)
<1>1. CASE wrote["server"] = <<>> /\ Write("server", <<Msg("accept", 0)>>)
    <2>1. Msg("accept", 0) \in Message
        BY MsgTyped DEF Kind
    <2>2. Batch(<<Msg("accept", 0)>>)
        BY <2>1 DEF Batch
    <2>3. QED
        BY <1>1, <2>2
<1>2. ASSUME NEW k \in {"event", "focus", "reply"}, Write("server", <<Msg(k, plan["server"])>>)
      PROVE  \E ms : Batch(ms) /\ Write("server", ms)
    <2>1. Msg(k, plan["server"]) \in Message
        BY MsgTyped DEF Kind, Plan
    <2>2. Batch(<<Msg(k, plan["server"])>>)
        BY <2>1 DEF Batch
    <2>3. QED
        BY <1>2, <2>2
<1>3. ASSUME NEW k \in {"event", "focus", "reply"}, NEW l \in {"event", "focus", "reply"},
             plan.batches,
             Write("server", <<Msg(k, plan["server"]), Msg(l, plan["server"] - 1)>>)
      PROVE  \E ms : Batch(ms) /\ Write("server", ms)
    <2>1. plan["server"] \in Nat
        BY DEF Plan
    <2>2. plan["server"] - 1 \in Nat
        BY <1>3, <2>1 DEF Write
    <2>3. Msg(k, plan["server"]) \in Message /\ Msg(l, plan["server"] - 1) \in Message
        BY <2>1, <2>2, MsgTyped DEF Kind
    <2>4. Batch(<<Msg(k, plan["server"]), Msg(l, plan["server"] - 1)>>)
        BY <1>3, <2>3 DEF Batch
    <2>5. QED
        BY <1>3, <2>4
<1>4. QED
    BY <1>1, <1>2, <1>3 DEF ServerWrites

-----------------------------------------------------------------------------
(* The packets of a batch.                                                  *)
Packets(ms) == [j \in DOMAIN ms |-> Sent(ms[j], IF j = 1 THEN AllFds(ms) ELSE <<>>)]

LEMMA PacketsOf ==
    ASSUME NEW ms, Batch(ms)
    PROVE  /\ Packets(ms) \in Seq(Packet) /\ Len(Packets(ms)) = Len(ms)
           /\ \A k \in 1..Len(ms) : Packets(ms)[k].msg = ms[k]
           /\ ~plan.batches => Packets(ms) \in Seq(Owned)
           /\ ms \in Seq(Request) => Packets(ms) \in Seq(Requested)
<1>1. /\ DOMAIN ms = 1..Len(ms) /\ Len(ms) \in {1, 2} /\ \A k \in 1..Len(ms) : ms[k] \in Message
      /\ ms[1] \in Message
    BY LenProperties, ElementOfSeq DEF Batch
<1>2. AllFds(ms) \in Seq(Fd) /\ (Len(ms) = 1 => AllFds(ms) = ms[1].fds)
    <2>1. CASE Len(ms) = 1
        BY <1>1, <2>1 DEF AllFds, Message
    <2>2. CASE Len(ms) = 2
        <3>1. ms[1].fds \in Seq(Fd) /\ ms[2].fds \in Seq(Fd)
            BY <1>1, <2>2 DEF Message
        <3>2. ms[1].fds \o ms[2].fds \in Seq(Fd)
            BY <3>1, ConcatProperties
        <3>3. QED
            BY <2>2, <3>2 DEF AllFds
    <2>3. QED
        BY <1>1, <2>1, <2>2
<1>3. \A k \in 1..Len(ms) : Packets(ms)[k] = Sent(ms[k], IF k = 1 THEN AllFds(ms) ELSE <<>>)
    BY <1>1 DEF Packets
<1>4. ASSUME NEW k \in 1..Len(ms)
      PROVE  /\ Packets(ms)[k] \in Packet /\ Packets(ms)[k].msg = ms[k]
             /\ Packets(ms)[k].att = IF k = 1 THEN AllFds(ms) ELSE <<>>
    <2>1. <<>> \in Seq(Fd)
        BY EmptySeq
    <2>2. PICK a \in Seq(Fd) : a = IF k = 1 THEN AllFds(ms) ELSE <<>>
        BY <1>2, <2>1
    <2>3. PICK m \in Message : m = ms[k]
        BY <1>1
    <2>4. Packets(ms)[k] = [msg |-> m, att |-> a]
        BY <1>3, <2>2, <2>3 DEF Sent
    <2>5. QED
        BY <2>2, <2>3, <2>4 DEF Packet
<1>5. Packets(ms) = [k \in 1..Len(ms) |-> Packets(ms)[k]] /\ Len(ms) \in Nat
    <2>1. Packets(ms) = [k \in DOMAIN Packets(ms) |-> Packets(ms)[k]]
        BY Zenon DEF Packets
    <2>2. DOMAIN Packets(ms) = 1..Len(ms)
        BY <1>1 DEF Packets
    <2>3. QED
        BY <1>1, <2>1, <2>2
<1>6. Packets(ms) \in Seq(Packet) /\ Len(Packets(ms)) = Len(ms)
    <2>1. Packets(ms) \in Seq(Packet)
        BY <1>4, <1>5, IsASeq
    <2>2. DOMAIN Packets(ms) = 1..Len(ms)
        BY <1>1 DEF Packets
    <2>3. QED
        BY <1>5, <2>1, <2>2, LenProperties
<1>7. ASSUME ~plan.batches PROVE Packets(ms) \in Seq(Owned)
    <2>1. \A k \in 1..Len(ms) : Packets(ms)[k] \in Owned
        BY <1>2, <1>4, <1>7 DEF Owned, Batch
    <2>2. QED
        BY <1>5, <2>1, IsASeq
<1>8. ASSUME ms \in Seq(Request) PROVE Packets(ms) \in Seq(Requested)
    <2>1. \A k \in 1..Len(ms) : Packets(ms)[k] \in Requested
        BY <1>4, <1>8, ElementOfSeq DEF Requested, Packet
    <2>2. QED
        BY <1>5, <2>1, IsASeq
<1>9. QED
    BY <1>4, <1>6, <1>7, <1>8

-----------------------------------------------------------------------------
(* The two threads, their ends, and who heard of them.                      *)
LEMMA ControlNext ==
    ASSUME Typed, Control, [Next]_vars
    PROVE  Control'
<1> USE DEF Control, Placed, Unserved, Stopped, Drained, Across, Sides
<1>1. /\ up = [pc |-> up.pc, buf |-> up.buf, fds |-> up.fds]
      /\ down = [pc |-> down.pc, buf |-> down.buf, fds |-> down.fds, order |-> down.order]
      /\ up.buf \in Seq(Message) /\ down.buf \in Seq(Message)
      /\ DOMAIN from = Sides /\ DOMAIN to = Sides /\ DOMAIN got = Sides
    BY Wider DEF Typed
<1>2. ASSUME NEW s \in Sides, NEW ms, Write(s, ms),
             UNCHANGED <<to, up, down, shut, closed, open, heard, got>>
      PROVE  Control'
    <2>1. s \in open /\ from' = [from EXCEPT ![s] = from'[s]]
        BY <1>1, <1>2 DEF Write
    <2>2. \A q \in Sides : q # s => from'[q] = from[q]
        BY <1>1, <2>1
    <2>3. QED
        BY <1>2, <2>1, <2>2
<1>3. ASSUME ClientWrites PROVE Control'
    <2>1. UNCHANGED <<to, up, down, shut, closed, open, heard, got>>
        BY <1>3 DEF ClientWrites
    <2>2. QED
        BY <1>2, <1>3, <2>1 DEF ClientWrites
<1>4. ASSUME ServerWrites PROVE Control'
    <2>1. UNCHANGED <<to, up, down, shut, closed, open, heard, got>>
        BY <1>4 DEF ServerWrites
    <2>2. QED
        BY <1>2, <1>4, <2>1 DEF ServerWrites
<1>5. ASSUME NEW s \in Sides, Read(s) PROVE Control'
    <2>1. to[s] # <<>> /\ UNCHANGED <<from, up, down, shut, closed, open, heard>>
        BY <1>5 DEF Read
    <2>2. up.pc # "new"
        BY <2>1
    <2>3. QED
        BY <2>1, <2>2
<1>6. ASSUME NEW s \in Sides, ReadEnd(s) PROVE Control'
    <2>1. /\ s \in open /\ (s \in shut \/ closed) /\ open' = open \ {s} /\ heard' = heard \union {s}
          /\ UNCHANGED <<from, to, up, down, shut, closed, got>>
        BY <1>6 DEF ReadEnd
    <2>2. up.pc # "new" => Across(s) \notin open
        BY <2>1
    <2>3. QED
        BY <2>1, <2>2
<1>7. ASSUME NEW s \in Sides, HangUp(s) PROVE Control'
    <2>1. /\ open' = open \ {s} /\ to' = [to EXCEPT ![s] = <<>>]
          /\ UNCHANGED <<from, up, down, shut, closed, heard, got>>
        BY <1>7 DEF HangUp
    <2>2. \A q \in Sides : to[q] = <<>> => to'[q] = <<>>
        BY <1>1, <2>1
    <2>3. QED
        BY <2>1, <2>2
<1>8. ASSUME Serve PROVE Control'
    <2>1. CASE up' = [up EXCEPT !.pc = "read"] /\ down' = [down EXCEPT !.pc = "setup"]
               /\ UNCHANGED <<closed, from>>
        <3>1. up' = [pc |-> "read", buf |-> up.buf, fds |-> up.fds]
              /\ down' = [pc |-> "setup", buf |-> down.buf, fds |-> down.fds, order |-> down.order]
            BY <1>1, <2>1
        <3>2. QED
            BY <1>8, <2>1, <3>1 DEF Serve, peers
    <2>2. CASE closed' = TRUE /\ UNCHANGED <<up, down>>
        BY <1>8, <2>2 DEF Serve, peers
    <2>3. QED
        BY <1>8, <2>1, <2>2 DEF Serve
<1>9. ASSUME Join PROVE Control'
    BY <1>9 DEF Join, peers
<1>10. ASSUME UpRead PROVE Control'
    <2>1. PICK k \in 1..Len(from["client"]) :
            up' = [pc  |-> IF big = None THEN "store" ELSE "send",
                   buf |-> [j \in 1..k |-> from["client"][j].msg],
                   fds |-> from["client"][k].att]
        BY <1>10 DEF UpRead
    <2>2. up'.pc \in {"store", "send"} /\ up'.buf # <<>> /\ up.pc = "read"
        <3>1. 1 \in DOMAIN up'.buf
            BY <2>1
        <3>2. QED
            BY <1>10, <2>1, <3>1 DEF UpRead
    <2>3. /\ from' = [from EXCEPT !["client"] = from'["client"]]
          /\ UNCHANGED <<to, down, shut, closed, open, heard, got>>
        BY <1>1, <1>10 DEF UpRead, peers
    <2>4. from'["server"] = from["server"]
        BY <1>1, <2>3
    <2>5. QED
        BY <2>2, <2>3, <2>4
<1>11. ASSUME UpStore PROVE Control'
    <2>1. up' = [pc |-> "send", buf |-> up.buf, fds |-> up.fds]
        BY <1>1, <1>11 DEF UpStore
    <2>2. QED
        BY <1>11, <2>1 DEF UpStore, peers
<1>12. ASSUME UpSend PROVE Control'
    <2>1. up' = [pc  |-> IF Len(up.buf) = 1 THEN "read" ELSE "send", buf |-> Tail(up.buf), fds |-> <<>>]
          /\ up.pc = "send"
          /\ UNCHANGED <<from, down, shut, closed, open, heard, got>>
        BY <1>12 DEF UpSend, peers
    <2>2. Len(up.buf) = 1 <=> Tail(up.buf) = <<>>
        <3>1. up.buf # <<>>
            BY <2>1
        <3>2. Tail(up.buf) \in Seq(Message) /\ Len(Tail(up.buf)) = Len(up.buf) - 1
            BY <1>1, <3>1, HeadTailProperties
        <3>3. Len(up.buf) \in Nat /\ (Tail(up.buf) = <<>> <=> Len(Tail(up.buf)) = 0)
            BY <1>1, <3>2, EmptySeq, LenProperties
        <3>4. QED
            BY <3>2, <3>3
    <2>3. QED
        BY <2>1, <2>2
<1>13. ASSUME UpEnd PROVE Control'
    <2>1. up' = [pc |-> "ended", buf |-> up.buf, fds |-> up.fds]
        BY <1>1, <1>13 DEF UpEnd
    <2>2. QED
        BY <1>13, <2>1 DEF UpEnd, peers
<1>14. ASSUME DownRead PROVE Control'
    <2>1. /\ down'.pc = "send" /\ Len(down'.buf) = 1
          /\ UNCHANGED <<to, up, shut, closed, open, heard, got>>
          /\ from' = [from EXCEPT !["server"] = Tail(@)] /\ down.pc \in {"setup", "read"}
        BY <1>14 DEF DownRead, peers
    <2>2. from'["client"] = from["client"]
        BY <1>1, <2>1
    <2>3. QED
        BY <2>1, <2>2
<1>15. ASSUME DownForward PROVE Control'
    <2>1. down' = [pc |-> "read", buf |-> <<>>, fds |-> <<>>, order |-> down.order]
        BY <1>1, <1>15 DEF DownForward
    <2>2. QED
        BY <1>15, <2>1 DEF DownForward, peers
<1>16. ASSUME DownEnd PROVE Control'
    <2>1. down' = [pc |-> "ended", buf |-> down.buf, fds |-> down.fds, order |-> down.order]
        BY <1>1, <1>16 DEF DownEnd
    <2>2. QED
        BY <1>16, <2>1 DEF DownEnd, peers
<1>17. CASE UNCHANGED vars
    BY <1>17 DEF vars
<1>18. QED
    BY <1>3, <1>4, <1>5, <1>6, <1>7, <1>8, <1>9, <1>10, <1>11, <1>12, <1>13, <1>14, <1>15, <1>16,
       <1>17 DEF Next, UpThread, DownThread

-----------------------------------------------------------------------------
(* What a peer takes from his socket, and that he gives each message its    *)
(* own descriptors when they come first among those he has.                 *)
Taken(s, p, t, m, k) ==
    /\ to[s] = <<p>> \o t
    /\ to' = [to EXCEPT ![s] = t]
    /\ got' = [got EXCEPT ![s] = @ \o <<m>>]
    /\ held' = [held EXCEPT ![s] = k]
    /\ m.kind = p.msg.kind
    /\ \A c \in Seq(Fd) : held[s] \o p.att = p.msg.fds \o c => m = p.msg /\ k = c

LEMMA ReadTakes ==
    ASSUME Typed, NEW s \in Sides, Read(s)
    PROVE  \E p \in Packet, t \in Seq(Packet), m \in Message, k \in Seq(Fd) : Taken(s, p, t, m, k)
<1>1. to[s] \in Seq(Packet) /\ to[s] # <<>> /\ held[s] \in Seq(Fd) /\ got[s] \in Seq(Message)
      /\ DOMAIN got = Sides
    BY DEF Typed, Read
<1>2. PICK p \in Packet, t \in Seq(Packet) :
        p = Head(to[s]) /\ t = Tail(to[s]) /\ to[s] = <<p>> \o t
    <2>1. PICK q \in Seq(Packet) : q = to[s]
        BY <1>1
    <2>2. Head(q) \in Packet /\ Tail(q) \in Seq(Packet) /\ q = <<Head(q)>> \o Tail(q)
        BY <1>1, <2>1, HeadThenTail, HeadTailProperties
    <2>3. QED
        BY <2>1, <2>2, Zenon
<1>3. p.msg \in Message /\ p.att \in Seq(Fd)
    BY DEF Packet
<1>4. PICK has \in Seq(Fd) : has = held[s] \o p.att
    BY <1>1, <1>3, ConcatProperties
<1> DEFINE n == IF Len(p.msg.fds) <= Len(has) THEN Len(p.msg.fds) ELSE Len(has)
           x == SubSeq(has, 1, n)
           k == SubSeq(has, n + 1, Len(has))
           m == [p.msg EXCEPT !.fds = x]
<1>5. /\ got' = [got EXCEPT ![s] = Append(@, m)]
      /\ held' = [held EXCEPT ![s] = k]
      /\ to' = [to EXCEPT ![s] = t]
    BY <1>2, <1>4 DEF Read
<1>6. p.msg.fds \in Seq(Fd) /\ Len(p.msg.fds) \in Nat /\ Len(has) \in Nat
    BY <1>3, LenProperties DEF Message
<1>7. n \in 0..Len(has) /\ n \in Nat
    BY <1>6
<1>8. x \in Seq(Fd) /\ k \in Seq(Fd)
    <2> HIDE DEF n
    <2>1. QED
        BY <1>6, <1>7, Cut
<1>9. m = [kind |-> p.msg.kind, fds |-> x]
    <2> HIDE DEF x
    <2>1. p.msg = [kind |-> p.msg.kind, fds |-> p.msg.fds]
        BY <1>3 DEF Message
    <2>2. QED
        BY <2>1
<1>10. m \in Message
    <2>1. ASSUME p.msg.kind = "focus" PROVE x = <<>>
        <3>1. n = 0
            BY <1>3, <1>6, <2>1, EmptySeq DEF Message
        <3>2. QED
            BY <3>1
    <2> HIDE DEF x
    <2>2. QED
        BY <1>3, <1>8, <1>9, <2>1 DEF Message
<1>11. got' = [got EXCEPT ![s] = @ \o <<m>>]
    <2> HIDE DEF m
    <2>1. Append(got[s], m) = got[s] \o <<m>>
        BY <1>1, <1>10, AppendIsConcat
    <2>2. QED
        BY <1>1, <1>5, <2>1
<1>12. ASSUME NEW c \in Seq(Fd), held[s] \o p.att = p.msg.fds \o c PROVE m = p.msg /\ k = c
    <2>1. PICK f \in Seq(Fd) : f = p.msg.fds
        BY <1>6
    <2>2. has = f \o c
        BY <1>4, <1>12, <2>1
    <2>3. /\ Len(f) \in 0..Len(has)
          /\ SubSeq(has, 1, Len(f)) = f
          /\ SubSeq(has, Len(f) + 1, Len(has)) = c
        BY <2>2, SplitAt
    <2>4. n = Len(f)
        BY <1>6, <2>1, <2>3
    <2>5. x = f /\ k = c
        <3> HIDE DEF n
        <3>1. QED
            BY <2>3, <2>4
    <2>6. m = [kind |-> p.msg.kind, fds |-> p.msg.fds]
        <3> HIDE DEF x
        <3>1. QED
            BY <1>9, <2>1, <2>5
    <2>7. QED
        BY <1>3, <2>5, <2>6 DEF Message
<1>13. m.kind = p.msg.kind
    BY <1>9
<1> HIDE DEF m, k
<1>14. Taken(s, p, t, m, k)
    BY <1>2, <1>5, <1>11, <1>12, <1>13 DEF Taken
<1>15. QED
    BY <1>8, <1>10, <1>14, Zenon

-----------------------------------------------------------------------------
LEMMA MFdsOne == ASSUME NEW m \in Message PROVE MFds(<<m>>) = m.fds
<1>1. FlatMap(FdsOf, <<m>>) = FdsOf[m]
    BY FdMaps, FlatMapOne
<1>2. QED
    BY <1>1 DEF MFds, FdsOf

LEMMA SentTyped ==
    ASSUME NEW m \in Message, NEW d \in Seq(Fd)
    PROVE  Sent(m, d) \in Packet /\ Sent(m, d).msg = m /\ Sent(m, d).att = d
BY DEF Sent, Packet

(* Messages of which only the last has descriptors.                         *)
LEMMA MFdsOfLast ==
    ASSUME NEW ms \in Seq(Message), ms # <<>>,
           \A j \in 1..(Len(ms) - 1) : ms[j].fds = <<>>
    PROVE  MFds(ms) = ms[Len(ms)].fds
<1> DEFINE N == {m \in Message : m.fds = <<>>}
<1>1. PICK r \in Seq(Message), x \in Message :
        /\ ms = r \o <<x>> /\ Len(r) = Len(ms) - 1 /\ x = ms[Len(ms)]
        /\ \A i \in 1..Len(r) : r[i] = ms[i]
    BY FrontAndLast
<1>2. r \in Seq(N)
    <2>1. \A i \in 1..Len(r) : r[i] \in N
        BY <1>1, ElementOfSeq
    <2>2. r = [i \in 1..Len(r) |-> r[i]] /\ Len(r) \in Nat
        BY LenProperties
    <2>3. QED
        BY <2>1, <2>2, IsASeq
<1>3. FlatMap(FdsOf, r) = <<>>
    <2>1. N \subseteq Message /\ \A m \in N : FdsOf[m] = <<>>
        BY DEF FdsOf
    <2> HIDE DEF N
    <2>2. QED
        BY <1>2, <2>1, FdMaps, FlatMapNothing
<1>4. FlatMap(FdsOf, r \o <<x>>) = FlatMap(FdsOf, r) \o FdsOf[x]
    BY FdMaps, FlatMapLast
<1>5. FdsOf[x] = x.fds /\ x.fds \in Seq(Fd)
    BY DEF FdsOf, Message
<1>6. MFds(ms) = <<>> \o x.fds
    BY <1>1, <1>3, <1>4, <1>5 DEF MFds
<1>7. QED
    BY <1>1, <1>5, <1>6, ConcatEmptySeq

(* recvmsg of client_to_server: some packets, with the descriptors of the   *)
(* last one.                                                                *)
UpTaken(ps, f, ms, d) ==
    /\ from["client"] = ps \o f
    /\ from' = [from EXCEPT !["client"] = f]
    /\ up' = [pc |-> up'.pc, buf |-> ms, fds |-> d]
    /\ Len(ps) = Len(ms) /\ \A k \in 1..Len(ms) : ps[k].msg = ms[k]
    /\ from["client"] \in Seq(Owned) => d = MFds(ms) /\ f \in Seq(Owned)

LEMMA UpReadTakes ==
    ASSUME Typed, UpRead
    PROVE  \E ps \in Seq(Requested), f \in Seq(Requested), ms \in Seq(Request), d \in Seq(Fd) :
             UpTaken(ps, f, ms, d)
<1>1. PICK q \in Seq(Requested) : q = from["client"]
    BY DEF Typed
<1>2. Len(q) \in Nat /\ DOMAIN from = Sides
    BY LenProperties DEF Typed
<1>3. PICK k \in 1..Len(q) :
        /\ \A j \in 1..(k - 1) : q[j].att = <<>>
        /\ up' = [pc  |-> IF big = None THEN "store" ELSE "send",
                  buf |-> [j \in 1..k |-> q[j].msg],
                  fds |-> q[k].att]
        /\ from' = [from EXCEPT !["client"] = SubSeq(q, k + 1, Len(q))]
    BY <1>1, <1>2 DEF UpRead
<1>4. k \in 0..Len(q) /\ k \in Nat \ {0}
    BY <1>2
<1> DEFINE ps == SubSeq(q, 1, k)
           f == SubSeq(q, k + 1, Len(q))
           ms == [j \in 1..k |-> q[j].msg]
           d == q[k].att
<1>5. ps \in Seq(Requested) /\ f \in Seq(Requested) /\ q = ps \o f
    BY <1>4, Cut
<1>6. \A j \in 1..k : q[j] \in Requested /\ q[j].msg \in Request /\ q[j].att \in Seq(Fd)
    <2>1. \A j \in 1..k : q[j] \in Requested
        BY <1>2, ElementOfSeq
    <2>2. \A p \in Requested : p.msg \in Request /\ p.att \in Seq(Fd)
        BY DEF Requested
    <2>3. QED
        BY <2>1, <2>2
<1>7. ms \in Seq(Request) /\ Len(ms) = k /\ \A j \in 1..k : ms[j] = q[j].msg
    BY <1>4, <1>6, IsASeq
<1>8. Len(ps) = k /\ \A j \in 1..k : ps[j] = q[j]
    <2>1. \A i \in 1..k : q[i] \in Requested
        BY <1>6
    <2>2. 1 \in Int /\ k \in Int
        BY <1>4
    <2>3. Len(SubSeq(q, 1, k)) = (IF 1 <= k THEN k - 1 + 1 ELSE 0)
          /\ \A i \in 1..(k - 1 + 1) : SubSeq(q, 1, k)[i] = q[1 + i - 1]
        BY <2>1, <2>2, SubSeqProperties
    <2>4. \A i \in 1..k : 1 + i - 1 = i
        BY <1>4
    <2>5. QED
        BY <1>4, <2>3, <2>4
<1>9. d \in Seq(Fd)
    BY <1>4, <1>6
<1>10. ASSUME q \in Seq(Owned) PROVE d = MFds(ms) /\ f \in Seq(Owned)
    <2>1. f \in Seq(Owned)
        BY <1>4, <1>10, Cut
    <2>2. \A j \in 1..k : q[j].msg.fds = q[j].att
        BY <1>2, <1>10, ElementOfSeq DEF Owned
    <2>3. \A j \in 1..(Len(ms) - 1) : ms[j].fds = <<>>
        <3> HIDE DEF ms
        <3>1. QED
            BY <1>3, <1>4, <1>7, <2>2
    <2>4. ms[Len(ms)].fds = d
        <3> HIDE DEF ms
        <3>1. QED
            BY <1>4, <1>7, <2>2
    <2>5. MFds(ms) = ms[Len(ms)].fds
        <3>1. ms \in Seq(Message) /\ ms # <<>>
            BY <1>4, <1>7, Wider, EmptySeq
        <3> HIDE DEF ms
        <3>2. QED
            BY <2>3, <3>1, MFdsOfLast
    <2>6. QED
        BY <2>1, <2>4, <2>5
<1>11. from' = [from EXCEPT !["client"] = f] /\ up' = [pc |-> up'.pc, buf |-> ms, fds |-> d]
    BY <1>3
<1> HIDE DEF ps, f, ms, d
<1>12. UpTaken(ps, f, ms, d)
    BY <1>1, <1>5, <1>7, <1>8, <1>10, <1>11 DEF UpTaken
<1>13. QED
    BY <1>5, <1>7, <1>9, <1>12, Zenon

(* send_all to the server of the first message in the buffer.               *)
UpSent(m, b, p) ==
    /\ up.buf = <<m>> \o b
    /\ p.msg = m /\ p.att = up.fds /\ ~Drop(m)
    /\ to' = [to EXCEPT !["server"] = @ \o <<p>>]
    /\ up' = [pc |-> up'.pc, buf |-> b, fds |-> <<>>]

LEMMA UpSendSends ==
    ASSUME Typed, Placed, UpSend
    PROVE  \E m \in Message, b \in Seq(Request), p \in Packet : UpSent(m, b, p)
<1>1. PICK q \in Seq(Request) : q = up.buf /\ q # <<>>
    BY DEF Typed, Placed, UpSend
<1>2. Head(q) \in Request /\ Tail(q) \in Seq(Request) /\ q = <<Head(q)>> \o Tail(q)
    BY <1>1, HeadThenTail, HeadTailProperties
<1>3. PICK m \in Request, b \in Seq(Request) : m = Head(q) /\ b = Tail(q) /\ q = <<m>> \o b
    BY <1>2
<1>4. m \in Message /\ ~Drop(m) /\ up.fds \in Seq(Fd) /\ to["server"] \in Seq(Packet) /\ DOMAIN to = Sides
    BY DEF Request, Typed, Sides
<1>5. PICK p \in Packet : p = Sent(m, up.fds) /\ p.msg = m /\ p.att = up.fds
    <2>1. PICK d \in Seq(Fd) : d = up.fds
        BY <1>4
    <2>2. Sent(m, d) \in Packet /\ Sent(m, d).msg = m /\ Sent(m, d).att = d
        BY <1>4, SentTyped
    <2>3. QED
        BY <2>1, <2>2
<1>6. to' = [to EXCEPT !["server"] = @ \o <<p>>]
    <2>1. to' = [to EXCEPT !["server"] = Append(@, p)]
        BY <1>1, <1>3, <1>5 DEF UpSend, SendAll
    <2>2. Append(to["server"], p) = to["server"] \o <<p>>
        BY <1>4, AppendIsConcat
    <2>3. QED
        BY <2>1, <2>2
<1>7. up' = [pc |-> up'.pc, buf |-> b, fds |-> <<>>]
    BY <1>1, <1>3 DEF UpSend
<1>8. UpSent(m, b, p)
    BY <1>1, <1>3, <1>4, <1>5, <1>6, <1>7 DEF UpSent
<1>9. QED
    BY <1>4, <1>8

(* read_full of server_to_client.                                           *)
DownTaken(h, f) ==
    /\ from["server"] = <<h>> \o f
    /\ from' = [from EXCEPT !["server"] = f]
    /\ down' = [pc |-> "send", buf |-> <<h.msg>>, fds |-> h.att, order |-> down'.order]

LEMMA DownReadTakes ==
    ASSUME Typed, Placed, DownRead
    PROVE  \E h \in Packet, f \in Seq(Packet) : DownTaken(h, f)
<1>1. PICK q \in Seq(Packet) : q = from["server"] /\ q # <<>>
    BY DEF Typed, DownRead, Sides
<1>2. Head(q) \in Packet /\ Tail(q) \in Seq(Packet) /\ q = <<Head(q)>> \o Tail(q)
    BY <1>1, HeadThenTail, HeadTailProperties
<1>3. PICK h \in Packet, f \in Seq(Packet) : h = Head(q) /\ f = Tail(q) /\ q = <<h>> \o f
    BY <1>2
<1>4. down.fds \o h.att = h.att
    <2>1. h.att \in Seq(Fd)
        BY DEF Packet
    <2>2. down.fds = <<>>
        BY DEF Placed, DownRead
    <2>3. QED
        BY <2>1, <2>2, ConcatEmptySeq
<1>5. from' = [from EXCEPT !["server"] = f]
      /\ down' = [pc |-> "send", buf |-> <<h.msg>>, fds |-> down.fds \o h.att, order |-> down'.order]
    BY <1>1, <1>3 DEF DownRead, Typed
<1>6. DownTaken(h, f)
    BY <1>1, <1>3, <1>4, <1>5 DEF DownTaken
<1>7. QED
    BY <1>6

(* forward: one message sent, or dropped.                                   *)
DownSent(m, p) ==
    /\ p.msg = m /\ p.att = down.fds /\ ~Drop(m)
    /\ to' = [to EXCEPT !["client"] = @ \o <<p>>]

LEMMA DownForwards ==
    ASSUME Typed, Placed, DownForward
    PROVE  /\ down' = [pc |-> "read", buf |-> <<>>, fds |-> <<>>, order |-> down.order]
           /\ \E m \in Message :
                /\ down.buf = <<m>>
                /\ \/ Drop(m) /\ UNCHANGED to
                   \/ \E p \in Packet : DownSent(m, p)
<1>1. /\ down.buf \in Seq(Message) /\ Len(down.buf) = 1 /\ down.fds \in Seq(Fd)
      /\ to["client"] \in Seq(Packet) /\ DOMAIN to = Sides
      /\ down = [pc |-> down.pc, buf |-> down.buf, fds |-> down.fds, order |-> down.order]
    BY DEF Typed, Placed, DownForward, Sides
<1>2. PICK m \in Message : down.buf = <<m>> /\ m = Head(down.buf)
    BY <1>1
<1>3. PICK p \in Packet : p = Sent(m, down.fds) /\ p.msg = m /\ p.att = down.fds
    <2>1. PICK d \in Seq(Fd) : d = down.fds
        BY <1>1
    <2>2. Sent(m, d) \in Packet /\ Sent(m, d).msg = m /\ Sent(m, d).att = d
        BY SentTyped
    <2>3. QED
        BY <2>1, <2>2
<1>4. ASSUME ~Drop(m), SendAll("client", m, down.fds) PROVE DownSent(m, p)
    <2>1. to' = [to EXCEPT !["client"] = Append(@, p)]
        BY <1>3, <1>4 DEF SendAll
    <2>2. Append(to["client"], p) = to["client"] \o <<p>>
        BY <1>1, AppendIsConcat
    <2>3. QED
        BY <1>3, <1>4, <2>1, <2>2 DEF DownSent
<1>5. down' = [pc |-> "read", buf |-> <<>>, fds |-> <<>>, order |-> down.order]
    BY <1>1 DEF DownForward
<1>6. \/ Drop(m) /\ UNCHANGED to
      \/ ~Drop(m) /\ SendAll("client", m, down.fds)
    BY <1>2 DEF DownForward
<1>7. QED
    BY <1>2, <1>4, <1>5, <1>6

-----------------------------------------------------------------------------
(* What a peer writes to a socket that is still read.                       *)
LEMMA WriteAdds ==
    ASSUME Typed, NEW s \in Sides, NEW ms, Batch(ms), Write(s, ms), ~closed
    PROVE  /\ from' = [from EXCEPT ![s] = @ \o Packets(ms)]
           /\ wrote' = [wrote EXCEPT ![s] = @ \o ms]
BY DEF Write, Packets

LEMMA WriteUnread ==
    ASSUME Typed, NEW s \in Sides, NEW ms, Write(s, ms), closed
    PROVE  UNCHANGED <<from, wrote>>
BY DEF Write, Typed

LEMMA WriteTyped ==
    ASSUME Typed, NEW s \in Sides, NEW ms, Batch(ms), Write(s, ms),
           s = "client" => ms \in Seq(Request),
           UNCHANGED <<to, up, down, held, got>>
    PROVE  Typed'
<1>1. plan' \in Plan
    BY PlanUsed DEF Typed, Batch
<1>2. CASE closed
    BY <1>1, <1>2, WriteUnread DEF Typed
<1>3. CASE ~closed
    <2>1. /\ from' = [from EXCEPT ![s] = @ \o Packets(ms)]
          /\ wrote' = [wrote EXCEPT ![s] = @ \o ms]
        BY <1>3, WriteAdds
    <2>2. from[s] \in Seq(Packet) /\ wrote[s] \in Seq(Message)
        BY DEF Typed
    <2>3. from[s] \o Packets(ms) \in Seq(Packet)
        <3>1. PICK q \in Seq(Packet) : q = Packets(ms)
            BY PacketsOf
        <3>2. QED
            BY <2>2, <3>1, ConcatProperties
    <2>4. wrote[s] \o ms \in Seq(Message)
        BY <2>2, ConcatProperties DEF Batch
    <2>5. s = "client" => from[s] \o Packets(ms) \in Seq(Requested)
        <3>1. SUFFICES ASSUME s = "client" PROVE from[s] \o Packets(ms) \in Seq(Requested)
            OBVIOUS
        <3>2. PICK q, r \in Seq(Requested) : q = Packets(ms) /\ r = from[s]
            BY <3>1, PacketsOf DEF Typed
        <3>3. QED
            BY <3>2, ConcatProperties
    <2>6. from' \in [Sides -> Seq(Packet)] /\ wrote' \in [Sides -> Seq(Message)]
        BY <2>1, <2>3, <2>4 DEF Typed
    <2>7. from'["client"] \in Seq(Requested)
        BY <2>1, <2>5 DEF Typed, Sides
    <2>8. QED
        BY <1>1, <2>6, <2>7 DEF Typed
<1>4. QED
    BY <1>2, <1>3

LEMMA TypedNext ==
    ASSUME Typed, Placed, [Next]_vars
    PROVE  Typed'
<1>1. ASSUME ClientWrites PROVE Typed'
    <2>1. PICK m \in Request : Write("client", <<m>>)
        BY <1>1, ClientWritten DEF Typed
    <2>2. Batch(<<m>>) /\ <<m>> \in Seq(Request)
        BY Wider DEF Batch
    <2>3. QED
        BY <1>1, <2>1, <2>2, WriteTyped DEF ClientWrites, Sides
<1>2. ASSUME ServerWrites PROVE Typed'
    <2>1. PICK ms : Batch(ms) /\ Write("server", ms)
        BY <1>2, ServerWritten DEF Typed
    <2>2. QED
        BY <1>2, <2>1, WriteTyped DEF ServerWrites, Sides
<1>3. ASSUME NEW s \in Sides, Read(s) PROVE Typed'
    <2>1. PICK p \in Packet, t \in Seq(Packet), m \in Message, k \in Seq(Fd) : Taken(s, p, t, m, k)
        BY <1>3, ReadTakes
    <2>2. got[s] \o <<m>> \in Seq(Message)
        BY ConcatProperties DEF Typed
    <2>3. /\ to' \in [Sides -> Seq(Packet)] /\ got' \in [Sides -> Seq(Message)]
          /\ held' \in [Sides -> Seq(Fd)]
        BY <2>1, <2>2 DEF Typed, Taken
    <2>4. UNCHANGED <<from, up, down, wrote, plan>>
        BY <1>3 DEF Read
    <2>5. QED
        BY <2>3, <2>4 DEF Typed
<1>4. ASSUME NEW s \in Sides, ReadEnd(s) \/ HangUp(s) PROVE Typed'
    <2>1. /\ to' \in {to, [to EXCEPT ![s] = <<>>]} /\ <<>> \in Seq(Packet)
          /\ UNCHANGED <<from, up, down, held, wrote, got, plan>>
        BY <1>4, EmptySeq DEF ReadEnd, HangUp
    <2>2. QED
        BY <2>1 DEF Typed
<1>5. ASSUME Serve \/ Join PROVE Typed'
    <2>1. /\ from' \in {from, [s \in Sides |-> <<>>]}
          /\ up' \in {up, [up EXCEPT !.pc = "read"]}
          /\ down' \in {down, [down EXCEPT !.pc = "setup"]}
          /\ UNCHANGED <<to, held, wrote, got, plan>>
        BY <1>5 DEF Serve, Join, peers
    <2>2. from' \in [Sides -> Seq(Packet)] /\ from'["client"] \in Seq(Requested)
        <3>1. <<>> \in Seq(Packet) /\ <<>> \in Seq(Requested)
            BY EmptySeq
        <3>2. QED
            BY <2>1, <3>1 DEF Typed, Sides
    <2>3. up' = [pc |-> up'.pc, buf |-> up.buf, fds |-> up.fds]
          /\ down' = [pc |-> down'.pc, buf |-> down.buf, fds |-> down.fds, order |-> down'.order]
        BY <2>1 DEF Typed
    <2>4. QED
        BY <2>1, <2>2, <2>3 DEF Typed
<1>6. ASSUME UpRead PROVE Typed'
    <2>1. PICK ps \in Seq(Requested), f \in Seq(Requested), ms \in Seq(Request), d \in Seq(Fd) :
            UpTaken(ps, f, ms, d)
        BY <1>6, UpReadTakes
    <2>2. f \in Seq(Packet)
        BY Wider
    <2>3. from' \in [Sides -> Seq(Packet)] /\ from'["client"] \in Seq(Requested)
        BY <2>1, <2>2 DEF Typed, UpTaken, Sides
    <2>4. UNCHANGED <<to, down, held, wrote, got, plan>>
        BY <1>6 DEF UpRead, peers
    <2>5. QED
        BY <2>1, <2>3, <2>4 DEF Typed, UpTaken
<1>7. ASSUME UpStore \/ UpEnd PROVE Typed'
    <2>1. up' = [pc |-> up'.pc, buf |-> up.buf, fds |-> up.fds]
          /\ UNCHANGED <<from, to, down, held, wrote, got, plan>>
        BY <1>7 DEF UpStore, UpEnd, peers, Typed
    <2>2. QED
        BY <2>1 DEF Typed
<1>8. ASSUME UpSend PROVE Typed'
    <2>1. PICK m \in Message, b \in Seq(Request), p \in Packet : UpSent(m, b, p)
        BY <1>8, UpSendSends
    <2>2. to["server"] \o <<p>> \in Seq(Packet) /\ <<>> \in Seq(Fd)
        BY ConcatProperties, EmptySeq DEF Typed, Sides
    <2>3. to' \in [Sides -> Seq(Packet)]
        BY <2>1, <2>2 DEF Typed, UpSent
    <2>4. UNCHANGED <<from, down, held, wrote, got, plan>>
        BY <1>8 DEF UpSend, peers
    <2>5. up' = [pc |-> up'.pc, buf |-> up'.buf, fds |-> up'.fds]
          /\ up'.buf \in Seq(Request) /\ up'.fds \in Seq(Fd)
        <3>1. PICK c : up' = [pc |-> c, buf |-> b, fds |-> <<>>]
            BY <2>1 DEF UpSent
        <3>2. QED
            BY <2>2, <3>1
    <2>6. QED
        BY <2>3, <2>4, <2>5 DEF Typed
<1>9. ASSUME DownRead PROVE Typed'
    <2>1. PICK h \in Packet, f \in Seq(Packet) : DownTaken(h, f)
        BY <1>9, DownReadTakes
    <2>2. h.msg \in Message /\ h.att \in Seq(Fd)
        BY DEF Packet
    <2>3. <<h.msg>> \in Seq(Message)
        BY <2>2
    <2>4. UNCHANGED <<to, up, held, wrote, got, plan>>
        BY <1>9 DEF DownRead, peers
    <2>5. from' \in [Sides -> Seq(Packet)] /\ from'["client"] = from["client"]
        BY <2>1 DEF Typed, DownTaken, Sides
    <2>6. down' = [pc |-> down'.pc, buf |-> down'.buf, fds |-> down'.fds, order |-> down'.order]
          /\ down'.buf \in Seq(Message) /\ down'.fds \in Seq(Fd)
        <3>1. PICK o : down' = [pc |-> "send", buf |-> <<h.msg>>, fds |-> h.att, order |-> o]
            BY <2>1 DEF DownTaken
        <3>2. QED
            BY <2>2, <2>3, <3>1
    <2>7. QED
        BY <2>4, <2>5, <2>6 DEF Typed
<1>10. ASSUME DownForward PROVE Typed'
    <2>1. down' = [pc |-> "read", buf |-> <<>>, fds |-> <<>>, order |-> down.order]
        BY <1>10, DownForwards
    <2>2. UNCHANGED <<from, up, held, wrote, got, plan>>
        BY <1>10 DEF DownForward, peers
    <2>3. to' \in [Sides -> Seq(Packet)]
        <3>1. CASE UNCHANGED to
            BY <3>1 DEF Typed
        <3>2. CASE \E m \in Message, p \in Packet : DownSent(m, p)
            <4>1. PICK m \in Message, p \in Packet : DownSent(m, p)
                BY <3>2
            <4>2. to["client"] \o <<p>> \in Seq(Packet)
                BY ConcatProperties DEF Typed, Sides
            <4>3. QED
                BY <4>1, <4>2 DEF Typed, DownSent
        <3>3. QED
            BY <1>10, <3>1, <3>2, DownForwards
    <2>4. <<>> \in Seq(Message) /\ <<>> \in Seq(Fd)
        BY EmptySeq
    <2>5. QED
        BY <2>1, <2>2, <2>3, <2>4 DEF Typed
<1>11. ASSUME DownEnd PROVE Typed'
    <2>1. down' = [pc |-> "ended", buf |-> down.buf, fds |-> down.fds, order |-> down.order]
          /\ UNCHANGED <<from, to, up, held, wrote, got, plan>>
        BY <1>11 DEF DownEnd, peers, Typed
    <2>2. QED
        BY <2>1 DEF Typed
<1>12. CASE UNCHANGED vars
    BY <1>12 DEF vars, Typed
<1>13. QED
    BY <1>1, <1>2, <1>3, <1>4, <1>5, <1>6, <1>7, <1>8, <1>9, <1>10, <1>11, <1>12
    DEF Next, UpThread, DownThread

-----------------------------------------------------------------------------
LEMMA LooksKept ==
    ASSUME plan' = plan \/ plan'.batches = plan.batches
    PROVE  Looks' = Looks
BY DEF Looks, KindOf, Whole, Pass

(* What the state has of the line to s, one part at a time.                 *)
LEMMA LineParts ==
    ASSUME Typed, NEW s \in Sides
    PROVE  /\ got[s] \in Seq(Message) /\ to[s] \in Seq(Packet) /\ Buf(s) \in Seq(Message)
           /\ from[Across(s)] \in Seq(Packet) /\ wrote[Across(s)] \in Seq(Message)
           /\ held[s] \in Seq(Fd) /\ BufFds(s) \in Seq(Fd) /\ Across(s) \in Sides
BY Wider DEF Typed, Buf, BufFds, Across, Sides

(* A line of which no part moves.                                           *)
LEMMA SameLine ==
    ASSUME NEW s, LineOf(s), Looks' = Looks,
           got'[s] = got[s], to'[s] = to[s], Buf(s)' = Buf(s),
           from'[Across(s)] = from[Across(s)], wrote'[Across(s)] = wrote[Across(s)]
    PROVE  LineOf(s)'
BY DEF LineOf

LEMMA SameFds ==
    ASSUME NEW s, FdsFollow(s),
           held'[s] = held[s], to'[s] = to[s], Buf(s)' = Buf(s), BufFds(s)' = BufFds(s)
    PROVE  FdsFollow(s)'
BY DEF FdsFollow

Flows == Carried /\ Followed

LEMMA WriteFlows ==
    ASSUME Typed, Control, Flows, NEW s \in Sides, NEW ms, Batch(ms), Write(s, ms),
           UNCHANGED <<to, up, down, closed, open, held, got>>
    PROVE  Flows'
<1>1. plan'.batches = plan.batches /\ Looks' = Looks
    BY PlanUsed, LooksKept DEF Typed, Batch
<1>2. \A q \in Sides : Buf(q)' = Buf(q) /\ BufFds(q)' = BufFds(q)
    BY DEF Buf, BufFds
<1>3. CASE closed
    <2>1. from' = from /\ wrote' = wrote
        BY <1>3, WriteUnread
    <2>2. Carried'
        BY <1>1, <1>2, <2>1 DEF Flows, Carried, LineOf, Buf
    <2>3. Followed'
        BY <1>1, <1>2, <2>1 DEF Flows, Followed, FdsFollow, Buf, BufFds
    <2>4. QED
        BY <2>2, <2>3 DEF Flows
<1>4. CASE ~closed
    <2>1. /\ from' = [from EXCEPT ![s] = @ \o Packets(ms)]
          /\ wrote' = [wrote EXCEPT ![s] = @ \o ms]
        BY <1>4, WriteAdds
    <2>2. /\ from'[s] = from[s] \o Packets(ms) /\ wrote'[s] = wrote[s] \o ms
          /\ \A q \in Sides : q # s => from'[q] = from[q] /\ wrote'[q] = wrote[q]
        BY <2>1 DEF Typed
    <2>3. ASSUME NEW q \in Sides, q # s, LineOf(q) PROVE LineOf(q)'
        <3>1. s = Across(q)
            BY <2>3 DEF Sides, Across
        <3>2. PICK ps \in Seq(Packet) : ps = Packets(ms)
            BY PacketsOf
        <3>3. \A K \in Looks : FlatMap(OfMsg(Pass(K)), ps) = FlatMap(Pass(K), ms)
            BY <3>2, PacketsOf, SameMsgs DEF Batch
        <3>4. ASSUME NEW K \in Looks
              PROVE  Line(K, got[q], to[q], Buf(q), from[s] \o ps, wrote[s] \o ms)
            <4>1. PICK g \in Seq(Message), t \in Seq(Packet), b \in Seq(Message),
                       f \in Seq(Packet), w \in Seq(Message) :
                    g = got[q] /\ t = to[q] /\ b = Buf(q) /\ f = from[s] /\ w = wrote[s]
                BY <3>1, LineParts
            <4>2. Line(K, g, t, b, f, w)
                BY <2>3, <3>1, <4>1 DEF LineOf
            <4>3. K \in [Message -> Seq(Look)] /\ ms \in Seq(Message)
                BY LooksTyped DEF Batch
            <4>4. Line(K, g, t, b, f \o ps, w \o ms)
                BY <3>3, <4>2, <4>3, LineWrites
            <4>5. QED
                BY <4>1, <4>4
        <3>5. QED
            BY <1>1, <1>2, <2>2, <3>1, <3>2, <3>4 DEF LineOf
    <2>4. ASSUME LineOf(s) PROVE LineOf(s)'
        <3>1. Across(s) \in Sides /\ Across(s) # s
            BY DEF Sides, Across
        <3>2. QED
            BY <1>1, <1>2, <2>2, <2>4, <3>1, SameLine
    <2>5. Carried'
        BY <2>3, <2>4 DEF Flows, Carried, Control, Stopped
    <2>6. Followed'
        <3>1. ASSUME ~plan.batches PROVE from'[s] \in Seq(Owned)
            <4>1. PICK x, y \in Seq(Owned) : x = from[s] /\ y = Packets(ms)
                BY <3>1, PacketsOf DEF Flows, Followed
            <4>2. QED
                BY <2>2, <4>1, ConcatProperties
        <3>2. ASSUME NEW q \in open, FdsFollow(q) PROVE FdsFollow(q)'
            BY <3>2, SameFds DEF Buf, BufFds
        <3>3. QED
            BY <1>1, <2>2, <3>1, <3>2 DEF Flows, Followed
    <2>7. QED
        BY <2>5, <2>6 DEF Flows
<1>5. QED
    BY <1>3, <1>4

LEMMA ReadFlows ==
    ASSUME Typed, Control, Flows, NEW s \in Sides, Read(s)
    PROVE  Flows'
<1>1. PICK p \in Packet, t \in Seq(Packet), m \in Message, k \in Seq(Fd) : Taken(s, p, t, m, k)
    BY ReadTakes
<1>2. UNCHANGED <<from, up, down, closed, open, wrote, plan>> /\ s \in open /\ to[s] # <<>>
    BY DEF Read
<1>3. Looks' = Looks
    BY <1>2, LooksKept
<1>4. \A q \in Sides : Buf(q)' = Buf(q) /\ BufFds(q)' = BufFds(q)
    BY <1>2 DEF Buf, BufFds
<1>5. /\ to'[s] = t /\ got'[s] = got[s] \o <<m>> /\ held'[s] = k
      /\ \A q \in Sides : q # s => to'[q] = to[q] /\ got'[q] = got[q] /\ held'[q] = held[q]
    BY <1>1 DEF Taken, Typed
<1>6. ASSUME ~plan.batches
      PROVE  m = p.msg /\ FdsFollow(s)'
    <2>1. FdsFollow(s)
        BY <1>2, <1>6 DEF Flows, Followed
    <2>2. PICK h \in Seq(Fd), b \in Seq(Message), d \in Seq(Fd) :
            h = held[s] /\ b = Buf(s) /\ d = BufFds(s)
        BY LineParts
    <2>3. PICK q : q = <<p>> \o t /\ q = to[s]
        BY <1>1 DEF Taken
    <2>4. Early(h, q) /\ Due(h, q, b, d)
        BY <2>1, <2>2, <2>3 DEF FdsFollow
    <2>5. PICK c \in Seq(Fd) : h \o p.att = p.msg.fds \o c /\ Early(c, t) /\ Due(c, t, b, d)
        BY <2>3, <2>4, DueReads
    <2>6. m = p.msg /\ k = c
        BY <1>1, <2>2, <2>5 DEF Taken
    <2>7. QED
        BY <1>4, <1>5, <2>2, <2>5, <2>6 DEF FdsFollow
<1>7. ASSUME NEW K \in Looks PROVE K[m] = K[p.msg]
    <2>1. m.kind = p.msg.kind /\ p.msg \in Message
        BY <1>1 DEF Taken, Packet
    <2>2. CASE K = KindOf
        BY <2>1, <2>2 DEF KindOf
    <2>3. CASE ~plan.batches
        BY <1>6, <2>3
    <2>4. QED
        BY <2>2, <2>3 DEF Looks
<1>8. LineOf(s)'
    <2>1. LineOf(s)
        <3>1. up.pc # "new"
            BY <1>2 DEF Control, Unserved
        <3>2. QED
            BY <1>2, <3>1 DEF Flows, Carried
    <2>2. ASSUME NEW K \in Looks
          PROVE  Line(K, got[s] \o <<m>>, t, Buf(s), from[Across(s)], wrote[Across(s)])
        <3>1. PICK g \in Seq(Message), b \in Seq(Message), f \in Seq(Packet), w \in Seq(Message) :
                g = got[s] /\ b = Buf(s) /\ f = from[Across(s)] /\ w = wrote[Across(s)]
            BY LineParts
        <3>2. Line(K, g, <<p>> \o t, b, f, w)
            BY <1>1, <2>1, <3>1 DEF LineOf, Taken
        <3>3. K \in [Message -> Seq(Look)] /\ K[m] = K[p.msg]
            BY <1>7, LooksTyped
        <3>4. Line(K, g \o <<m>>, t, b, f, w)
            BY <3>2, <3>3, LineReads
        <3>5. QED
            BY <3>1, <3>4
    <2>3. QED
        BY <1>2, <1>3, <1>4, <1>5, <2>2 DEF LineOf
<1>9. Carried'
    <2>1. ASSUME NEW q \in Sides, q # s, LineOf(q) PROVE LineOf(q)'
        BY <1>2, <1>3, <1>4, <1>5, <2>1, SameLine
    <2>2. QED
        BY <1>2, <1>8, <2>1 DEF Flows, Carried, Control, Stopped
<1>10. Followed'
    <2>1. ASSUME NEW q \in Sides, q # s, FdsFollow(q) PROVE FdsFollow(q)'
        BY <1>4, <1>5, <2>1, SameFds
    <2>2. QED
        BY <1>2, <1>6, <2>1 DEF Flows, Followed, Control, Stopped
<1>11. QED
    BY <1>9, <1>10 DEF Flows

-----------------------------------------------------------------------------
(* A step of one thread: the other direction does not notice.               *)
LEMMA OtherFlows ==
    ASSUME Control, Flows, NEW s \in Sides, up.pc # "new",
           \A q \in Sides : q # s =>
             /\ to'[q] = to[q] /\ Buf(q)' = Buf(q) /\ BufFds(q)' = BufFds(q)
             /\ from'[Across(q)] = from[Across(q)],
           UNCHANGED <<got, wrote, held, open, plan>>,
           s \in open => LineOf(s)',
           ~plan.batches => /\ \A q \in Sides : from'[q] \in Seq(Owned)
                            /\ down'.fds = MFds(down'.buf)
                            /\ s \in open => FdsFollow(s)'
    PROVE  Flows'
<1>1. Looks' = Looks /\ plan'.batches = plan.batches
    BY LooksKept
<1>2. ASSUME NEW q \in Sides, q # s, LineOf(q) PROVE LineOf(q)'
    BY <1>1, <1>2, SameLine
<1>3. ASSUME NEW q \in Sides, q # s, FdsFollow(q) PROVE FdsFollow(q)'
    BY <1>3, SameFds
<1>4. \A q \in open : LineOf(q)
    BY DEF Flows, Carried
<1>5. open \subseteq Sides /\ open' = open
    BY DEF Control, Stopped
<1>6. Carried'
    BY <1>2, <1>4, <1>5 DEF Carried
<1>7. Followed'
    BY <1>1, <1>3, <1>5 DEF Flows, Followed
<1>8. QED
    BY <1>6, <1>7 DEF Flows

LEMMA UpReadFlows ==
    ASSUME Typed, Control, Flows, UpRead
    PROVE  Flows'
<1>1. PICK ps \in Seq(Requested), f \in Seq(Requested), ms \in Seq(Request), d \in Seq(Fd) :
        UpTaken(ps, f, ms, d)
    BY UpReadTakes
<1>2. /\ up.pc = "read" /\ up.buf = <<>> /\ up.fds = <<>>
      /\ UNCHANGED <<peers, to, down>>
    BY DEF UpRead, Control, Placed
<1>3. ps \in Seq(Packet) /\ f \in Seq(Packet) /\ ms \in Seq(Message)
    BY Wider
<1>4. up'.buf = ms /\ up'.fds = d /\ from'["client"] = f /\ from'["server"] = from["server"]
    BY <1>1 DEF UpTaken, Typed, Sides
<1>5. Looks' = Looks
    BY <1>2, LooksKept DEF peers
<1>6. ASSUME "server" \in open PROVE LineOf("server")'
    <2>1. LineOf("server")
        BY <1>2, <1>6 DEF Flows, Carried
    <2>2. ASSUME NEW K \in Looks
          PROVE  Line(K, got["server"], to["server"], ms, f, wrote["client"])
        <3>1. PICK g \in Seq(Message), t \in Seq(Packet), w \in Seq(Message) :
                g = got["server"] /\ t = to["server"] /\ w = wrote["client"]
            BY LineParts DEF Sides, Across
        <3>2. Line(K, g, t, <<>>, ps \o f, w)
            BY <1>1, <1>2, <2>1, <3>1 DEF LineOf, UpTaken, Buf, Across
        <3>3. FlatMap(OfMsg(Pass(K)), ps) = FlatMap(Pass(K), ms)
            BY <1>1, <1>3, SameMsgs DEF UpTaken
        <3>4. K \in [Message -> Seq(Look)]
            BY LooksTyped
        <3>5. Line(K, g, t, ms, f, w)
            BY <1>3, <3>2, <3>3, <3>4, LineTakes
        <3>6. QED
            BY <3>1, <3>5
    <2>3. QED
        BY <1>2, <1>4, <1>5, <2>2 DEF LineOf, Buf, Across, peers
<1>7. ASSUME ~plan.batches
      PROVE  /\ \A q \in Sides : from'[q] \in Seq(Owned)
             /\ down'.fds = MFds(down'.buf)
             /\ "server" \in open => FdsFollow("server")'
    <2>1. from["client"] \in Seq(Owned) /\ from["server"] \in Seq(Owned) /\ down.fds = MFds(down.buf)
        BY <1>7 DEF Flows, Followed, Sides
    <2>2. d = MFds(ms) /\ f \in Seq(Owned)
        BY <1>1, <2>1 DEF UpTaken
    <2>3. ASSUME "server" \in open PROVE FdsFollow("server")'
        <3>1. PICK h \in Seq(Fd), t \in Seq(Packet) : h = held["server"] /\ t = to["server"]
            BY LineParts DEF Sides
        <3>2. Early(h, t) /\ Due(h, t, <<>>, <<>>)
            BY <1>2, <1>7, <2>3, <3>1 DEF Flows, Followed, FdsFollow, Buf, BufFds
        <3>3. Due(h, t, ms, d)
            BY <1>3, <2>2, <3>2, DueTakes
        <3>4. QED
            BY <1>2, <1>4, <3>1, <3>2, <3>3 DEF FdsFollow, Buf, BufFds, peers
    <2>4. QED
        BY <1>2, <1>4, <2>1, <2>2, <2>3 DEF Sides
<1>8. \A q \in Sides : q # "server" =>
        /\ to'[q] = to[q] /\ Buf(q)' = Buf(q) /\ BufFds(q)' = BufFds(q)
        /\ from'[Across(q)] = from[Across(q)]
    BY <1>2, <1>4 DEF Sides, Across, Buf, BufFds
<1>9. QED
    BY <1>2, <1>6, <1>7, <1>8, OtherFlows DEF Sides, peers

LEMMA UpSendFlows ==
    ASSUME Typed, Control, Flows, UpSend
    PROVE  Flows'
<1>1. PICK m \in Message, b \in Seq(Request), p \in Packet : UpSent(m, b, p)
    BY UpSendSends DEF Control
<1>2. up.pc = "send" /\ UNCHANGED <<peers, from, down>>
    BY DEF UpSend
<1>3. b \in Seq(Message)
    BY Wider
<1>4. /\ up'.buf = b /\ up'.fds = <<>>
      /\ to'["server"] = to["server"] \o <<p>> /\ to'["client"] = to["client"]
    BY <1>1 DEF UpSent, Typed, Sides
<1>5. Looks' = Looks
    BY <1>2, LooksKept DEF peers
<1>6. ASSUME "server" \in open PROVE LineOf("server")'
    <2>1. LineOf("server")
        BY <1>2, <1>6 DEF Flows, Carried
    <2>2. ASSUME NEW K \in Looks
          PROVE  Line(K, got["server"], to["server"] \o <<p>>, b, from["client"], wrote["client"])
        <3>1. PICK g \in Seq(Message), t \in Seq(Packet), f \in Seq(Packet), w \in Seq(Message) :
                g = got["server"] /\ t = to["server"] /\ w = wrote["client"] /\ f = from["client"]
            BY LineParts DEF Sides, Across
        <3>2. Line(K, g, t, <<m>> \o b, f, w)
            BY <1>1, <2>1, <3>1 DEF LineOf, UpSent, Buf, Across
        <3>3. K \in [Message -> Seq(Look)] /\ p.msg = m /\ ~Drop(m)
            BY <1>1, LooksTyped DEF UpSent
        <3>4. Line(K, g, t \o <<p>>, b, f, w)
            BY <1>3, <3>2, <3>3, LineSends
        <3>5. QED
            BY <3>1, <3>4
    <2>3. QED
        BY <1>2, <1>4, <1>5, <2>2 DEF LineOf, Buf, Across, peers
<1>7. ASSUME ~plan.batches, "server" \in open PROVE FdsFollow("server")'
    <2>1. PICK h \in Seq(Fd), t \in Seq(Packet), d \in Seq(Fd) :
            h = held["server"] /\ t = to["server"] /\ d = up.fds
        BY LineParts DEF Sides, BufFds
    <2>2. Early(h, t) /\ Due(h, t, <<m>> \o b, d)
        BY <1>1, <1>7, <2>1 DEF Flows, Followed, FdsFollow, Buf, BufFds, UpSent
    <2>3. p.msg = m /\ p.att = d
        BY <1>1, <2>1 DEF UpSent
    <2>4. Due(h, t \o <<p>>, b, <<>>)
        BY <1>3, <2>2, <2>3, DueSends
    <2>5. Early(h, t \o <<p>>)
        BY <1>3, <2>2, <2>4, EarlySends
    <2>6. QED
        BY <1>2, <1>4, <2>1, <2>4, <2>5 DEF FdsFollow, Buf, BufFds, peers
<1>8. \A q \in Sides : q # "server" =>
        /\ to'[q] = to[q] /\ Buf(q)' = Buf(q) /\ BufFds(q)' = BufFds(q)
        /\ from'[Across(q)] = from[Across(q)]
    BY <1>2, <1>4 DEF Sides, Across, Buf, BufFds
<1>9. ~plan.batches => (\A q \in Sides : from'[q] \in Seq(Owned)) /\ down'.fds = MFds(down'.buf)
    BY <1>2 DEF Flows, Followed
<1>10. QED
    BY <1>2, <1>6, <1>7, <1>8, <1>9, OtherFlows DEF Sides, peers

LEMMA DownReadFlows ==
    ASSUME Typed, Control, Flows, DownRead
    PROVE  Flows'
<1>1. PICK h \in Packet, f \in Seq(Packet) : DownTaken(h, f)
    BY DownReadTakes DEF Control
<1>2. /\ down.pc \in {"setup", "read"} /\ down.buf = <<>> /\ down.fds = <<>> /\ up.pc # "new"
      /\ UNCHANGED <<peers, to, up>>
    BY DEF DownRead, Control, Placed
<1> DEFINE ms == <<h.msg>>
           ps == <<h>>
<1>3. h.msg \in Message /\ h.att \in Seq(Fd) /\ ms \in Seq(Message) /\ ps \in Seq(Packet)
    BY DEF Packet
<1>4. /\ down'.buf = ms /\ down'.fds = h.att
      /\ from'["server"] = f /\ from'["client"] = from["client"]
    <2>1. from'["server"] = f /\ from'["client"] = from["client"]
        BY <1>1 DEF DownTaken, Typed, Sides
    <2>2. PICK o : down' = [pc |-> "send", buf |-> ms, fds |-> h.att, order |-> o]
        BY <1>1 DEF DownTaken
    <2>3. QED
        BY <2>1, <2>2
<1>5. Looks' = Looks
    BY <1>2, LooksKept DEF peers
<1>6. \A F : FlatMap(OfMsg(F), ps) = FlatMap(F, ms)
    <2>1. Len(ps) = Len(ms) /\ \A k \in 1..Len(ms) : ps[k].msg = ms[k]
        OBVIOUS
    <2> HIDE DEF ps, ms
    <2>2. QED
        BY <1>3, <2>1, SameMsgs
<1>7. from["server"] = ps \o f
    BY <1>1 DEF DownTaken
<1>8. MFds(ms) = h.msg.fds
    BY <1>3, MFdsOne
<1> HIDE DEF ps, ms
<1>9. ASSUME "client" \in open PROVE LineOf("client")'
    <2>1. LineOf("client")
        BY <1>2, <1>9 DEF Flows, Carried
    <2>2. ASSUME NEW K \in Looks
          PROVE  Line(K, got["client"], to["client"], ms, f, wrote["server"])
        <3>1. PICK g \in Seq(Message), t \in Seq(Packet), w \in Seq(Message) :
                g = got["client"] /\ t = to["client"] /\ w = wrote["server"]
            BY LineParts DEF Sides, Across
        <3>2. Line(K, g, t, <<>>, ps \o f, w)
            BY <1>2, <1>7, <2>1, <3>1 DEF LineOf, Buf, Across
        <3>3. FlatMap(OfMsg(Pass(K)), ps) = FlatMap(Pass(K), ms)
            BY <1>6
        <3>4. K \in [Message -> Seq(Look)]
            BY LooksTyped
        <3>5. Line(K, g, t, ms, f, w)
            BY <1>3, <3>2, <3>3, <3>4, LineTakes
        <3>6. QED
            BY <3>1, <3>5
    <2>3. QED
        BY <1>2, <1>4, <1>5, <2>2 DEF LineOf, Buf, Across, peers
<1>10. ASSUME ~plan.batches
      PROVE  /\ \A q \in Sides : from'[q] \in Seq(Owned)
             /\ down'.fds = MFds(down'.buf)
             /\ "client" \in open => FdsFollow("client")'
    <2>1. from["client"] \in Seq(Owned) /\ from["server"] \in Seq(Owned)
        BY <1>10 DEF Flows, Followed, Sides
    <2>2. h.att = h.msg.fds /\ f \in Seq(Owned)
        <3>1. PICK q \in Seq(Owned) : q = from["server"]
            BY <2>1
        <3>2. q # <<>> /\ Head(q) = h /\ Tail(q) = f
            <4>1. f = <<>> \o f
                BY ConcatEmptySeq
            <4>2. Head(ps) = h /\ Tail(ps) = <<>> /\ ps # <<>>
                BY DEF ps
            <4>3. ps \o f # <<>> /\ Head(ps \o f) = Head(ps) /\ Tail(ps \o f) = Tail(ps) \o f
                BY <1>3, <4>2, HeadOfFirst
            <4>4. QED
                BY <1>7, <3>1, <4>1, <4>2, <4>3
        <3>3. Head(q) \in Owned /\ Tail(q) \in Seq(Owned)
            BY <3>2, HeadTailProperties
        <3>4. QED
            BY <3>2, <3>3 DEF Owned
    <2>3. ASSUME "client" \in open PROVE FdsFollow("client")'
        <3>1. PICK k \in Seq(Fd), t \in Seq(Packet) : k = held["client"] /\ t = to["client"]
            BY LineParts DEF Sides
        <3>2. Early(k, t) /\ Due(k, t, <<>>, <<>>)
            BY <1>2, <1>10, <2>3, <3>1 DEF Flows, Followed, FdsFollow, Buf, BufFds
        <3>3. PICK d \in Seq(Fd) : d = h.att /\ d = MFds(ms)
            BY <1>3, <1>8, <2>2
        <3>4. Due(k, t, ms, d)
            BY <1>3, <3>2, <3>3, DueTakes
        <3>5. QED
            BY <1>2, <1>4, <3>1, <3>2, <3>3, <3>4 DEF FdsFollow, Buf, BufFds, peers
    <2>4. QED
        BY <1>4, <1>8, <2>1, <2>2, <2>3 DEF Sides
<1>11. \A q \in Sides : q # "client" =>
        /\ to'[q] = to[q] /\ Buf(q)' = Buf(q) /\ BufFds(q)' = BufFds(q)
        /\ from'[Across(q)] = from[Across(q)]
    BY <1>2, <1>4 DEF Sides, Across, Buf, BufFds
<1>12. QED
    BY <1>2, <1>9, <1>10, <1>11, OtherFlows DEF Sides, peers

LEMMA DownForwardFlows ==
    ASSUME Typed, Control, Flows, DownForward
    PROVE  Flows'
<1>1. down'.buf = <<>> /\ down'.fds = <<>>
    BY DownForwards DEF Control
<1>2. PICK m \in Message :
        /\ down.buf = <<m>>
        /\ \/ Drop(m) /\ UNCHANGED to
           \/ \E p \in Packet : DownSent(m, p)
    BY DownForwards DEF Control
<1>3. up.pc # "new" /\ UNCHANGED <<peers, from, up>>
    BY DEF DownForward, Control, Placed
<1>4. Looks' = Looks
    BY <1>3, LooksKept DEF peers
<1>5. to'["server"] = to["server"]
    BY <1>2 DEF DownSent, Typed, Sides
<1>6. <<m>> = <<m>> \o <<>> /\ <<>> \in Seq(Message)
    BY EmptySeq
<1>7. ASSUME "client" \in open PROVE LineOf("client")'
    <2>1. LineOf("client")
        BY <1>3, <1>7 DEF Flows, Carried
    <2>2. ASSUME NEW K \in Looks
          PROVE  Line(K, got["client"], to'["client"], <<>>, from["server"], wrote["server"])
        <3>1. PICK g \in Seq(Message), t \in Seq(Packet), f \in Seq(Packet), w \in Seq(Message) :
                g = got["client"] /\ t = to["client"] /\ w = wrote["server"] /\ f = from["server"]
            BY LineParts DEF Sides, Across
        <3>2. Line(K, g, t, <<m>>, f, w)
            BY <1>2, <2>1, <3>1 DEF LineOf, Buf, Across
        <3>3. K \in [Message -> Seq(Look)]
            BY LooksTyped
        <3>4. CASE Drop(m) /\ UNCHANGED to
            <4>1. Line(K, g, t, <<>>, f, w)
                BY <3>2, <3>3, <3>4, LineDrops
            <4>2. QED
                BY <3>1, <3>4, <4>1
        <3>5. ASSUME NEW p \in Packet, DownSent(m, p)
              PROVE  Line(K, g, to'["client"], <<>>, f, w)
            <4>1. Line(K, g, t, <<m>> \o <<>>, f, w)
                BY <1>6, <3>2
            <4>2. p.msg = m /\ ~Drop(m)
                BY <3>5 DEF DownSent
            <4>3. Line(K, g, t \o <<p>>, <<>>, f, w)
                BY <1>6, <3>3, <4>1, <4>2, LineSends
            <4>4. to'["client"] = t \o <<p>>
                BY <3>1, <3>5 DEF DownSent, Typed, Sides
            <4>5. QED
                BY <4>3, <4>4
        <3>6. QED
            BY <1>2, <3>1, <3>4, <3>5
    <2>3. QED
        BY <1>1, <1>3, <1>4, <2>2 DEF LineOf, Buf, Across, peers
<1>8. ASSUME ~plan.batches, "client" \in open PROVE FdsFollow("client")'
    <2>1. PICK h \in Seq(Fd), t \in Seq(Packet), d \in Seq(Fd) :
            h = held["client"] /\ t = to["client"] /\ d = down.fds
        BY LineParts DEF Sides, BufFds
    <2>2. Early(h, t) /\ Due(h, t, <<m>>, d)
        BY <1>2, <1>8, <2>1 DEF Flows, Followed, FdsFollow, Buf, BufFds
    <2>3. CASE Drop(m) /\ UNCHANGED to
        <3>1. MFds(<<m>>) = <<>> /\ d = <<>>
            <4>1. MFds(<<m>>) = m.fds
                BY MFdsOne
            <4>2. m.fds = <<>>
                BY <2>3 DEF Drop, Message
            <4>3. d = MFds(<<m>>)
                BY <1>2, <1>8, <2>1 DEF Flows, Followed
            <4>4. QED
                BY <4>1, <4>2, <4>3
        <3>2. Due(h, t, <<>>, <<>>)
            BY <2>2, <3>1, FdsEmpty DEF Due
        <3>3. QED
            BY <1>1, <1>3, <2>1, <2>2, <2>3, <3>2 DEF FdsFollow, Buf, BufFds, peers
    <2>4. ASSUME NEW p \in Packet, DownSent(m, p) PROVE FdsFollow("client")'
        <3>1. p.msg = m /\ p.att = d
            BY <2>1, <2>4 DEF DownSent
        <3>2. Due(h, t, <<m>> \o <<>>, d)
            BY <1>6, <2>2
        <3>3. Due(h, t \o <<p>>, <<>>, <<>>)
            BY <1>6, <3>1, <3>2, DueSends
        <3>4. Early(h, t \o <<p>>)
            BY <1>6, <2>2, <3>3, EarlySends
        <3>5. to'["client"] = t \o <<p>>
            BY <2>1, <2>4 DEF DownSent, Typed, Sides
        <3>6. QED
            BY <1>1, <1>3, <2>1, <3>3, <3>4, <3>5 DEF FdsFollow, Buf, BufFds, peers
    <2>5. QED
        BY <1>2, <2>3, <2>4
<1>9. \A q \in Sides : q # "client" =>
        /\ to'[q] = to[q] /\ Buf(q)' = Buf(q) /\ BufFds(q)' = BufFds(q)
        /\ from'[Across(q)] = from[Across(q)]
    BY <1>3, <1>5 DEF Sides, Across, Buf, BufFds
<1>10. ~plan.batches => (\A q \in Sides : from'[q] \in Seq(Owned)) /\ down'.fds = MFds(down'.buf)
    BY <1>1, <1>3, FdsEmpty DEF Flows, Followed
<1>11. QED
    BY <1>3, <1>7, <1>8, <1>9, <1>10, OtherFlows DEF Sides, peers

-----------------------------------------------------------------------------
(* A step that moves nothing on the way to a peer who still reads.          *)
LEMMA QuietFlows ==
    ASSUME Flows, open' \subseteq open, open \subseteq Sides,
           up'.pc # "new" \/ ~closed' => up.pc # "new" \/ ~closed,
           \A s \in open' :
             /\ to'[s] = to[s]
             /\ up'.pc # "new" \/ ~closed' => from'[Across(s)] = from[Across(s)],
           \A s \in Sides : from'[s] = from[s] \/ from'[s] = <<>>,
           up'.buf = up.buf, up'.fds = up.fds, down'.buf = down.buf, down'.fds = down.fds,
           UNCHANGED <<got, wrote, held, plan>>
    PROVE  Flows'
<1>1. Looks' = Looks
    BY LooksKept
<1>2. \A s \in Sides : Buf(s)' = Buf(s) /\ BufFds(s)' = BufFds(s)
    BY DEF Buf, BufFds
<1>3. ASSUME NEW s \in open', up'.pc # "new" \/ ~closed' PROVE LineOf(s)'
    <2>1. LineOf(s)
        BY <1>3 DEF Flows, Carried
    <2>2. QED
        BY <1>1, <1>2, <1>3, <2>1, SameLine
<1>4. ASSUME NEW s \in open', FdsFollow(s) PROVE FdsFollow(s)'
    BY <1>2, <1>4, SameFds
<1>5. Carried'
    BY <1>3 DEF Carried
<1>6. Followed'
    <2>1. <<>> \in Seq(Owned)
        BY EmptySeq
    <2>2. QED
        BY <1>4, <2>1 DEF Flows, Followed
<1>7. QED
    BY <1>5, <1>6 DEF Flows

LEMMA FlowsNext ==
    ASSUME Typed, Control, Flows, [Next]_vars
    PROVE  Flows'
<1>0. /\ open \subseteq Sides /\ DOMAIN to = Sides /\ DOMAIN from = Sides
      /\ up = [pc |-> up.pc, buf |-> up.buf, fds |-> up.fds]
      /\ down = [pc |-> down.pc, buf |-> down.buf, fds |-> down.fds, order |-> down.order]
    BY DEF Control, Stopped, Typed
<1>1. ASSUME ClientWrites PROVE Flows'
    <2>1. PICK m \in Request : Write("client", <<m>>)
        BY <1>1, ClientWritten DEF Typed
    <2>2. Batch(<<m>>)
        BY Wider DEF Batch
    <2>3. QED
        BY <1>1, <2>1, <2>2, WriteFlows DEF ClientWrites, Sides
<1>2. ASSUME ServerWrites PROVE Flows'
    <2>1. PICK ms : Batch(ms) /\ Write("server", ms)
        BY <1>2, ServerWritten DEF Typed
    <2>2. QED
        BY <1>2, <2>1, WriteFlows DEF ServerWrites, Sides
<1>3. ASSUME NEW s \in Sides, ReadEnd(s) PROVE Flows'
    <2>1. open' = open \ {s} /\ UNCHANGED <<to, from, up, down, closed, got, wrote, held, plan>>
        BY <1>3 DEF ReadEnd
    <2>2. QED
        BY <1>0, <2>1, QuietFlows
<1>4. ASSUME NEW s \in Sides, HangUp(s) PROVE Flows'
    <2>1. open' = open \ {s} /\ to' = [to EXCEPT ![s] = <<>>]
          /\ UNCHANGED <<from, up, down, closed, got, wrote, held, plan>>
        BY <1>4 DEF HangUp
    <2>2. \A q \in open' : to'[q] = to[q]
        BY <1>0, <2>1
    <2>3. QED
        BY <1>0, <2>1, <2>2, QuietFlows
<1>5. ASSUME Serve PROVE Flows'
    <2>1. UNCHANGED <<peers, to>> /\ ~closed
        BY <1>5 DEF Serve
    <2>2. CASE up' = [up EXCEPT !.pc = "read"] /\ down' = [down EXCEPT !.pc = "setup"]
               /\ UNCHANGED <<closed, from>>
        <3>1. /\ up'.buf = up.buf /\ up'.fds = up.fds
              /\ down'.buf = down.buf /\ down'.fds = down.fds
            BY <1>0, <2>2
        <3>2. QED
            BY <1>0, <2>1, <2>2, <3>1, QuietFlows DEF peers
    <2>3. CASE closed' = TRUE /\ from' = [s \in Sides |-> <<>>] /\ UNCHANGED <<up, down>>
        <3>1. up'.pc = "new"
            BY <1>5, <2>3 DEF Serve
        <3>2. \A s \in Sides : from'[s] = <<>>
            BY <2>3
        <3>3. QED
            BY <1>0, <2>1, <2>3, <3>1, <3>2, QuietFlows DEF peers
    <2>4. QED
        BY <1>5, <2>2, <2>3 DEF Serve
<1>6. ASSUME Join PROVE Flows'
    <2>1. /\ from' = [s \in Sides |-> <<>>] /\ UNCHANGED <<peers, to, up, down>>
          /\ up.pc = "ended" /\ down.pc = "ended"
        BY <1>6 DEF Join
    <2>2. \A s \in open : from[Across(s)] = <<>>
        BY <1>0, <2>1 DEF Control, Stopped, Drained, Sides
    <2>3. \A s \in Sides : from'[s] = <<>> /\ Across(s) \in Sides
        BY <2>1 DEF Across, Sides
    <2>4. \A s \in open : from'[Across(s)] = from[Across(s)]
        BY <1>0, <2>2, <2>3
    <2>5. QED
        BY <1>0, <2>1, <2>3, <2>4, QuietFlows DEF peers
<1>7. ASSUME UpStore \/ UpEnd PROVE Flows'
    <2>1. up'.buf = up.buf /\ up'.fds = up.fds /\ up.pc # "new"
          /\ UNCHANGED <<peers, from, to, down, closed>>
        BY <1>0, <1>7 DEF UpStore, UpEnd
    <2>2. QED
        BY <1>0, <2>1, QuietFlows DEF peers
<1>8. ASSUME DownEnd PROVE Flows'
    <2>1. down'.buf = down.buf /\ down'.fds = down.fds
          /\ UNCHANGED <<peers, from, to, up, closed>>
        BY <1>0, <1>8 DEF DownEnd
    <2>2. QED
        BY <1>0, <2>1, QuietFlows DEF peers
<1>9. CASE UNCHANGED vars
    BY <1>0, <1>9, QuietFlows DEF vars
<1>10. QED
    BY <1>1, <1>2, <1>3, <1>4, <1>5, <1>6, <1>7, <1>8, <1>9, ReadFlows, UpReadFlows, UpSendFlows,
       DownReadFlows, DownForwardFlows DEF Next, UpThread, DownThread

-----------------------------------------------------------------------------
(* A peer who has gone reads no more, and what the other one wrote is only  *)
(* added to; one who heard the end of the other's stream had all of it.     *)
LEMMA WroteMore ==
    ASSUME Typed, [Next]_vars, NEW s \in Sides
    PROVE  /\ \E r \in Seq(Message) : wrote'[s] = wrote[s] \o r
           /\ s \notin open => wrote'[s] = wrote[s]
<1>1. wrote[s] \in Seq(Message) /\ DOMAIN wrote = Sides
    BY DEF Typed
<1>2. CASE wrote' = wrote
    <2>1. wrote[s] \o <<>> = wrote[s] /\ <<>> \in Seq(Message)
        BY <1>1, ConcatEmptySeq, EmptySeq
    <2>2. QED
        BY <1>2, <2>1
<1>3. ASSUME NEW q \in Sides, NEW ms, Batch(ms), Write(q, ms)
      PROVE  /\ \E r \in Seq(Message) : wrote'[s] = wrote[s] \o r
             /\ s \notin open => wrote'[s] = wrote[s]
    <2>1. CASE wrote' = wrote
        BY <1>2, <2>1
    <2>2. CASE ~closed
        <3>1. wrote' = [wrote EXCEPT ![q] = @ \o ms] /\ q \in open
            BY <1>3, <2>2, WriteAdds DEF Write
        <3>2. CASE q = s
            BY <1>1, <1>3, <3>1, <3>2 DEF Batch
        <3>3. CASE q # s
            <4>1. wrote'[s] = wrote[s]
                BY <1>1, <3>1, <3>3
            <4>2. wrote[s] \o <<>> = wrote[s] /\ <<>> \in Seq(Message)
                BY <1>1, ConcatEmptySeq, EmptySeq
            <4>3. QED
                BY <4>1, <4>2
        <3>4. QED
            BY <3>2, <3>3
    <2>3. QED
        BY <1>3, <2>1, <2>2, WriteUnread
<1>4. ClientWrites => \E ms : Batch(ms) /\ Write("client", ms)
    <2>1. ASSUME ClientWrites PROVE \E ms : Batch(ms) /\ Write("client", ms)
        <3>1. PICK m \in Request : Write("client", <<m>>)
            BY <2>1, ClientWritten DEF Typed
        <3>2. Batch(<<m>>)
            BY Wider DEF Batch
        <3>3. QED
            BY <3>1, <3>2
    <2>2. QED
        BY <2>1
<1>5. ServerWrites => \E ms : Batch(ms) /\ Write("server", ms)
    BY ServerWritten DEF Typed
<1>6. ClientWrites \/ ServerWrites \/ wrote' = wrote
    BY DEF Next, vars, peers, Serve, Join, UpThread, DownThread, UpRead, UpStore, UpSend, UpEnd,
       DownRead, DownForward, DownEnd, Read, ReadEnd, HangUp
<1>7. QED
    BY <1>2, <1>3, <1>4, <1>5, <1>6 DEF Sides

LEMMA GotOpen ==
    ASSUME Typed, [Next]_vars, NEW s \in Sides
    PROVE  /\ s \notin open' => got'[s] = got[s]
           /\ s \notin open => s \notin open'
           /\ s \in heard' \ heard => ReadEnd(s)
<1>1. ASSUME NEW q \in Sides, Read(q)
      PROVE  (s \notin open' => got'[s] = got[s]) /\ open' = open /\ heard' = heard
    BY <1>1 DEF Read, Typed
<1>2. ASSUME NEW q \in Sides, ReadEnd(q)
      PROVE  got' = got /\ open' = open \ {q} /\ heard' = heard \union {q}
    BY <1>2 DEF ReadEnd
<1>3. ASSUME NEW q \in Sides, HangUp(q)
      PROVE  got' = got /\ open' = open \ {q} /\ heard' = heard
    BY <1>3 DEF HangUp
<1>4. \/ UNCHANGED <<got, open, heard>>
      \/ \E q \in Sides : Read(q) \/ ReadEnd(q) \/ HangUp(q)
    BY DEF Next, vars, peers, Serve, Join, UpThread, DownThread, UpRead, UpStore,
       UpSend, UpEnd, DownRead, DownForward, DownEnd, ClientWrites, ServerWrites, Write
<1>5. QED
    BY <1>1, <1>2, <1>3, <1>4

(* Only serve starts the threads, before it has closed anything.            *)
LEMMA Started ==
    ASSUME [Next]_vars, up.pc = "new", up'.pc # "new"
    PROVE  ~closed
BY DEF Next, vars, peers, Serve, Join, UpThread, DownThread, UpRead, UpStore,
   UpSend, UpEnd, DownRead, DownForward, DownEnd, ClientWrites, ServerWrites, Write,
   Read, ReadEnd, HangUp

LEMMA PlanBatches ==
    ASSUME Typed, [Next]_vars
    PROVE  Looks' = Looks
<1>1. ClientWrites => plan'.batches = plan.batches
    <2>1. ASSUME ClientWrites PROVE plan'.batches = plan.batches
        <3>1. PICK m \in Request : Write("client", <<m>>)
            BY <2>1, ClientWritten DEF Typed
        <3>2. QED
            BY <3>1, PlanUsed DEF Typed, Sides
    <2>2. QED
        BY <2>1
<1>2. ServerWrites => plan'.batches = plan.batches
    <2>1. ASSUME ServerWrites PROVE plan'.batches = plan.batches
        <3>1. PICK ms : Batch(ms) /\ Write("server", ms)
            BY <2>1, ServerWritten DEF Typed
        <3>2. QED
            BY <3>1, PlanUsed DEF Typed, Sides, Batch
    <2>2. QED
        BY <2>1
<1>3. ClientWrites \/ ServerWrites \/ plan' = plan
    BY DEF Next, vars, peers, Serve, Join, UpThread, DownThread, UpRead, UpStore, UpSend, UpEnd,
       DownRead, DownForward, DownEnd, Read, ReadEnd, HangUp
<1>4. QED
    BY <1>1, <1>2, <1>3, LooksKept

-----------------------------------------------------------------------------
LEMMA FlowTyped ==
    \A K \in Looks :
      /\ \A g \in Seq(Message) : FlatMap(K, g) \in Seq(Look) /\ FlatMap(Pass(K), g) \in Seq(Look)
      /\ \A t \in Seq(Packet) :
           FlatMap(OfMsg(K), t) \in Seq(Look) /\ FlatMap(OfMsg(Pass(K)), t) \in Seq(Look)
<1>1. SUFFICES ASSUME NEW K \in Looks, NEW g \in Seq(Message), NEW t \in Seq(Packet)
               PROVE  /\ FlatMap(K, g) \in Seq(Look) /\ FlatMap(Pass(K), g) \in Seq(Look)
                      /\ FlatMap(OfMsg(K), t) \in Seq(Look) /\ FlatMap(OfMsg(Pass(K)), t) \in Seq(Look)
    BY EmptySeq
<1>2. QED
    BY LooksTyped, PartsTyped

(* What a peer read stays a prefix: the other only writes more, and the     *)
(* line bounds what is read.                                                *)
LEMMA PrefixedNext ==
    ASSUME Typed, Typed', Control, Control', Carried', Prefixed, [Next]_vars
    PROVE  Prefixed'
<1>1. SUFFICES ASSUME NEW s \in Sides, NEW K \in Looks
               PROVE  \E r \in Seq(Look) : FlatMap(K, got'[s]) \o r = FlatMap(Pass(K), wrote'[Across(s)])
    BY PlanBatches DEF Prefixed
<1>2. Across(s) \in Sides /\ got'[s] \in Seq(Message) /\ wrote'[Across(s)] \in Seq(Message)
      /\ got[s] \in Seq(Message) /\ wrote[Across(s)] \in Seq(Message)
    BY DEF Typed, Across, Sides
<1>3. CASE s \in open' /\ (up'.pc # "new" \/ ~closed')
    <2>1. LineOf(s)'
        BY <1>3 DEF Carried
    <2>2. PICK g \in Seq(Message), t \in Seq(Packet), b \in Seq(Message), f \in Seq(Packet),
               w \in Seq(Message) :
            g = got'[s] /\ t = to'[s] /\ b = Buf(s)' /\ f = from'[Across(s)] /\ w = wrote'[Across(s)]
        <3>1. to'[s] \in Seq(Packet) /\ Buf(s)' \in Seq(Message) /\ from'[Across(s)] \in Seq(Packet)
            BY <1>2, Wider DEF Typed, Buf
        <3>2. QED
            BY <1>2, <3>1
    <2>3. Line(K, g, t, b, f, w)
        BY <2>1, <2>2, PlanBatches DEF LineOf
    <2>4. PICK T, B, F \in Seq(Look) :
            T = FlatMap(OfMsg(K), t) /\ B = FlatMap(Pass(K), b) /\ F = FlatMap(OfMsg(Pass(K)), f)
        BY FlowTyped
    <2>5. B \o F \in Seq(Look)
        BY ConcatLaws, Zenon DEF Closed
    <2>6. T \o (B \o F) \in Seq(Look)
        BY <2>5, ConcatLaws, Zenon DEF Closed
    <2>7. FlatMap(K, g) \o (T \o (B \o F)) = FlatMap(Pass(K), w)
        BY <2>3, <2>4, Zenon DEF Line
    <2>8. QED
        BY <2>2, <2>6, <2>7, Zenon
<1>4. CASE s \in open' /\ up'.pc = "new" /\ closed'
    <2>1. got'[s] = <<>>
        BY <1>4 DEF Control, Unserved
    <2>2. PICK w \in Seq(Look) : w = FlatMap(Pass(K), wrote'[Across(s)])
        BY <1>2, FlowTyped
    <2>3. FlatMap(K, got'[s]) = <<>> /\ <<>> \o w = w
        BY <2>1, FlatMapEmpty, ConcatEmptySeq
    <2>4. QED
        BY <2>2, <2>3
<1>5. CASE s \notin open'
    <2>1. got'[s] = got[s]
        BY <1>5, GotOpen
    <2>2. PICK x \in Seq(Message) : wrote'[Across(s)] = wrote[Across(s)] \o x
        BY <1>2, WroteMore
    <2>3. PICK r \in Seq(Look) : FlatMap(K, got[s]) \o r = FlatMap(Pass(K), wrote[Across(s)])
        BY DEF Prefixed
    <2>4. PICK G, X \in Seq(Look) : G = FlatMap(K, got[s]) /\ X = FlatMap(Pass(K), x)
        BY <1>2, FlowTyped
    <2>5. FlatMap(Pass(K), wrote[Across(s)] \o x) = FlatMap(Pass(K), wrote[Across(s)]) \o X
        <3>1. PICK w \in Seq(Message), F \in [Message -> Seq(Look)] :
                w = wrote[Across(s)] /\ F = Pass(K)
            BY <1>2, LooksTyped, PassTyped
        <3>2. FlatMap(F, w \o x) = FlatMap(F, w) \o FlatMap(F, x)
            <4>1. Splits(Message, Look)
                BY FlatMapLaw, Zenon
            <4>2. QED
                BY <4>1, Zenon DEF Splits
        <3>3. QED
            BY <2>4, <3>1, <3>2
    <2>6. (G \o r) \o X = G \o (r \o X) /\ r \o X \in Seq(Look)
        <3>1. Associative(Look) /\ Closed(Look)
            BY ConcatLaws, Zenon
        <3>2. (G \o r) \o X = G \o (r \o X)
            BY <3>1, Zenon DEF Associative
        <3>3. r \o X \in Seq(Look)
            BY <3>1, Zenon DEF Closed
        <3>4. QED
            BY <3>2, <3>3
    <2>7. FlatMap(K, got'[s]) \o (r \o X) = FlatMap(Pass(K), wrote'[Across(s)])
        BY <2>1, <2>2, <2>3, <2>4, <2>5, <2>6
    <2>8. QED
        BY <2>6, <2>7
<1>6. QED
    BY <1>3, <1>4, <1>5

(* At the end of the stream the line to him is empty.                       *)
LEMMA CompleteNext ==
    ASSUME Typed, Control, Control', Carried, Complete, [Next]_vars
    PROVE  Complete'
<1>1. SUFFICES ASSUME NEW s \in heard', up'.pc # "new"
               PROVE  FlatMap(KindOf, got'[s]) = FlatMap(Pass(KindOf), wrote'[Across(s)])
    BY DEF Complete
<1>2. s \in Sides /\ Across(s) \in Sides
    BY DEF Control, Stopped, Across, Sides
<1>3. CASE s \in heard
    <2>1. s \notin open /\ up.pc # "new"
        BY <1>1, <1>3, Started DEF Control, Stopped, Unserved
    <2>2. Across(s) \notin open
        BY <1>3, <2>1 DEF Control, Stopped
    <2>3. got'[s] = got[s] /\ wrote'[Across(s)] = wrote[Across(s)]
        BY <1>2, <2>1, <2>2, GotOpen, WroteMore
    <2>4. QED
        BY <1>3, <2>1, <2>3 DEF Complete
<1>4. CASE s \notin heard
    <2>1. ReadEnd(s)
        BY <1>1, <1>2, <1>4, GotOpen
    <2>2. /\ s \in open /\ to[s] = <<>> /\ (s \in shut \/ closed)
          /\ UNCHANGED <<up, got, wrote>>
        BY <2>1 DEF ReadEnd
    <2>3. Buf(s) = <<>> /\ from[Across(s)] = <<>>
        BY <1>1, <1>2, <2>2 DEF Control, Stopped, Drained, Sides, Buf
    <2>4. LineOf(s)
        BY <1>1, <2>2 DEF Carried
    <2>5. Line(KindOf, got[s], <<>>, <<>>, <<>>, wrote[Across(s)])
        BY <2>2, <2>3, <2>4 DEF LineOf, Looks
    <2>6. FlatMap(KindOf, got[s]) \in Seq(Look) /\ <<>> \o (<<>> \o <<>>) = <<>>
        <3>1. KindOf \in Looks /\ got[s] \in Seq(Message)
            BY <1>2, LineParts DEF Looks
        <3>2. QED
            BY <3>1, FlowTyped
    <2>7. FlatMap(KindOf, got[s]) \o <<>> = FlatMap(Pass(KindOf), wrote[Across(s)])
        BY <2>5, <2>6, FlatMapEmpty DEF Line
    <2>8. QED
        BY <2>2, <2>6, <2>7, ConcatEmptySeq
<1>5. QED
    BY <1>3, <1>4

LEMMA IInvInit == Init => IInv
<1>1. SUFFICES ASSUME Init PROVE IInv
    OBVIOUS
<1>2. plan \in Plan
    BY <1>1, X11Assumption DEF Init
<1>3. \A S : <<>> \in Seq(S)
    BY EmptySeq
<1>4. Typed
    BY <1>1, <1>2, <1>3 DEF Init, Typed, Sides
<1>5. Placed /\ Unserved /\ Stopped
    BY <1>1 DEF Init, Placed, Unserved, Stopped, Sides
<1>6. /\ \A s \in Sides : got[s] = <<>> /\ to[s] = <<>> /\ Buf(s) = <<>> /\ BufFds(s) = <<>>
                          /\ from[Across(s)] = <<>> /\ wrote[Across(s)] = <<>> /\ held[s] = <<>>
      /\ open = Sides /\ heard = {} /\ down.buf = <<>> /\ down.fds = <<>>
      /\ \A s \in Sides : from[s] = <<>>
    BY <1>1 DEF Init, Buf, BufFds, Across, Sides
<1>7. \A K : FlatMap(K, <<>>) = <<>> /\ FlatMap(Pass(K), <<>>) = <<>>
             /\ FlatMap(OfMsg(K), <<>>) = <<>> /\ FlatMap(OfMsg(Pass(K)), <<>>) = <<>>
    BY FlatMapEmpty
<1>8. <<>> \o <<>> = <<>>
    OBVIOUS
<1>9. \A K : Line(K, <<>>, <<>>, <<>>, <<>>, <<>>)
    BY <1>7, <1>8 DEF Line
<1>10. Carried
    BY <1>6, <1>9 DEF Carried, LineOf
<1>11. Prefixed
    <2>1. <<>> \in Seq(Look)
        BY <1>3
    <2>2. \A K : FlatMap(K, <<>>) \o <<>> = FlatMap(Pass(K), <<>>)
        BY <1>7, <1>8
    <2>3. QED
        BY <1>6, <2>1, <2>2 DEF Prefixed
<1>12. Complete
    BY <1>6 DEF Complete
<1>13. Followed
    <2>1. Due(<<>>, <<>>, <<>>, <<>>)
        BY FdsEmpty, <1>8 DEF Due
    <2>2. Early(<<>>, <<>>)
        <3>1. ASSUME NEW x \in Seq(Packet), NEW y \in Seq(Packet), <<>> = x \o y PROVE x = <<>>
            <4>1. Len(x \o y) = Len(x) + Len(y) /\ Len(x) \in Nat /\ Len(y) \in Nat
                BY ConcatProperties, LenProperties
            <4>2. Len(x) = 0
                <5>1. Len(x \o y) = 0
                    BY <3>1
                <5>2. QED
                    BY <4>1, <5>1
            <4>3. QED
                BY <4>2, EmptySeq
        <3>2. <<>> \o Atts(<<>>) = Fds(<<>>) \o <<>> /\ <<>> \in Seq(Fd)
            BY <1>3, <1>8, FdsEmpty
        <3>3. QED
            BY <3>1, <3>2 DEF Early
    <2>3. QED
        BY <1>3, <1>6, <2>1, <2>2, FdsEmpty DEF Followed, FdsFollow
<1>14. QED
    BY <1>4, <1>5, <1>10, <1>11, <1>12, <1>13 DEF IInv

(* The line's own part of the invariant is FlowsNext.                       *)
LEMMA IInvNext == ASSUME IInv, [Next]_vars PROVE IInv'
<1>1. Typed /\ Control /\ Flows /\ Placed
    BY DEF IInv, Control, Flows
<1>2. Typed' /\ Control' /\ Flows'
    BY <1>1, TypedNext, ControlNext, FlowsNext
<1>3. Prefixed' /\ Complete'
    BY <1>1, <1>2, PrefixedNext, CompleteNext DEF IInv, Flows
<1>4. QED
    BY <1>2, <1>3 DEF IInv, Control, Flows

-----------------------------------------------------------------------------
(* What server_to_client lets pass.                                         *)
Let == [m \in Message |-> IF Drop(m) THEN <<>> ELSE <<m>>]

LEMMA LetTyped == Let \in [Message -> Seq(Message)]
BY EmptySeq DEF Let

LEMMA PassingLets ==
    ASSUME NEW w \in Seq(Message)
    PROVE  Passing(w) = FlatMap(Let, w) /\ Passing(w) \in Seq(Message)
<1>1. \A k \in DOMAIN w : w[k] \in Message
    BY LenProperties, ElementOfSeq
<1>2. [k \in DOMAIN w |-> IF Drop(w[k]) THEN <<>> ELSE <<w[k]>>] = [k \in DOMAIN w |-> Let[w[k]]]
    BY <1>1 DEF Let
<1>3. Passing(w) = FlatMap(Let, w)
    BY <1>2, Zenon DEF Passing, FlatMap
<1>4. QED
    BY <1>3, LetTyped, FlatMapTyped

LEMMA PassIsLetThen ==
    ASSUME NEW K \in Looks, NEW w \in Seq(Message)
    PROVE  FlatMap(Pass(K), w) = FlatMap(K, Passing(w))
<1>1. K \in [Message -> Seq(Look)] /\ Pass(K) \in [Message -> Seq(Look)]
    BY LooksTyped, PassTyped
<1>2. ASSUME NEW m \in Message PROVE Pass(K)[m] = FlatMap(K, Let[m])
    <2>1. FlatMap(K, <<>>) = <<>> /\ FlatMap(K, <<m>>) = K[m]
        BY <1>1, FlatMapEmpty, FlatMapOne
    <2>2. QED
        BY <2>1 DEF Pass, Let
<1>3. FlatMap(K, FlatMap(Let, w)) = FlatMap(Pass(K), w)
    <2>1. Chains(Message, Message, Look)
        BY FlatMapTwice, Zenon
    <2>2. Chained(Message, Let, K, Pass(K))
        BY <1>2 DEF Chained
    <2>3. QED
        BY <1>1, <2>1, <2>2, LetTyped, Zenon DEF Chains
<1>4. QED
    BY <1>3, PassingLets

LEMMA KindsAre ==
    ASSUME NEW ms \in Seq(Message)
    PROVE  FlatMap(KindOf, ms) = Kinds(ms) /\ Len(Kinds(ms)) = Len(ms)
<1> DEFINE F == [m \in Message |-> m.kind]
<1>1. F \in [Message -> Kind] /\ KindOf \in [Message -> Seq(Kind)]
    BY DEF KindOf, Message
<1>2. \A m \in Message : KindOf[m] = <<F[m]>>
    BY DEF KindOf
<1>3. [k \in DOMAIN ms |-> F[ms[k]]] = Kinds(ms)
    <2>1. \A k \in DOMAIN ms : ms[k] \in Message
        BY LenProperties, ElementOfSeq
    <2>2. QED
        BY <2>1 DEF Kinds
<1> HIDE DEF F
<1>4. FlatMap(KindOf, ms) = [k \in DOMAIN ms |-> F[ms[k]]]
    <2>1. Maps(Message, Kind) /\ Wrapped(Message, F, KindOf)
        BY <1>2, FlatMapEach, Zenon DEF Wrapped
    <2>2. QED
        BY <1>1, <2>1, Zenon DEF Maps
<1>5. Len([k \in DOMAIN ms |-> F[ms[k]]]) = Len(ms)
    BY <1>1, MapTyped
<1>6. QED
    BY <1>3, <1>4, <1>5

LEMMA WholeIs ==
    ASSUME NEW ms \in Seq(Message)
    PROVE  FlatMap(Whole, ms) = ms
<1> DEFINE F == [m \in Message |-> m]
<1>1. F \in [Message -> Message] /\ Whole \in [Message -> Seq(Message)]
      /\ \A m \in Message : Whole[m] = <<F[m]>>
    BY DEF Whole
<1>2. [k \in DOMAIN ms |-> F[ms[k]]] = ms
    <2>1. \A k \in DOMAIN ms : ms[k] \in Message
        BY LenProperties, ElementOfSeq
    <2>2. ms = [k \in DOMAIN ms |-> ms[k]]
        BY LenProperties
    <2>3. QED
        BY <2>1, <2>2
<1> HIDE DEF F
<1>3. FlatMap(Whole, ms) = [k \in DOMAIN ms |-> F[ms[k]]]
    <2>1. Maps(Message, Message) /\ Wrapped(Message, F, Whole)
        BY <1>1, FlatMapEach, Zenon DEF Wrapped
    <2>2. QED
        BY <1>1, <2>1, Zenon DEF Maps
<1>4. QED
    BY <1>2, <1>3

LEMMA PrefixOf ==
    ASSUME NEW S, NEW a \in Seq(S), NEW r \in Seq(S), NEW b, a \o r = b
    PROVE  IsPrefix(a, b)
<1>1. Len(a) \in 0..Len(b) /\ SubSeq(b, 1, Len(a)) = a /\ SubSeq(a, 1, Len(a)) = a
    BY SplitAt, SubSeqFull
<1>2. QED
    BY <1>1 DEF IsPrefix

(***************************************************************************)
(* Each peer reads a prefix of what the other wrote, less the focus        *)
(* events; each message with its own descriptors when the server writes    *)
(* them one by one; and all of it if he reads to the end of a connection   *)
(* that was served.  For any capacity of the sockets and any peers.        *)
(***************************************************************************)
THEOREM AlwaysUntouched == Spec => []Untouched
<1>1. ASSUME IInv PROVE Untouched
    <2>1. SUFFICES ASSUME NEW s \in Sides
                   PROVE  /\ IsPrefix(Kinds(got[s]), Kinds(Meant(s)))
                          /\ plan.batches \/ IsPrefix(got[s], Meant(s))
                          /\ s \in heard /\ up.pc # "new" => Len(got[s]) = Len(Meant(s))
        BY DEF Untouched
    <2>2. PICK g \in Seq(Message), w \in Seq(Message) : g = got[s] /\ w = wrote[Across(s)]
        BY <1>1, LineParts DEF IInv
    <2>3. Meant(s) = Passing(w) /\ Passing(w) \in Seq(Message)
        BY <2>2, PassingLets DEF Meant
    <2>4. PICK v \in Seq(Message) : v = Meant(s) /\ v = Passing(w)
        BY <2>3
    <2>5. ASSUME NEW K \in Looks PROVE IsPrefix(FlatMap(K, g), FlatMap(K, v))
        <3>1. PICK r \in Seq(Look) : FlatMap(K, g) \o r = FlatMap(Pass(K), w)
            BY <1>1, <2>2 DEF IInv, Prefixed
        <3>2. FlatMap(Pass(K), w) = FlatMap(K, v)
            BY <2>4, PassIsLetThen
        <3>3. PICK G \in Seq(Look) : G = FlatMap(K, g)
            BY FlowTyped, EmptySeq
        <3>4. QED
            BY <3>1, <3>2, <3>3, PrefixOf
    <2>6. IsPrefix(Kinds(g), Kinds(v))
        BY <2>5, KindsAre DEF Looks
    <2>7. plan.batches \/ IsPrefix(g, v)
        BY <2>5, WholeIs DEF Looks
    <2>8. ASSUME s \in heard, up.pc # "new" PROVE Len(g) = Len(v)
        <3>1. FlatMap(KindOf, g) = FlatMap(Pass(KindOf), w)
            BY <1>1, <2>2, <2>8 DEF IInv, Complete
        <3>2. FlatMap(Pass(KindOf), w) = FlatMap(KindOf, v)
            BY <2>4, PassIsLetThen DEF Looks
        <3>3. QED
            BY <3>1, <3>2, KindsAre
    <2>9. QED
        BY <2>2, <2>4, <2>6, <2>7, <2>8
<1>2. QED
    BY <1>1, IInvInit, IInvNext, PTL DEF Spec
=============================================================================
