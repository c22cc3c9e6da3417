------------------------------ MODULE WlRelay ------------------------------
(***************************************************************************)
(* One connection through wl-focus-proxy: the process that accept forks    *)
(* (run_relay, leg_read, pump), between a client and a compositor that     *)
(* follow the Wayland protocol.  File descriptors travel beside the bytes  *)
(* and may arrive before the message they belong to.                       *)
(***************************************************************************)
EXTENDS WlProtocol

CONSTANTS
    Capacity,    \* messages a socket's buffer holds
    Plans        \* what the peers of a connection may do

(* The messages each peer sends of its own accord, the globals the          *)
(* compositor has, whether the client waits for room to write before it     *)
(* reads on, and the peers that may close their socket.                     *)
Plan == [client : Nat, upstream : Nat, hangs : SUBSET {"client", "upstream"},
         globals : SUBSET {"seat", "shell", "data", "tablets", "lease"},
         polls : BOOLEAN]

ASSUME RelayAssumption ==
    /\ Capacity \in Nat \ {0}
    /\ Plans \subseteq Plan
    /\ ClientId \cap ServerId = {}
    /\ {"display", "registry"} \cap (ClientId \cup ServerId) = {}
    /\ None \notin ClientId \cup ServerId \cup Interface \cup {"zombie", "client", "upstream"}

Sides == {"client", "upstream"}
Across(s) == IF s = "client" THEN "upstream" ELSE "client"
Ids == ClientId \cup ServerId \cup {"display", "registry"}

VARIABLES
    mine,     \* the client's objects: their interface, or "zombie" until delete_id
    theirs,   \* the compositor's objects
    offered,  \* globals the client knows of
    from,     \* from[s]: what peer s wrote and the relay did not read
    to,       \* to[s]: what the relay wrote and peer s did not read
    leg,      \* struct leg: in and fdq
    ids,      \* client_ids and upstream_ids
    todo,     \* legs poll found readable and not yet read
    busy,     \* the leg whose in pump is working through
    open,     \* peers that have not closed their socket
    done,     \* run_relay has returned
    waiting,  \* the client waits for room to write
    plan      \* what is left of the plan

vars == <<mine, theirs, offered, from, to, leg, ids, todo, busy, open, done, waiting, plan>>
peers == <<mine, theirs, offered, waiting, plan>>
inner == <<leg, ids, todo, busy, done>>

Nothing == [msgs |-> <<>>, fds |-> <<>>]
Put(q, m) == [msgs |-> Append(q.msgs, m), fds |-> q.fds \o m.fds]

(* get_registry has been answered: what every client begins with.           *)
Begun == [i \in Ids |-> IF i \in {"display", "registry"} THEN i ELSE None]

Init ==
    /\ mine = Begun
    /\ theirs = Begun
    /\ offered = {}
    /\ from = [s \in Sides |-> Nothing]
    /\ to = [s \in Sides |-> Nothing]
    /\ leg = [s \in Sides |-> Nothing]
    /\ ids = [s \in Sides |-> Begun]
    /\ todo = <<>>
    /\ busy = None
    /\ open = Sides
    /\ done = FALSE
    /\ waiting = FALSE
    /\ plan \in Plans

-----------------------------------------------------------------------------
(* The client and the compositor (external).                                *)

Room(q) == Len(q.msgs) < Capacity

(* s writes m, to no purpose once run_relay has closed the sockets.         *)
Send(s, m) ==
    /\ s \in open
    /\ plan[s] > 0
    /\ plan' = [plan EXCEPT ![s] = @ - 1]
    /\ from' = [from EXCEPT ![s] = IF done THEN @ ELSE Put(@, Carrying(m, <<s, plan[s]>>))]

ClientMakes(o, x, t) ==
    /\ t \in RequestMakes(mine[o])
    /\ mine[o] = "registry" => t \in offered
    /\ mine[x] = None
    /\ ~waiting /\ Room(from["client"])
    /\ Send("client", Making(o, mine[o], x, t))
    /\ mine' = [mine EXCEPT ![x] = t]
    /\ UNCHANGED <<theirs, offered, to, inner, open, waiting>>

(* A client id stays taken until delete_id; a compositor's id is free.      *)
ClientAsks(o, op) ==
    /\ op \in Requests(mine[o])
    /\ ~waiting /\ Room(from["client"])
    /\ Send("client", Plain(o, mine[o], op))
    /\ mine' = IF op # "destroy" THEN mine
               ELSE [mine EXCEPT ![o] = IF o \in ClientId THEN "zombie" ELSE None]
    /\ UNCHANGED <<theirs, offered, to, inner, open, waiting>>

(* A client in wl_display_dispatch that cannot write polls for POLLOUT only.*)
ClientWaits ==
    /\ plan.polls
    /\ "client" \in open
    /\ ~waiting /\ ~Room(from["client"])
    /\ waiting' = TRUE
    /\ UNCHANGED <<mine, theirs, offered, plan, from, to, inner, open>>

ClientResumes ==
    /\ waiting
    /\ Room(from["client"]) \/ done
    /\ waiting' = FALSE
    /\ UNCHANGED <<mine, theirs, offered, plan, from, to, inner, open>>

Receive(s) ==
    /\ s \in open
    /\ to[s].msgs # <<>>
    /\ LET m == Head(to[s].msgs)
           n == IF Len(m.fds) <= Len(to[s].fds) THEN Len(m.fds) ELSE Len(to[s].fds)
       IN to' = [to EXCEPT ![s] = [msgs |-> Tail(@.msgs),
                                   fds  |-> SubSeq(@.fds, n + 1, Len(@.fds))]]

ClientReceives ==
    /\ ~waiting
    /\ Receive("client")
    /\ LET m == Head(to["client"].msgs) IN
       /\ mine' = CASE m.op = "make" -> [mine EXCEPT ![m.id] = m.type]
                    [] m.op = "delete_id" -> [mine EXCEPT ![m.id] = None]
                    [] OTHER -> mine
       /\ offered' = IF m.op = "global" THEN offered \cup {m.type} ELSE offered
    /\ UNCHANGED <<theirs, from, inner, open, waiting, plan>>

(* libwayland's server answers the destruction of a client's id at once and *)
(* never waits for room.                                                    *)
CompositorReceives ==
    /\ Receive("upstream")
    /\ LET m == Head(to["upstream"].msgs) IN
       /\ theirs' = CASE m.op = "make" -> [theirs EXCEPT ![m.id] = m.type]
                      [] m.op = "destroy" -> [theirs EXCEPT ![m.obj] = None]
                      [] OTHER -> theirs
       /\ from' = IF m.op = "destroy" /\ m.obj \in ClientId /\ ~done
                  THEN [from EXCEPT !["upstream"] = Put(@, DeleteId(m.obj))]
                  ELSE from
    /\ UNCHANGED <<mine, offered, inner, open, waiting, plan>>

Announces(g) ==
    /\ Send("upstream", Global(g))
    /\ UNCHANGED <<mine, theirs, offered, to, inner, open, waiting>>

CompositorTells(o, op, on) ==
    /\ op \in Events(theirs[o])
    /\ on => op = "configure"
    /\ Send("upstream", [Plain(o, theirs[o], op) EXCEPT !.active = on])
    /\ UNCHANGED <<mine, theirs, offered, to, inner, open, waiting>>

(* A freed id of the compositor's range may be used again.                  *)
CompositorMakes(o, x, t) ==
    /\ t \in EventMakes(theirs[o])
    /\ theirs[x] = None
    /\ Send("upstream", Making(o, theirs[o], x, t))
    /\ theirs' = [theirs EXCEPT ![x] = t]
    /\ UNCHANGED <<mine, offered, to, inner, open, waiting>>

(* A peer closes its socket, or dies: what was on its way to it is lost.    *)
HangUp(s) ==
    /\ s \in open \cap plan.hangs
    /\ open' = open \ {s}
    /\ to' = [to EXCEPT ![s] = Nothing]
    /\ UNCHANGED <<peers, from, inner>>

-----------------------------------------------------------------------------
(* The relay.                                                               *)

Readable(s) == from[s] # Nothing \/ s \notin open

Turn(s) == IF Readable(s) THEN <<s>> ELSE <<>>

(* poll on both sockets; a round reads the client's first.                  *)
Poll ==
    /\ ~done /\ busy = None /\ todo = <<>>
    /\ \E s \in Sides : Readable(s)
    /\ todo' = Turn("client") \o Turn("upstream")
    /\ UNCHANGED <<peers, from, to, leg, ids, busy, open, done>>

FdsOf(ms) == FlattenSeq([k \in DOMAIN ms |-> ms[k].fds])

(* leg_read: some bytes, whole messages or part of one, and the descriptors *)
(* sent with them or ahead of what they belong to, never after it.          *)
LegRead ==
    /\ ~done /\ busy = None /\ todo # <<>>
    /\ LET s == Head(todo)
           q == from[s]
       IN /\ q # Nothing
          /\ \E j \in 0..Len(q.msgs), n \in 0..Len(q.fds) :
                /\ j + n > 0
                /\ Len(q.fds) - n <= Len(FdsOf(SubSeq(q.msgs, j + 1, Len(q.msgs))))
                /\ from' = [from EXCEPT ![s] = [msgs |-> SubSeq(q.msgs, j + 1, Len(q.msgs)),
                                                fds  |-> SubSeq(q.fds, n + 1, Len(q.fds))]]
                /\ leg' = [leg EXCEPT ![s] = [msgs |-> @.msgs \o SubSeq(q.msgs, 1, j),
                                              fds  |-> @.fds \o SubSeq(q.fds, 1, n)]]
          /\ busy' = s
    /\ todo' = Tail(todo)
    /\ UNCHANGED <<peers, to, ids, open, done>>

(* Mutant: recvmsg's 0 is skipped as poll's EINTR is.                       *)
EndOfFileAgain ==
    /\ ~done /\ busy = None /\ todo # <<>>
    /\ from[Head(todo)] = Nothing
    /\ todo' = Tail(todo)
    /\ UNCHANGED <<peers, from, to, leg, ids, busy, open, done>>

(* recvmsg returns 0, or ECONNRESET, once everything before it was read:    *)
(* run_relay closes both sockets and the process exits.                     *)
EndOfFile ==
    /\ ~done /\ busy = None /\ todo # <<>>
    /\ from[Head(todo)] = Nothing
    /\ done' = TRUE
    /\ from' = [s \in Sides |-> Nothing]
    /\ UNCHANGED <<peers, to, leg, ids, todo, busy, open>>

(* What direction d's map is after pump read message m of leg s: the new_id *)
(* it makes (wl_registry.bind by name, find_interface_by_name) is set, the  *)
(* one delete_id frees is gone, in both maps.                               *)
(* Mutant: ids go when their destructor passes.                            *)
LearnedDestructors(s, d, i, m) ==
    IF ~Listed(i, m, s = "upstream") THEN ids[d]
    ELSE CASE m.op = "make"      -> [ids[d] EXCEPT ![m.id] = IF m.type \in Known THEN m.type ELSE None]
           [] m.op = "delete_id" -> [ids[d] EXCEPT ![m.id] = None]
           [] m.op = "destroy"   -> [ids[d] EXCEPT ![m.obj] = None]
           [] OTHER              -> ids[d]

Learned(s, d, i, m) ==
    IF ~Listed(i, m, s = "upstream") THEN ids[d]
    ELSE CASE m.op = "make"      -> [ids[d] EXCEPT ![m.id] = IF m.type \in Known THEN m.type ELSE None]
           [] m.op = "delete_id" -> [ids[d] EXCEPT ![m.id] = None]
           [] OTHER              -> ids[d]

(* Mutant: the descriptors of events are not counted.                       *)
FdCountRequests(i, m, isEvent) ==
    IF Listed(i, m, isEvent) /\ ~isEvent /\ m.op \in WithFd THEN 1 ELSE 0

(* How many descriptors pump takes for a message: what the tables say, none *)
(* for a message it forwards blind.                                         *)
FdCount(i, m, isEvent) == IF Listed(i, m, isEvent) /\ m.op \in WithFd THEN 1 ELSE 0

(* Mutants: a socket that does not block, and one without end.              *)
ForwardOrLose(s, m, fds, n) ==
    IF s \notin open \/ Len(fds) < n \/ ~Room(to[s])
    THEN UNCHANGED to
    ELSE to' = [to EXCEPT ![s] = [msgs |-> Append(@.msgs, m), fds |-> @.fds \o fds]]
ForwardUnbounded(s, m, fds, n) ==
    IF s \notin open \/ Len(fds) < n
    THEN UNCHANGED to
    ELSE to' = [to EXCEPT ![s] = [msgs |-> Append(@.msgs, m), fds |-> @.fds \o fds]]

(* send_message: blocks while the socket is full; sendmsg fails, and nobody *)
(* looks, when the peer is gone or a descriptor is missing.                 *)
Forward(s, m, fds, n) ==
    IF s \notin open \/ Len(fds) < n
    THEN UNCHANGED to
    ELSE /\ Room(to[s])
         /\ to' = [to EXCEPT ![s] = [msgs |-> Append(@.msgs, m), fds |-> @.fds \o fds]]

(* One round of pump's loop.                                                *)
Pump(s) ==
    /\ busy = s
    /\ leg[s].msgs # <<>>
    /\ LET m == Head(leg[s].msgs)
           i == ids[s][m.obj]
           isEvent == s = "upstream"
           n == FdCount(i, m, isEvent)
           taken == SubSeq(leg[s].fds, 1, IF n <= Len(leg[s].fds) THEN n ELSE 0)
       IN /\ ids' = [d \in Sides |-> Learned(s, d, i, m)]
          /\ IF isEvent /\ Listed(i, m, isEvent) /\ Dropped(i, m)
             THEN UNCHANGED to
             ELSE Forward(Across(s), IF isEvent /\ Listed(i, m, isEvent) THEN Spoofed(i, m) ELSE m,
                          taken, n)
          /\ leg' = [leg EXCEPT ![s] = [msgs |-> Tail(@.msgs),
                                        fds  |-> SubSeq(@.fds, Len(taken) + 1, Len(@.fds))]]
    /\ UNCHANGED <<peers, from, todo, busy, open, done>>

(* Mutant: pump waits for more bytes at the end of a message too.           *)
PumpedEarly(s) ==
    /\ busy = s
    /\ Len(leg[s].msgs) <= 1
    /\ busy' = None
    /\ UNCHANGED <<peers, from, to, leg, ids, todo, open, done>>

(* No whole message is left: pump returns to run_relay's loop.              *)
Pumped(s) ==
    /\ busy = s
    /\ leg[s].msgs = <<>>
    /\ busy' = None
    /\ UNCHANGED <<peers, from, to, leg, ids, todo, open, done>>

Relay == Poll \/ LegRead \/ EndOfFile \/ \E s \in Sides : Pump(s) \/ Pumped(s)

ClientSends ==
    \E o \in Ids :
        \/ \E x \in ClientId, t \in Interface : ClientMakes(o, x, t)
        \/ \E op \in {"destroy", "receive", "set_cursor"} : ClientAsks(o, op)

CompositorSends ==
    \/ \E g \in plan.globals : Announces(g)
    \/ \E o \in Ids :
        \/ \E op \in {"keymap", "enter", "leave", "configure", "drm_fd"}, on \in BOOLEAN :
              CompositorTells(o, op, on)
        \/ \E x \in ServerId, t \in Interface : CompositorMakes(o, x, t)

Next ==
    \/ Relay
    \/ ClientSends \/ ClientWaits \/ ClientResumes \/ ClientReceives
    \/ CompositorSends \/ CompositorReceives
    \/ \E s \in Sides : HangUp(s)

Spec == Init /\ [][Next]_vars

(* The relay runs, and both peers' event loops read what arrives.           *)
FairSpec ==
    /\ Spec
    /\ WF_vars(Relay)
    /\ WF_vars(ClientReceives) /\ WF_vars(ClientResumes)
    /\ WF_vars(CompositorReceives)

-----------------------------------------------------------------------------
Held(s) == [msgs |-> leg[s].msgs \o from[s].msgs, fds |-> leg[s].fds \o from[s].fds]

TypeOK ==
    /\ \A i \in Ids : mine[i] \in Interface \cup {None, "zombie"}
    /\ \A i \in Ids : theirs[i] \in Interface \cup {None}
    /\ \A s \in Sides : \A i \in Ids : ids[s][i] \in Known \cup {None}
    /\ offered \subseteq Interface
    /\ busy \in Sides \cup {None}
    /\ open \subseteq Sides
    /\ done \in BOOLEAN /\ waiting \in BOOLEAN
    /\ \A s \in Sides : plan[s] \in Nat /\ Len(to[s].msgs) <= Capacity

(* The map names the interface the sender of the next message meant: reuse  *)
(* of ids and events on their way to a destroyed object included            *)
(* (id_map_set, id_map_del).  For an object the tables lack it names none,  *)
(* or what the compositor last gave this id to: destructors do not end an   *)
(* entry, for wayland-scanner marks none with the '~' pump looks for.       *)
Identified ==
    \A s \in Sides : ~done /\ Held(s).msgs # <<>> =>
        LET m == Head(Held(s).msgs)
            i == ids[s][m.obj]
        IN  IF m.iface \in Known THEN i = m.iface
            ELSE i = None \/ (m.obj \in ServerId /\ i = "offer")

(* Every message has its own descriptors, neither lost nor another's, and   *)
(* none is left behind: those waiting with a leg are those of its messages  *)
(* (fdq_pop), and so are those written to a peer (send_message).            *)
FdsFollow ==
    \A s \in Sides :
        /\ ~done => Held(s).fds = FdsOf(Held(s).msgs)
        /\ to[s].fds = FdsOf(to[s].msgs)

(* The relay is a channel with a focus filter.                              *)
Channel == INSTANCE FocusChannel WITH
    up   <- IF "upstream" \in open THEN to["upstream"].msgs \o Held("client").msgs ELSE <<>>,
    down <- IF "client" \in open THEN to["client"].msgs \o Filtered(Held("upstream").msgs) ELSE <<>>

(* What a peer sends arrives whole, in order and unmodified but for the     *)
(* three special cases and the withheld globals, and a peer that hangs up   *)
(* still gets its last words through (pump, run_relay).                     *)
ChannelSpec == Channel!ChannelSpec

(* pump sends the client an event, on a socket that is full, and the client *)
(* waits for room of its own that only the relay could make.                *)
Stuck ==
    /\ busy = "upstream" /\ leg["upstream"].msgs # <<>>
    /\ "client" \in open /\ ~Room(to["client"])
    /\ waiting /\ ~Room(from["client"])

(* What a peer has sent does not stay in the relay, whatever the other peer *)
(* does: the one thing that keeps it there is a client that is waiting for  *)
(* room to write while send_message is waiting for it to read.              *)
Relayed == \A s \in Sides : Held(s).msgs # <<>> ~> (Held(s).msgs = <<>> \/ done \/ Stuck)

(* The process of a connection ends after either peer is gone, unless it    *)
(* and a client wait for each other: blocked in send_message it never polls *)
(* the socket that the compositor closed.                                   *)
Reaped == \A s \in Sides : (s \notin open) ~> (done \/ Stuck)
=============================================================================
