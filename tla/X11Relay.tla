------------------------------ MODULE X11Relay ------------------------------
(***************************************************************************)
(* One connection through x11-focus-proxy: the thread serve, which runs    *)
(* server_to_client, and the thread client_to_server it starts, between an *)
(* X client and the X server.  Descriptors ride with the first byte of     *)
(* what they were written with.                                            *)
(***************************************************************************)
EXTENDS Naturals, Sequences, SequencesExt

CONSTANTS
    Capacity,    \* messages a socket's buffer holds
    Plans,       \* what the peers of a connection may do
    None

(* The requests and the events to come, the client's byte order, whether    *)
(* the server may write several messages at once, who may close his socket  *)
(* of his own accord, and whether the second thread may not be had.         *)
Plan == [client : Nat, server : Nat, order : {"LSB", "MSB"}, batches : BOOLEAN,
         hangs : SUBSET {"client", "server"}, scarce : BOOLEAN]

ASSUME X11Assumption ==
    /\ Capacity \in Nat \ {0}
    /\ Plans \subseteq Plan
    /\ None \notin {"LSB", "MSB"}

Sides == {"client", "server"}
Across(s) == IF s = "client" THEN "server" ELSE "client"

VARIABLES
    from,   \* from[s]: what peer s wrote and the relay did not read
    to,     \* to[s]: what the relay wrote and peer s did not read
    up,     \* client_to_server: where it is, its buf and its struct fds
    down,   \* server_to_client, and the byte order it reads lengths in
    big,    \* conn.big
    shut,   \* peers the relay will write nothing more to
    closed, \* serve has closed both sockets
    open,   \* peers that have not closed their socket
    heard,  \* peers that closed it at the end of what they could read
    held,   \* held[s]: descriptors s received and has not used
    wrote,  \* wrote[s]: what s has written
    got,    \* got[s]: what s has read, each with the descriptors it used
    plan

vars == <<from, to, up, down, big, shut, closed, open, heard, held, wrote, got, plan>>
peers == <<open, heard, held, wrote, got, plan>>

(* A message has a kind and the descriptors its sender means to go with it; *)
(* att are those attached to its first byte.                                *)
Kind == {"setup", "request", "accept", "event", "focus", "reply"}
WithFd == {"request", "reply"}
Msg(k, i) == [kind |-> k, fds |-> IF k \in WithFd THEN <<<<k, i>>>> ELSE <<>>]
Sent(m, att) == [msg |-> m, att |-> att]

Init ==
    /\ from = [s \in Sides |-> <<>>]
    /\ to = [s \in Sides |-> <<>>]
    /\ up = [pc |-> "new", buf |-> <<>>, fds |-> <<>>]
    /\ down = [pc |-> "new", buf |-> <<>>, fds |-> <<>>, order |-> None]
    /\ big = None
    /\ shut = {} /\ closed = FALSE
    /\ open = Sides /\ heard = {}
    /\ held = [s \in Sides |-> <<>>]
    /\ wrote = [s \in Sides |-> <<>>]
    /\ got = [s \in Sides |-> <<>>]
    /\ plan \in Plans

-----------------------------------------------------------------------------
(* The peers (external).                                                    *)

(* s writes the messages ms at once: the descriptors of all of them go with *)
(* the first byte.  Nobody reads what is written to a closed socket.        *)
AllFds(ms) == IF Len(ms) = 1 THEN ms[1].fds ELSE ms[1].fds \o ms[2].fds

Write(s, ms) ==
    /\ s \in open
    /\ plan[s] >= Len(ms)
    /\ plan' = [plan EXCEPT ![s] = @ - Len(ms)]
    /\ wrote' = [wrote EXCEPT ![s] = IF closed THEN @ ELSE @ \o ms]
    /\ from' = [from EXCEPT ![s] =
          IF closed THEN @
          ELSE @ \o [j \in DOMAIN ms |-> Sent(ms[j], IF j = 1 THEN AllFds(ms) ELSE <<>>)]]

(* A client sends its setup request, and others once it was accepted.       *)
ClientWrites ==
    /\ Len(from["client"]) < Capacity
    /\ \/ wrote["client"] = <<>> /\ Write("client", <<Msg("setup", 0)>>)
       \/ got["client"] # <<>> /\ Write("client", <<Msg("request", plan["client"])>>)
    /\ UNCHANGED <<to, up, down, big, shut, closed, open, heard, held, got>>

(* The server answers the setup request first.  What it writes waits with   *)
(* the server when the socket is full.                                      *)
ServerWrites ==
    /\ got["server"] # <<>>
    /\ \/ wrote["server"] = <<>> /\ Write("server", <<Msg("accept", 0)>>)
       \/ /\ wrote["server"] # <<>>
          /\ \E k, l \in {"event", "focus", "reply"} :
                \/ Write("server", <<Msg(k, plan["server"])>>)
                \/ /\ plan.batches
                   /\ Write("server", <<Msg(k, plan["server"]), Msg(l, plan["server"] - 1)>>)
    /\ UNCHANGED <<to, up, down, big, shut, closed, open, heard, held, got>>

(* A message takes the oldest descriptors its reader has.                   *)
Read(s) ==
    /\ s \in open
    /\ to[s] # <<>>
    /\ LET m == Head(to[s]).msg
           has == held[s] \o Head(to[s]).att
           n == IF Len(m.fds) <= Len(has) THEN Len(m.fds) ELSE Len(has)
       IN /\ got' = [got EXCEPT ![s] = Append(@, [m EXCEPT !.fds = SubSeq(has, 1, n)])]
          /\ held' = [held EXCEPT ![s] = SubSeq(has, n + 1, Len(has))]
    /\ to' = [to EXCEPT ![s] = Tail(@)]
    /\ UNCHANGED <<from, up, down, big, shut, closed, open, heard, wrote, plan>>

(* Xlib exits at the end of its input, and the server forgets the client.   *)
ReadEnd(s) ==
    /\ s \in open
    /\ to[s] = <<>> /\ (s \in shut \/ closed)
    /\ open' = open \ {s}
    /\ heard' = heard \cup {s}
    /\ UNCHANGED <<from, to, up, down, big, shut, closed, held, wrote, got, plan>>

HangUp(s) ==
    /\ s \in open \cap plan.hangs
    /\ open' = open \ {s}
    /\ to' = [to EXCEPT ![s] = <<>>]
    /\ UNCHANGED <<from, up, down, big, shut, closed, heard, held, wrote, got, plan>>

-----------------------------------------------------------------------------
(* serve                                                                    *)
Serve ==
    /\ up.pc = "new" /\ ~closed
    /\ \/ up' = [up EXCEPT !.pc = "read"] /\ down' = [down EXCEPT !.pc = "setup"]
          /\ UNCHANGED <<closed, from>>
       \/ plan.scarce /\ closed' = TRUE /\ from' = [s \in Sides |-> <<>>]
          /\ UNCHANGED <<up, down>>
    /\ UNCHANGED <<peers, to, big, shut>>

Join ==
    /\ up.pc = "ended" /\ down.pc = "ended" /\ ~closed
    /\ closed' = TRUE
    /\ from' = [s \in Sides |-> <<>>]
    /\ UNCHANGED <<peers, to, up, down, big, shut>>

(* send_all of the first message of ms with the descriptors fds: it blocks  *)
(* while the socket is full.                                                *)
SendAll(s, m, fds) ==
    /\ Len(to[s]) < Capacity
    /\ to' = [to EXCEPT ![s] = Append(@, Sent(m, fds))]

(* Mutant: the byte order is left for later.                                *)
UpReadUnstored ==
    /\ up.pc = "read"
    /\ \E k \in 1..Len(from["client"]) :
          /\ \A j \in 1..(k - 1) : from["client"][j].att = <<>>
          /\ up' = [pc  |-> "send",
                    buf |-> [j \in 1..k |-> from["client"][j].msg],
                    fds |-> from["client"][k].att]
          /\ from' = [from EXCEPT !["client"] = SubSeq(@, k + 1, Len(@))]
    /\ UNCHANGED <<peers, to, down, big, shut, closed>>

(* client_to_server: recvmsg returns what is there, but nothing that comes  *)
(* after descriptors.                                                       *)
UpRead ==
    /\ up.pc = "read"
    /\ \E k \in 1..Len(from["client"]) :
          /\ \A j \in 1..(k - 1) : from["client"][j].att = <<>>
          /\ up' = [pc  |-> IF big = None THEN "store" ELSE "send",
                    buf |-> [j \in 1..k |-> from["client"][j].msg],
                    fds |-> from["client"][k].att]
          /\ from' = [from EXCEPT !["client"] = SubSeq(@, k + 1, Len(@))]
    /\ UNCHANGED <<peers, to, down, big, shut, closed>>

(* The first byte tells the byte order.                                     *)
UpStore ==
    /\ up.pc = "store"
    /\ big' = plan.order
    /\ up' = [up EXCEPT !.pc = "send"]
    /\ UNCHANGED <<peers, from, to, down, shut, closed>>

UpSend ==
    /\ up.pc = "send" /\ "server" \in open
    /\ SendAll("server", Head(up.buf), up.fds)
    /\ up' = [pc  |-> IF Len(up.buf) = 1 THEN "read" ELSE "send",
              buf |-> Tail(up.buf), fds |-> <<>>]
    /\ UNCHANGED <<peers, from, down, big, shut, closed>>

(* Mutant: the thread ends without a word to the server.                    *)
UpEndSilent ==
    /\ \/ up.pc = "read" /\ from["client"] = <<>> /\ "client" \notin open
       \/ up.pc = "send" /\ "server" \notin open
    /\ up' = [up EXCEPT !.pc = "ended"]
    /\ UNCHANGED <<peers, from, to, down, big, shut, closed>>

(* recvmsg returns 0 or sendmsg fails: SHUT_WR.                             *)
UpEnd ==
    /\ \/ up.pc = "read" /\ from["client"] = <<>> /\ "client" \notin open
       \/ up.pc = "send" /\ "server" \notin open
    /\ up' = [up EXCEPT !.pc = "ended"]
    /\ shut' = shut \cup {"server"}
    /\ UNCHANGED <<peers, from, to, down, big, closed>>

(* server_to_client: the setup reply or one event, error or reply, however  *)
(* many reads read_full needs for it.                                       *)
DownRead ==
    /\ down.pc \in {"setup", "read"}
    /\ from["server"] # <<>>
    /\ LET h == Head(from["server"]) IN
       down' = [pc |-> "send", buf |-> <<h.msg>>, fds |-> down.fds \o h.att,
                order |-> IF down.pc = "setup" THEN big ELSE down.order]
    /\ from' = [from EXCEPT !["server"] = Tail(@)]
    /\ UNCHANGED <<peers, to, up, big, shut, closed>>

(* EV_FOCUS_OUT, EV_LEAVE_NOTIFY                                            *)
Drop(m) == m.kind = "focus"

(* Mutant: the descriptors are sent and not forgotten.                      *)
DownForwardStale ==
    /\ down.pc = "send"
    /\ LET m == Head(down.buf) IN
       \/ Drop(m) /\ UNCHANGED to
       \/ ~Drop(m) /\ "client" \in open /\ SendAll("client", m, down.fds)
    /\ down' = [down EXCEPT !.pc = "read", !.buf = <<>>]
    /\ UNCHANGED <<peers, from, up, big, shut, closed>>

(* forward: the message is sent, or dropped with its descriptors.           *)
DownForward ==
    /\ down.pc = "send"
    /\ LET m == Head(down.buf) IN
       \/ Drop(m) /\ UNCHANGED to
       \/ ~Drop(m) /\ "client" \in open /\ SendAll("client", m, down.fds)
    /\ down' = [down EXCEPT !.pc = "read", !.buf = <<>>, !.fds = <<>>]
    /\ UNCHANGED <<peers, from, up, big, shut, closed>>

(* A read or a write fails: SHUT_WR.                                        *)
DownEnd ==
    /\ \/ down.pc \in {"setup", "read"} /\ from["server"] = <<>> /\ "server" \notin open
       \/ down.pc = "send" /\ ~Drop(Head(down.buf)) /\ "client" \notin open
    /\ down' = [down EXCEPT !.pc = "ended"]
    /\ shut' = shut \cup {"client"}
    /\ UNCHANGED <<peers, from, to, up, big, closed>>

UpThread == UpRead \/ UpStore \/ UpSend \/ UpEnd
DownThread == DownRead \/ DownForward \/ DownEnd

Next ==
    \/ Serve \/ Join \/ UpThread \/ DownThread
    \/ ClientWrites \/ ServerWrites
    \/ \E s \in Sides : Read(s) \/ ReadEnd(s) \/ HangUp(s)

Spec == Init /\ [][Next]_vars

(* Both threads run, and both peers read and take an end for an end.        *)
FairSpec ==
    /\ Spec
    /\ WF_vars(Serve) /\ WF_vars(Join) /\ WF_vars(UpThread) /\ WF_vars(DownThread)
    /\ \A s \in Sides : WF_vars(Read(s)) /\ WF_vars(ReadEnd(s))

-----------------------------------------------------------------------------
TypeOK ==
    /\ up.pc \in {"new", "read", "store", "send", "ended"}
    /\ down.pc \in {"new", "setup", "read", "send", "ended"}
    /\ big \in {None, "LSB", "MSB"}
    /\ shut \subseteq Sides /\ open \subseteq Sides /\ heard \subseteq Sides \ open
    /\ closed \in BOOLEAN
    /\ \A s \in Sides : Len(to[s]) <= Capacity

(* The lengths in what the server sends are read in the client's byte       *)
(* order, which the other thread learns: server_to_client reads conn.big    *)
(* once, with the setup reply, and it is there by then.                     *)
Framed == down.pc \in {"send", "read"} => down.order = plan.order

(* What is to arrive at s of what the other peer has written.               *)
Passing(ms) == FlattenSeq([k \in DOMAIN ms |-> IF Drop(ms[k]) THEN <<>> ELSE <<ms[k]>>])
Meant(s) == Passing(wrote[Across(s)])
Kinds(ms) == [j \in DOMAIN ms |-> ms[j].kind]

(* "forwarding client bytes untouched and dropping core FocusOut and        *)
(* LeaveNotify events from the server": what arrives is what was sent, in   *)
(* order, each message with its own descriptors, and all of it before the   *)
(* end of the stream.  Of descriptors this holds while the server does not  *)
(* write an event and a later reply at once: they go with the event's first *)
(* byte, and forward closes them when it drops it.                          *)
Untouched ==
    \A s \in Sides :
        /\ IsPrefix(Kinds(got[s]), Kinds(Meant(s)))
        /\ plan.batches \/ IsPrefix(got[s], Meant(s))
        /\ s \in heard /\ up.pc # "new" => Len(got[s]) = Len(Meant(s))

(* Whoever goes first, in whatever state the threads are, both end and the  *)
(* sockets are closed (shutdown with SHUT_WR, pthread_join).                *)
Reaped == \A s \in Sides : (s \notin open) ~> closed
=============================================================================
