---------------------------- MODULE FocusChannel ----------------------------
(***************************************************************************)
(* What wl-focus-proxy promises: a client and a compositor joined by two   *)
(* FIFO queues, as if they had connected directly, except that events pass *)
(* through the focus filter.  What a peer sent before it hung up arrives.  *)
(***************************************************************************)
EXTENDS WlProtocol

VARIABLES up, down, open

ChannelInit ==
    /\ up = <<>>
    /\ down = <<>>
    /\ open = {"client", "upstream"}

(* One message is added at the end and nothing else changes.                *)
Grows(q) == \E m \in {q'[Len(q')]} : q' = Append(q, m)

Request ==
    /\ "client" \in open
    /\ up' # <<>> /\ Grows(up)
    /\ UNCHANGED <<down, open>>

Event ==
    /\ "upstream" \in open
    /\ down' # <<>> /\ Grows(down)
    /\ Filtered(<<down'[Len(down')]>>) = <<down'[Len(down')]>>
    /\ UNCHANGED <<up, open>>

(* The compositor takes a request; destroying an object it answers at once. *)
Serve ==
    /\ up # <<>>
    /\ up' = Tail(up)
    /\ \/ UNCHANGED down
       \/ down' # <<>> /\ Grows(down) /\ down'[Len(down')].op = "delete_id"
    /\ UNCHANGED open

Deliver ==
    /\ down # <<>>
    /\ down' = Tail(down)
    /\ UNCHANGED <<up, open>>

HangUp(s) ==
    /\ s \in open
    /\ open' = open \ {s}
    /\ IF s = "client" THEN down' = <<>> /\ UNCHANGED up
                       ELSE up' = <<>> /\ UNCHANGED down

ChannelNext == Request \/ Event \/ Serve \/ Deliver \/ \E s \in open : HangUp(s)

ChannelSpec == ChannelInit /\ [][ChannelNext]_<<up, down, open>>
=============================================================================
