------------------------------ MODULE MCRelay ------------------------------
(***************************************************************************)
(* Values for the run of WlRelay: a connection with input devices, one     *)
(* with a data device, one with toplevels and a global the tables lack,    *)
(* that either peer may close at any time, and one whose client waits for  *)
(* room to write while the compositor, or the client itself, goes.         *)
(***************************************************************************)
EXTENDS WlRelay

Traffic(globals) == [client |-> 4, upstream |-> 3, hangs |-> {},
                     globals |-> globals, polls |-> TRUE]

Hangups == [client |-> 3, upstream |-> 3, hangs |-> Sides,
            globals |-> {"shell", "lease"}, polls |-> FALSE]

Waiting == [client |-> 2, upstream |-> 4, hangs |-> Sides,
            globals |-> {"shell"}, polls |-> TRUE]

Connections == {Traffic({"seat"}), Traffic({"data"}), Hangups, Waiting}
=============================================================================
