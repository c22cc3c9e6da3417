------------------------------- MODULE MCX11 -------------------------------
(***************************************************************************)
(* Connections for the run of X11Relay: one whose server writes each       *)
(* message by itself and one whose server writes two at once, with either  *)
(* peer gone at any time or the second thread not to be had.               *)
(***************************************************************************)
EXTENDS X11Relay

Connection(batches, scarce) ==
    [client |-> 3, server |-> 4, order |-> "MSB", batches |-> batches,
     hangs |-> Sides, scarce |-> scarce]

Connections == {Connection(TRUE, FALSE), Connection(FALSE, TRUE)}
=============================================================================
