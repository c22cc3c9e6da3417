----------------------------- MODULE WlProtocol -----------------------------
(***************************************************************************)
(* The Wayland messages the focus proxy tells apart, and what its tables   *)
(* (the output of wayland-scanner, KNOWN_INTERFACES and FD_FREE_GLOBALS)   *)
(* say of them.  One interface stands for each way of treating one.        *)
(***************************************************************************)
EXTENDS Naturals, Sequences, SequencesExt

CONSTANTS
    ClientId,  \* ids the client allocates
    ServerId,  \* ids the compositor allocates (from 0xff000000)
    None

(* KNOWN_INTERFACES: the registry's own objects, what a client gets from a  *)
(* seat and a shell, and a data device with the offers the compositor makes.*)
Known == {"display", "registry", "seat", "keyboard", "pointer",
          "shell", "toplevel", "data", "device", "offer"}

(* FD_FREE_GLOBALS: the tablet manager, whose tools the compositor makes.   *)
FdFree == {"tablets"}

(* What else a compositor may have: wp_drm_lease_device_v1 sends fds, and   *)
(* a tool is made by an object of FdFree.                                   *)
Interface == Known \cup FdFree \cup {"tool", "lease"}

(* global_is_relayable                                                      *)
Relayable(i) == i \in Known \cup FdFree

(* The new_id arguments: what a request of the client, or an event of the   *)
(* compositor, makes.                                                       *)
RequestMakes(i) ==
    CASE i = "registry" -> {"seat", "shell", "data", "tablets", "lease"}
      [] i = "seat"     -> {"keyboard", "pointer"}
      [] i = "shell"    -> {"toplevel"}
      [] i = "data"     -> {"device"}
      [] OTHER          -> {}

EventMakes(i) ==
    CASE i = "device"  -> {"offer"}
      [] i = "tablets" -> {"tool"}
      [] OTHER         -> {}

(* The other messages, and those whose signature has an 'h'.                *)
Requests(i) ==
    CASE i = "offer" -> {"destroy", "receive"}
      [] i = "tool"  -> {"destroy", "set_cursor"}
      [] i \in Interface \ {"display", "registry", "offer", "tool"} -> {"destroy"}
      [] OTHER       -> {}

Events(i) ==
    CASE i = "keyboard" -> {"keymap", "enter", "leave"}
      [] i = "pointer"  -> {"enter", "leave"}
      [] i = "toplevel" -> {"configure"}
      [] i = "lease"    -> {"drm_fd"}
      [] OTHER          -> {}

WithFd == {"keymap", "receive", "drm_fd"}

(* A message: the object it is for, what it says, the id and the interface  *)
(* it makes, frees or announces, whether a configure says ACTIVATED.  What  *)
(* is not on the wire but meant by the sender: the interface its object     *)
(* has, and the file descriptors it attached.                               *)
Plain(o, i, op) ==
    [obj |-> o, op |-> op, id |-> None, type |-> None, active |-> FALSE,
     iface |-> i, fds |-> <<>>]
Making(o, i, new, t) == [Plain(o, i, "make") EXCEPT !.id = new, !.type = t]
Global(t) == [Plain("registry", "registry", "global") EXCEPT !.type = t]
DeleteId(x) == [Plain("display", "display", "delete_id") EXCEPT !.id = x]
Carrying(m, fd) == IF m.op \in WithFd THEN [m EXCEPT !.fds = <<fd>>] ELSE m

(* A message of an interface the tables have, read by them; isEvent as      *)
(* pump's events.                                                           *)
Listed(i, m, isEvent) ==
    /\ i \in Known
    /\ IF isEvent
       THEN \/ m.op \in Events(i)
            \/ m.op = "make" /\ m.type \in EventMakes(i)
            \/ i = "display" /\ m.op = "delete_id"
            \/ i = "registry" /\ m.op = "global"
       ELSE \/ m.op \in Requests(i)
            \/ m.op = "make" /\ m.type \in RequestMakes(i)

-----------------------------------------------------------------------------
(* The three lies of the proxy and the globals it withholds, for a message  *)
(* whose object has interface i.                                            *)
Dropped(i, m) ==
    \/ i \in {"pointer", "keyboard"} /\ m.op = "leave"
    \/ i = "registry" /\ m.op = "global" /\ ~Relayable(m.type)

(* force_activated                                                          *)
Spoofed(i, m) ==
    IF i = "toplevel" /\ m.op = "configure" THEN [m EXCEPT !.active = TRUE] ELSE m

(* A run of events as the client is to see it.                              *)
Filtered(ms) ==
    FlattenSeq([k \in DOMAIN ms |-> IF Dropped(ms[k].iface, ms[k]) THEN <<>>
                                    ELSE <<Spoofed(ms[k].iface, ms[k])>>])
=============================================================================
