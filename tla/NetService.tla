---------------------------- MODULE NetService -----------------------------
(***************************************************************************)
(* What the network device promises, without rings, threads, locks and     *)
(* interrupts: packets move in order and at most once, from the host to    *)
(* the guest and from the guest to the host.  A packet is lost when it is  *)
(* too big for a receive buffer, when its header lies in a descriptor of   *)
(* its own, when the host refuses it, or when the device is reset while it *)
(* is inside.                                                              *)
(***************************************************************************)
EXTENDS Sequences

CONSTANTS
  Packet, Frame,   \* what the host and the guest send
  MayRefuse        \* whether the host refuses packets

VARIABLES
  tap_in,      \* sent by the host, not read by the device
  delivered,   \* handed to the guest, not consumed
  pending,     \* sent by the guest, not transmitted
  tap_out      \* transmitted

nvars == <<tap_in, delivered, pending, tap_out>>

Init ==
  /\ tap_in = <<>> /\ delivered = <<>> /\ pending = <<>> /\ tap_out = <<>>

HostSend(p) ==
  /\ tap_in' = Append(tap_in, p)
  /\ UNCHANGED <<delivered, pending, tap_out>>

Deliver ==
  /\ tap_in # <<>> /\ ~Head(tap_in).big
  /\ tap_in' = Tail(tap_in)
  /\ delivered' = Append(delivered, Head(tap_in))
  /\ UNCHANGED <<pending, tap_out>>

Discard ==
  /\ tap_in # <<>> /\ Head(tap_in).big
  /\ tap_in' = Tail(tap_in)
  /\ UNCHANGED <<delivered, pending, tap_out>>

Consume ==
  /\ delivered # <<>>
  /\ delivered' = Tail(delivered)
  /\ UNCHANGED <<tap_in, pending, tap_out>>

GuestSend(f) ==
  /\ pending' = Append(pending, f)
  /\ UNCHANGED <<tap_in, delivered, tap_out>>

\* The host takes the packet or refuses it; one whose header lies apart is
\* dropped.
Transmit ==
  /\ pending # <<>>
  /\ pending' = Tail(pending)
  /\ \/ ~Head(pending).split /\ tap_out' = Append(tap_out, Head(pending))
     \/ (MayRefuse \/ Head(pending).split) /\ UNCHANGED tap_out
  /\ UNCHANGED <<tap_in, delivered>>

Reset ==
  /\ delivered' = <<>> /\ pending' = <<>>
  /\ UNCHANGED <<tap_in, tap_out>>

Next ==
  \/ \E p \in Packet : HostSend(p)
  \/ \E f \in Frame : GuestSend(f)
  \/ Deliver \/ Discard \/ Consume \/ Transmit \/ Reset

Spec == Init /\ [][Next]_nvars
=============================================================================
