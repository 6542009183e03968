------------------------------- MODULE PacketPipe -------------------------------
(***************************************************************************)
(* What the reading side of a USB device promises: the packets the device  *)
(* sends come out whole and in the order they were sent, however the bus   *)
(* cuts their bytes.  Nothing is promised any more from the first packet   *)
(* on that is not well formed: the reader may lose its place in the        *)
(* stream, and take anything for a packet.                                 *)
(***************************************************************************)
EXTENDS Naturals, Sequences

CONSTANTS
    Packet,         \* what can come out of the pipe
    WellFormed(_)   \* whether a packet of the device can be told from the next

VARIABLES sent, delivered

Init == sent = <<>> /\ delivered = <<>>

Send ==
    /\ \E p \in Packet : sent' = Append(sent, p)
    /\ UNCHANGED delivered

Deliver ==
    /\ Len(delivered) < Len(sent)
    /\ \A i \in 1 .. Len(delivered) + 1 : WellFormed(sent[i])
    /\ delivered' = Append(delivered, sent[Len(delivered) + 1])
    /\ UNCHANGED sent

Garble ==
    /\ \E i \in 1 .. Len(sent) : i <= Len(delivered) + 1 /\ ~WellFormed(sent[i])
    /\ \E p \in Packet : delivered' = Append(delivered, p)
    /\ UNCHANGED sent

Next == Send \/ Deliver \/ Garble
Spec == Init /\ [][Next]_<<sent, delivered>>
================================================================================
