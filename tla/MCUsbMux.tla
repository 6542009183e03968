------------------------------- MODULE MCUsbMux -------------------------------
(* UsbMux on small instances.                                               *)
EXTENDS UsbMux, TLC

\* Every port in one shard, the case in which the router's locks collide most.
OneShard == [p \in Ports |-> 1]

\* The connections are interchangeable.
Symmetry == Permutations(Conns)
================================================================================
