------------------------------ MODULE MCHotplug ------------------------------
(* Hotplug on small instances.                                              *)
EXTENDS Hotplug, TLC

\* The announcements are interchangeable.
Symmetry == Permutations(Adders)
================================================================================
