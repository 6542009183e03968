--------------------------- MODULE MCClientSession ---------------------------
(* ClientSession on small instances.                                        *)
EXTENDS ClientSession

\* Two pair records, one of which takes more room in its file.
CONSTANTS short, long
TwoSizes == [r \in {short, long} |-> IF r = long THEN 2 ELSE 1]
================================================================================
