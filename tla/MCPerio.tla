------------------------------- MODULE MCPerio -------------------------------
(* Two URRs of two sessions, two periods.                                  *)
EXTENDS Perio

CONSTANTS k1, k2, s1, s2

MCKeys   == {k1, k2}
MCSeids  == {s1, s2}
MCSeidOf == [k \in MCKeys |-> IF k = k1 THEN s1 ELSE s2]
=============================================================================
