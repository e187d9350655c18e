------------------------------ MODULE MCLoadFw ------------------------------
(* LoadFw with segments on both sides of the banks' bounds, and one behind *)
(* the tightly coupled memories.                                           *)
EXTENDS LoadFw

Seg(d, s) == [da |-> d, size |-> s]

MCRpuSegments == {Seg(0, 1), Seg(1, 1), Seg(1, 2), Seg(2, 2), Seg(3, 2), Seg(4, 4), Seg(5, 1),
                  Seg(7, 1), Seg(8, 1), Seg(9, 1)}

MCApuSegments == {Seg(8, 2), Seg(Ocm + 1, 2), Seg(Ocm + 6, 2)}
=============================================================================
