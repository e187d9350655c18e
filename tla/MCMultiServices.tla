-------------------------- MODULE MCMultiServices --------------------------
(* Instances of MultiServices for TLC.                                     *)
EXTENDS MultiServices

(* Together they use every endpoint; the last two write to one address.   *)
ThreeGroups == {{"cs", "raw0", "rawA"}, {"tty0", "dev1", "dev2"}, {"tty0", "rawA", "rawB"}}
=============================================================================
