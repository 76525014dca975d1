------------------------------ MODULE MCLockFile ------------------------------
(* Instances of LockFile for TLC.                                              *)
EXTENDS LockFile, TLC

CONSTANTS p1, p2, p3, i1, i2, i3, i4, i5, i6

TwoProcs == {p1, p2}
ThreeProcs == {p1, p2, p3}
FourInodes == {i1, i2, i3, i4}
SixInodes == {i1, i2, i3, i4, i5, i6}
Interchangeable == Permutations(ThreeProcs) \cup Permutations(SixInodes)
===============================================================================
