------------------------------ MODULE MCAuth ------------------------------
(* Auth with a few interchangeable requests and backup codes.              *)
EXTENDS Auth, TLC

CONSTANTS r1, r2, c1, c2

TwoRequests == {r1, r2}
TwoCodes == {c1, c2}
OneCode == {c1}
Symmetry == Permutations(Requests) \cup Permutations(Codes)
=============================================================================
