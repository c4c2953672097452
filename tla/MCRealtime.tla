----------------------------- MODULE MCRealtime -----------------------------
(* Instances of Realtime for TLC. *)
EXTENDS Realtime, TLC

MCConnsSmall == 1 .. 2
MCConnsLive == 1 .. 4
\* Hosts are interchangeable in the safety properties.
MCSymmetry == Permutations(Hosts)
=============================================================================
