-------------------------- MODULE MCSecurityEngine --------------------------
(* Instances of SecurityEngine for TLC. *)
EXTENDS SecurityEngine, TLC

\* Every kind of row from one address, and rows without any sign from the others.
MCRequests ==
  LET one == CHOOSE a \in Addresses : TRUE
  IN  [addr : {one}, login : BOOLEAN, missing : {{}} \cup {{p} : p \in Paths}]
        \cup [addr : Addresses \ {one}, login : {FALSE}, missing : {{}}]

\* Paths are interchangeable.
MCSymmetry == Permutations(Paths)
=============================================================================
