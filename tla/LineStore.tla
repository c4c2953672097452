----------------------------- MODULE LineStore -----------------------------
(***************************************************************************)
(* What the requests table promises about the lines of one log: a line is  *)
(* absent until it is stored, is stored once, and when the retention has   *)
(* deleted it, it never comes back.  A purge deletes any number of rows.   *)
(***************************************************************************)
CONSTANT Lines

VARIABLE life   \* of each line: "absent", "stored" or "purged"

Init == life = [l \in Lines |-> "absent"]

Store(l) ==
  /\ life[l] = "absent"
  /\ life' = [life EXCEPT ![l] = "stored"]

Purge(S) ==
  /\ \A l \in S : life[l] = "stored"
  /\ life' = [l \in Lines |-> IF l \in S THEN "purged" ELSE life[l]]

Next == (\E l \in Lines : Store(l)) \/ (\E S \in SUBSET Lines : Purge(S))

Spec == Init /\ [][Next]_life
=============================================================================
