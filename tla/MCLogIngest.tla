---------------------------- MODULE MCLogIngest ----------------------------
(* LogIngest on a log of a few lines, a clock of a few days, and at most a *)
(* handful of stops and rotations.                                         *)
EXTENDS LogIngest

MCKinds == {"access", "other"}
MCAllKinds == {"access", "untimed", "other", "broken"}
=============================================================================
