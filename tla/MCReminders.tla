------------------------------ MODULE MCReminders ------------------------------
(* Instances of Reminders for TLC.                                          *)
EXTENDS Reminders, TLC

Symmetric == Permutations(Reminders) \cup Permutations(Workers)
=============================================================================
