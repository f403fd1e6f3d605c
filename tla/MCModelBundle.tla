---------------------------- MODULE MCModelBundle ----------------------------
(* Instances of ModelBundle for TLC. *)
EXTENDS ModelBundle, TLC

\* The trainings differ only in their names.
TrainSymmetry == Permutations(Train)
===============================================================================
