---------------------------- MODULE MCAdmission ----------------------------
(* Finite instances of Admission; requests, names, clicks and browsers are  *)
(* interchangeable.                                                         *)
EXTENDS Admission, TLC

Symmetry == Permutations(Visitor) \cup Permutations(Browser)
            \cup Permutations(Click) \cup Permutations(Names)

=============================================================================
