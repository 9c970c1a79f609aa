------------------------- MODULE MCOperatorControl -------------------------
(* Finite instance of OperatorControl.                                      *)
EXTENDS OperatorControl, TLC

OpSymmetry == Permutations(Op)

\* A request that is being served goes on; row locks are granted in turn.
Fairness ==
  \A o \in Op : /\ WF_vars(OpStep(o))
                /\ SF_vars(WriteActive(o))
                /\ SF_vars(WriteLater(o))

FairSpec == Spec /\ Fairness

=============================================================================
