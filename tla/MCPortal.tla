------------------------------ MODULE MCPortal ------------------------------
(* A portal session with one peer, started twice with two configurations.  *)
EXTENDS PortalSession, TLC

CONSTANTS one, two

\* In the last run nothing reads or writes the token file once Open has returned,
\* so states that differ in it alone are the same.
TokenView ==
  IF runs = MaxRuns /\ service \in SessionSteps \cup {"ended"}
    THEN <<syncVars, serviceVars>> ELSE vars

ConfigSymmetry == Permutations({one, two})
=============================================================================
