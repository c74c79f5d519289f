---------------------------- MODULE MCTableIdeal ----------------------------
(***************************************************************************)
(* The instance under the circumstances the theorems assume.               *)
(***************************************************************************)
EXTENDS MCReplacementTable

IdealTld == {com, org, inv, loc}
IdealLowerTld == [t \in IdealTld |-> t]
IdealSuffix == [t \in {com, org} |-> IF t = com THEN inv ELSE loc]

ASSUME InstanceIsIdeal == Ideal
=============================================================================
