------------------------------- MODULE MCBl1Fwu -------------------------------
(***************************************************************************)
(* Instances of Bl1Fwu with images of bl1_tbbr_image_descs: the non-secure *)
(* updater NS_BL1U, the two secure executable images BL2U and BL2, and the *)
(* non-secure NS_BL2U.  In MCapart the secure images lie next to each      *)
(* other, in MCshared BL2 starts inside BL2U (a platform may let them      *)
(* share memory: Arm's gives both the same base).                          *)
(***************************************************************************)
EXTENDS Bl1Fwu

CONSTANTS NS_BL1U, BL2U, BL2, NS_BL2U

MCImage == {NS_BL1U, BL2U, BL2, NS_BL2U}
MCsecure == {BL2U, BL2}
MCapart == [i \in MCImage |-> IF i = BL2 THEN 2 ELSE 0]
MCshared == [i \in MCImage |-> IF i = BL2 THEN 1 ELSE 0]
MCLayout == {MCapart, MCshared}
MCmax == [i \in MCImage |-> 2]
=============================================================================
