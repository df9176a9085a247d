--------------------------- MODULE MCDependencies ---------------------------
(* Instances of Dependencies for TLC. *)
EXTENDS Dependencies

(* A diamond: 2 and 3 wait for 1, 4 for both. *)
Diamond == [i \in Subs |-> CASE i = 1 -> {} [] i = 4 -> {2, 3} [] OTHER -> {1}]

(* 3 runs although 1 failed. *)
ThirdIgnores == [i \in Subs |-> IF i = 3 THEN "ignore" ELSE "cancel"]

(* 1 and 2 are independent; 3 depends on 1. *)
LastOnFirst == [i \in Subs |-> IF i = 3 THEN {1} ELSE {}]

(* Only 4 depends on another. *)
FourthOnSecond == [i \in Subs |-> IF i = 4 THEN {2} ELSE {}]

(* Each depends on the one before. *)
Chain == [i \in Subs |-> {i - 1} \ {0}]

AllCancel == [i \in Subs |-> "cancel"]

=============================================================================
