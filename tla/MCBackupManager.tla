-------------------------- MODULE MCBackupManager --------------------------
(* Values of BackupManager's constants for TLC. *)
EXTENDS BackupManager, TLC

CONSTANTS o1, o2, b1, b2, b3, b4

\* Every place has addresses of its own.
OwnAddresses == [b \in Blocks |-> [o \in Objects |-> <<b, o>>]]

\* b1 and b3 are the same memory, with the two objects allocated in the other order.
SwappedAddresses ==
  [b \in Blocks |-> [o \in Objects |->
     IF b = b2 THEN <<b2, o>>
     ELSE IF b = b1 THEN <<b1, o>> ELSE <<b1, CHOOSE p \in Objects : p # o>>]]

NoTimeline == {}
OnOff == {FALSE, TRUE}
Sizes == {0, 1, 2}

NoSizes == {}

Symmetry == Permutations(Objects) \cup Permutations(Blocks)
=============================================================================
