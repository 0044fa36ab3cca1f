------------------------------- MODULE MCDrive -------------------------------
(* Small instances of Drive for TLC. *)
EXTENDS Drive

Go(tv, rv) == [name |-> "velocity", tv |-> tv, rv |-> rv]
VectorMove(distance) == [name |-> "vector", distance |-> distance]

DriveCommands == {Go(1, 0), Go(0, 0), VectorMove(1)}
BlockedOrClear == {0, 1}
RearBlockedOrClear == {-1, 0}
=============================================================================
