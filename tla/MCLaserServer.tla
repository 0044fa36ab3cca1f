---------------------------- MODULE MCLaserServer ----------------------------
(* Small instances of LaserServer for TLC. *)
EXTENDS LaserFeed
=============================================================================
