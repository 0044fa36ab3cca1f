---------------------------- MODULE MCProcControl ----------------------------
(* Small instances of ProcControl for TLC. *)
EXTENDS ProcSupervision

CONSTANTS p1, p2

OnePid == {p1}
TwoPids == {p1, p2}
FirstWatched == {1}
NoneWatched == {}
JustFirst == {{1}}
OneOrAll == {{1}, {1, 2}}
=============================================================================
