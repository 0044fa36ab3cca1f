---------------------------- MODULE MCParamServer ----------------------------
(* Small instances of ParamServer for TLC. *)
EXTENDS ParamFeed

CONSTANTS c1, p1, p2, laser, panel, plain

\* One number and one text.  The module gives the first, laser, to two variables, as
\* simulator does for its two lasers; it names the second, panel, by other words than
\* the daemon's, plain, as navigator_panel does, and may come to use those too.
TwoParams == {p1, p2}
ThreeNames == {laser, panel, plain}
JoinedNames == [n \in ThreeNames |-> IF n = laser THEN p1 ELSE p2]
SplitNames == [p \in TwoParams |-> IF p = p1 THEN laser ELSE plain]
TwoValues == {"one", "two"}
NumberAndText == [n \in ThreeNames |-> IF n = laser THEN {"one"} ELSE TwoValues]
LaserPanelLaser ==
  [c \in Clients |-> <<[param |-> laser, subscribe |-> TRUE],
                       [param |-> panel, subscribe |-> FALSE],
                       [param |-> laser, subscribe |-> TRUE]>>]
=============================================================================
