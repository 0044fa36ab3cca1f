--------------------------- MODULE MCCnpPremission ---------------------------
(* Small instances of CnpPremission for TLC. *)
EXTENDS CnpPremission

TwoRobots == {1, 2}

\* One kind of each manner of looking at constraints, and a name that is not known.
Names == {"TrackTask", "ObserveTask", "MADTask"}
Others == {"RowTask"}
Asked == {"ENVIRONMENT"}
HeededByKind == [name \in Names |-> IF name = "TrackTask" THEN Asked ELSE {}]
BarredByKind == [name \in Names |-> IF name = "ObserveTask" THEN Asked ELSE {}]
=============================================================================
