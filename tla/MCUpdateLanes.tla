---------------------------- MODULE MCUpdateLanes ----------------------------
(* Instances of UpdateLanes for TLC. *)
EXTENDS UpdateLanes, TLC

CONSTANTS h1, h2

\* A type the reader does not know amid a lane and alone in one, a source in two
\* lanes, empty lanes.
TwoConfigs ==
  (h1 :> [Fast |-> <<>>, Pace |-> <<>>, Slow |-> <<"ProcAcct", "Unknown", "ProcInfo">>])
  @@ (h2 :> [Fast |-> <<"ProcInfo">>, Pace |-> <<"ProcInfo">>, Slow |-> <<"Unknown">>])

Reliable == {TRUE}
=============================================================================
