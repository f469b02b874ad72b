--------------------------- MODULE MCEnrollment ---------------------------
(* Instances of the RIB daemon with its enrollment processes for TLC. *)
EXTENDS Enrollment

OneProc    == {"p1"}
TwoProcs   == {"p1", "p2"}
OnePort    == {1}
ThreePorts == {1, 2, 3}

(* One peer sends any message, the others connect and are released. *)
AnyMessage ==
    [op : {"M_CONNECT", "M_CONNECT_R", "M_START", "M_START_OPS", "M_RELEASE_R",
           "OTHER"}, port : {1}, id : {7}]
      \cup [op : {"M_CONNECT"}, port : Ports, id : {7}]
      \cup [op : {"M_RELEASE"}, port : Ports, id : {0, 7}]
      \cup [op : {"M_STOP_R", "M_START_R"}, port : {1}, id : {0, 2}]

(* Only what enrollments need: M_STOP_R carries the id of the first or of the *)
(* second M_STOP, or none.                                                   *)
EnrollMessages ==
    [op : {"M_CONNECT", "M_START"}, port : Ports, id : {7}]
      \cup [op : {"M_STOP_R"}, port : {1}, id : {0, 2, 3}]
=============================================================================
