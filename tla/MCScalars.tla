------------------------------ MODULE MCScalars ------------------------------
(* One scalar on its own: an RTID or its text (RtidChannel, with MCRtid's  *)
(* constants) or an integer (IntChannel, which has none).  The two systems *)
(* share nothing; a behaviour is one of the one or one of the other.       *)
EXTENDS MCRtid, IntChannel

NoRtid    == /\ format = "standard" /\ stage = "none" /\ parses = 0
             /\ origin = {} /\ rtid = {} /\ text = <<>>
NoInteger == /\ int_stage = "none" /\ pass = 1 /\ forced = FALSE
             /\ int = [ty |-> "u8", neg |-> FALSE, bits |-> 0] /\ seen = int
             /\ token = NoToken /\ firsttoken = NoToken

ScalarInit == \/ Init /\ NoInteger
              \/ NoRtid /\ IntInit
ScalarNext == \/ Next /\ UNCHANGED ivars
              \/ IntNext /\ UNCHANGED vars
ScalarSpec == ScalarInit /\ [][ScalarNext]_<<vars, ivars>>
=============================================================================
