---------------------------- MODULE ValueChannel ----------------------------
(***************************************************************************)
(* What a pair of to_writer and from_reader promises, with no stream in    *)
(* between: the caller hands over the parts of a value in order; they come *)
(* out in that order and unchanged; the value is accepted if and only if   *)
(* the writer finished it and every part has come out.                     *)
(***************************************************************************)
EXTENDS Naturals, Sequences

VARIABLES
  sent,      (* the parts handed over                                      *)
  status,    (* "open", "complete" or "broken"                             *)
  received,  (* the parts that came out                                    *)
  verdict    (* "none", "accepted" or "refused"                            *)
vars == <<sent, status, received, verdict>>

Init == /\ sent = <<>> /\ status = "open"
        /\ received = <<>> /\ verdict = "none"

Send == /\ status = "open"
        /\ Len(sent') = Len(sent) + 1
        /\ SubSeq(sent', 1, Len(sent)) = sent
        /\ UNCHANGED <<status, received, verdict>>

Close == /\ status = "open" /\ status' \in {"complete", "broken"}
         /\ UNCHANGED <<sent, received, verdict>>

Receive == /\ status # "open" /\ verdict = "none"
           /\ Len(received) < Len(sent)
           /\ received' = Append(received, sent[Len(received) + 1])
           /\ UNCHANGED <<sent, status, verdict>>

Accept == /\ status = "complete" /\ verdict = "none" /\ received = sent
          /\ verdict' = "accepted"
          /\ UNCHANGED <<sent, status, received>>

Refuse == /\ status = "broken" /\ verdict = "none"
          /\ verdict' = "refused"
          /\ UNCHANGED <<sent, status, received>>

Next == Send \/ Close \/ Receive \/ Accept \/ Refuse

(* What may happen, and what has to in the end.                            *)
Safe == Init /\ [][Next]_vars
Fair == WF_vars(Receive \/ Accept \/ Refuse)
Spec == Safe /\ Fair
=============================================================================
