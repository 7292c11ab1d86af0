---------------------------- MODULE MCTelemetry ----------------------------
(***************************************************************************)
(* Instances of Telemetry for TLC.                                         *)
(***************************************************************************)
EXTENDS Telemetry

CONSTANTS m1, m2

MainOnly == {main}

(* A post that fits in a slot of 4 bytes, and one that is cut. *)
PostAndLongPost == {[msg |-> m1, len |-> 2, text |-> 2],
                    [msg |-> m2, len |-> 6, text |-> 6]}

LongPost == {[msg |-> m2, len |-> 6, text |-> 6]}

KindOf == [m \in {m1, m2} |-> "commit"]
=============================================================================
