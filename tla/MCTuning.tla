------------------------------ MODULE MCTuning ------------------------------
(***************************************************************************)
(* The instance of Tuning that TLC checks: a setting with a metric, under    *)
(* which the value one use case wants is the better and the other's the      *)
(* worse, one without, and one that no unattended loop may write.            *)
(***************************************************************************)
EXTENDS Tuning

MCTarget == [u1 |-> <<"high", "high", "high">>, u2 |-> <<"low", None, None>>]
MCRisk == <<1, 2, 3>>
MCQuality == [low |-> 0, high |-> 1]
=============================================================================
