--------------------------- MODULE MCTrainMatrix ---------------------------
(* Three names, three sessions, windows of one session.  With three names   *)
(* a tie of all, of the best two and of the worst two can happen; halves    *)
(* rounded up overlap and have to shrink.                                   *)
EXTENDS TrainMatrix

Cut(policy, quantile, pilot) ==
    [policy |-> policy, top |-> quantile, bottom |-> quantile, pilot |-> pilot]

MCConfig == {Cut("floor", <<1, 3>>, {}),
             Cut("ceil", <<1, 2>>, {}),
             Cut("nearest", <<1, 2>>, {1, 3})}
=============================================================================
