------------------------------- MODULE MCMining -------------------------------
(* A wallet of one account, which has no time to generate at on some blocks.  *)
EXTENDS Mining

MCAccount == {"a"}
MCBlock == {"x", "y"}
MCHasTime == [x |-> {"a"}, y |-> {}]
MCNoTimes == [b \in MCBlock |-> {}]
=============================================================================
