--------------------------- MODULE MCRunLifecycle ---------------------------
(***************************************************************************)
(* Small workflows for TLC: two stages, the second with what the first     *)
(* does not have.                                                          *)
(***************************************************************************)
EXTENDS RunLifecycle, TLC

OneLimited == <<1, NoLimit>>
OneTry == <<1, 1>>
ThreeStages == <<1, NoLimit, NoLimit>>
ThreeTries == <<2, 1, 1>>
OneStage == <<NoLimit>>
OneTryOnly == <<1>>

ExecutorSymmetry == Permutations(Executors)
=============================================================================
