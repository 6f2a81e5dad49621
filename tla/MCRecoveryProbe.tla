---------------------------- MODULE MCRecoveryProbe ----------------------------
(* Instance of RecoveryProbe for model checking: the worker is started     *)
(* twice, the API once.                                                    *)
EXTENDS RecoveryProbe

MCMaxLife == [worker |-> 2, api |-> 1]
================================================================================
