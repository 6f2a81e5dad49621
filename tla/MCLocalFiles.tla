------------------------------ MODULE MCLocalFiles ------------------------------
(* Instance of LocalFiles for model checking: every thread is a process of *)
(* its own, as the dashboard and the local worker are.                     *)
EXTENDS LocalFiles

OwnProcess(t) == t
================================================================================
