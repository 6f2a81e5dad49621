------------------------------ MODULE ConfigIndex ------------------------------
(***************************************************************************)
(* What the store of alert configurations promises its readers: the watch  *)
(* rows of a user are an index over the stored configuration.  A save      *)
(* replaces both at once, a refresh of the index copies the configuration  *)
(* that is stored now, and nothing else writes either.                     *)
(***************************************************************************)
CONSTANTS User, Readable(_), IndexOf(_)

VARIABLES stored, index

indexVars == <<stored, index>>

(* A configuration is only ever stored together with its own index. *)
StoreBoth(u, c) ==
  /\ Readable(c)
  /\ stored' = [stored EXCEPT ![u] = c]
  /\ index' = [index EXCEPT ![u] = IndexOf(c)]

(* Readable configurations are indexed again, the others keep old rows. *)
RefreshIndex ==
  /\ stored' = stored
  /\ index' = [u \in User |-> IF Readable(stored[u]) THEN IndexOf(stored[u]) ELSE index[u]]

IndexNext == RefreshIndex \/ \E u \in User : \E c \in {stored'[u]} : StoreBoth(u, c)

IndexSpec == [][IndexNext]_indexVars
================================================================================
