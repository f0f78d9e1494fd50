------------------------ MODULE MCReviewPublication ------------------------
(* ReviewPublication for TLC. *)
EXTENDS ReviewPublication

Queued == {j \in Jobs : job[j] # "absent"}

\* One job that may lose its lock while the head moves, or two jobs that do not;
\* without comments, a webhook's and the dashboard's.
Scene ==
  /\ Cardinality(Queued) <= 2
  /\ Cardinality(Queued) = 2 \/ ~comments => lost = {} /\ ~moved
  /\ ~comments => Queued \cap Commands = {}

SceneSpec == Init /\ [][Next /\ Scene']_vars /\ Fairness
=============================================================================
