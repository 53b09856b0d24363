-------------------------- MODULE MCWaylandPlugin ---------------------------
(***************************************************************************)
(* Values for TLC.  The parts of the plugin are called in behaviours of    *)
(* their own, with two windows only where one object moves between them.   *)
(***************************************************************************)
EXTENDS WaylandPlugin

About(a, n, gs) == [about |-> a, windows |-> {1}, calls |-> n, globals |-> gs]

MCTopics ==
  {About("import", 3, {"importer"}),
   About("effects", 4, {"background", "blur"}), About("effects", 4, {"contrast", "slide"}),
   About("shadow", 5, {"shadow", "shm"}),
   [About("shadow", 3, {"shadow", "shm"}) EXCEPT !.windows = {1, 2}],
   About("export", 4, {"exporter"}), About("tags", 3, {"tags"}),
   About("activation", 5, {"activation"}), About("desktop", 3, {"plasma"})}
=============================================================================
