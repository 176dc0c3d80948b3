---------------------------- MODULE MCMapUpdater ----------------------------
(* Instance of MapUpdater for TLC: one world map and one dungeon that has two *)
(* instances, so that nested requests and DestroyInstance overlap with other  *)
(* updates.                                                                   *)
EXTENDS MapUpdater, TLC

CONSTANTS w1, w2, world, dungeon, i1, i2

MCParent == i1 :> dungeon @@ i2 :> dungeon
=============================================================================
