------------------------ MODULE MCDatabaseWorkerPool ------------------------
(* Instance of DatabaseWorkerPool for TLC.                                    *)
EXTENDS DatabaseWorkerPool

CONSTANTS w1, w2, o1, o2, o3
=============================================================================
