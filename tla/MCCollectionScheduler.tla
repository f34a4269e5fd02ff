------------------------ MODULE MCCollectionScheduler ------------------------
(* Small instances of CollectionScheduler for TLC. *)
EXTENDS CollectionScheduler

CONSTANTS d1, d2, d3, d4

MCPlugins == {<<d1>>, <<d2, d3>>, <<d4>>}

=============================================================================
