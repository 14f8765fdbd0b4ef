-------------------------- MODULE MCStorageListing --------------------------
(* A small instance of StorageListing for TLC. *)
EXTENDS StorageListing

\* four entries in the root; one is a folder of three, one of which is a folder again
Tree == {<<1>>, <<2, 1>>, <<2, 2, 1>>, <<2, 2, 2>>, <<2, 3>>, <<3>>, <<4>>}
=============================================================================
