--------------------------- MODULE MCObjectStore ---------------------------
(***************************************************************************)
(* Five keys: one outside of the repository, the object named like its     *)
(* root prefix, two of the sidecar's server and one of another server.     *)
(***************************************************************************)
EXTENDS ObjectStore

MCProviders == {"s3", "azure", "gcs"}
MCRoot      == 2..5
MCMarker    == {2}
MCScope     == 3..4
=============================================================================
