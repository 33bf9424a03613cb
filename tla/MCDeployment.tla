---------------------------- MODULE MCDeployment ----------------------------
(* Values of Deployment for TLC. *)
EXTENDS Deployment

MCDataDirs == {DefaultPath, DataDir, <<"srv">>}
=============================================================================
