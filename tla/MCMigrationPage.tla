-------------------------- MODULE MCMigrationPage --------------------------
(* Instances of MigrationPage: two clusters, two requests, an infrastructure *)
(* wizard and a script wizard.                                               *)
EXTENDS MigrationPage

MCInputs == {"filled"}
MCClusters == {"c1", "c2"}
=============================================================================
