------------------------------ MODULE MCMigrate ------------------------------
(* A small instance of Migrate: two runs at a time, four in all.           *)
EXTENDS Migrate

CONSTANTS r1, r2

==============================================================================
