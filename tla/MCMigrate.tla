------------------------------- MODULE MCMigrate ------------------------------
(* Two releases: the newer one adds a file behind the older one's files and *)
(* one between them.                                                        *)
EXTENDS Migrate

CONSTANTS old, new

Binaries == {old, new}

Releases == [m \in Binaries |-> IF m = old THEN {1, 3} ELSE {1, 2, 3, 4}]
===============================================================================
