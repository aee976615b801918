--------------------------- MODULE MCPostgresClient ---------------------------
(* Instances of PostgresClient for TLC.                                    *)
EXTENDS PostgresClientProperties
=============================================================================
