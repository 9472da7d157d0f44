-------------------------- MODULE MCDatabaseRuntime --------------------------
(* Two threads at work on two databases.                                    *)
EXTENDS DatabaseRuntime

CONSTANTS d1, d2, t1, t2

=============================================================================
