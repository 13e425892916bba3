---------------------------- MODULE MCMigrations ----------------------------
(* The files of the run of Migrations. *)
EXTENDS Migrations

\* 001_init.sql has the columns of 002 and 003; the indexes of 004 and, but for its
\* column, what 005 does come with those files.
MCInFirst == {1, 2, 3}

=============================================================================
