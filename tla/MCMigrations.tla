---- MODULE MCMigrations ----
\* Two releases: one replica ships versions 0 and 1, the other 0, 1 and 2;
\* version 1 is marked no-transaction.
EXTENDS Migrations, TLC

CONSTANTS r1, r2

MCFiles == (r1 :> {0, 1}) @@ (r2 :> {0, 1, 2})
====
