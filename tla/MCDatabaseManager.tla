---- MODULE MCDatabaseManager ----
\* Two clients that make three calls together, up to two replicas and two
\* attempts.
EXTENDS DatabaseManager, TLC

Clients == Permutations(Client)
====
