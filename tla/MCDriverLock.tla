---------------------------- MODULE MCDriverLock ----------------------------
EXTENDS DriverLock, TLC

Flags ==
  {mysqlNoLock, cassandra, clickhouse, firebird, neo4j, ql, redshift,
   snowflake, spanner, sqlcipher, sqlite, sqlite3}

Sessions == {postgres, pgx, mysql, sqlserver}

Tables == {cockroachdb, cockroachdbForce, mongodb}

\* Every driver but Oracle's, which does not look at the answer to its request.
Heeding == Sessions \cup Tables \cup Flags

\* The processes are interchangeable.
Symmetry == Permutations(Procs)
=============================================================================
