--------------------------- MODULE MCDriverTables ---------------------------
EXTENDS DriverTables, TLC

All ==
  {postgres, postgresElsewhere, pgx, pgxElsewhere, mysql, sqlserver, oracle, cockroachdb,
   redshift, snowflake, spanner, sqlite3, sqlite, sqlcipher, ql, firebird, clickhouse,
   cassandra, mongodb}

OnlyFirebird == {firebird}

\* One table refers to another.
OneReference == {<<"orders", "users">>}

\* The processes are interchangeable.
Symmetry == Permutations(Procs)
=============================================================================
