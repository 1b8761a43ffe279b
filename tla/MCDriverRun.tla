---------------------------- MODULE MCDriverRun ----------------------------
EXTENDS DriverRun

\* Every driver, with and without its options.
Kinds ==
  {postgres, postgresMulti, pgx, pgxMulti, mysql, sqlserver, redshift, snowflake, cockroachdb,
   firebird, spanner, spannerClean, clickhouse, clickhouseMulti, cassandra, cassandraMulti,
   sqlite3, sqlite3NoTx, sqlite, sqlcipher, ql, mongodb, mongodbTx, neo4j, neo4jMulti, oracle,
   oracleMulti}

\* Every body of at most five tokens.
ShortBodies == UNION {[1..n -> Token] : n \in 0..5}
=============================================================================
