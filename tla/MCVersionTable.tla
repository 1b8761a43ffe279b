--------------------------- MODULE MCVersionTable ---------------------------
EXTENDS VersionTable

All ==
  {postgres, pgx, mysql, sqlserver, redshift, snowflake, cockroachdb, sqlite3, sqlite, sqlcipher,
   ql, spanner, firebird, mongodb, cassandra, oracle, clickhouse, neo4j}
=============================================================================
