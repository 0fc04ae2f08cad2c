-------------------------- MODULE MCDatabaseSetup ---------------------------
EXTENDS DatabaseSetup

TwoTables == <<"querycache", "user_newtalk">>
OneTable == <<"querycache">>

=============================================================================
