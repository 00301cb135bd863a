----------------------------- MODULE MCFileCache -----------------------------
EXTENDS FileCache
MCTables == {<<"a">>, <<"b", "a">>}
=============================================================================
