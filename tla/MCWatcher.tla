----------------------------- MODULE MCWatcher -----------------------------
(* Instances of Watcher for TLC: two directories that may be renamed into  *)
(* each other, a subdirectory and a file in it.                            *)
EXTENDS Watcher

MCDirs == {<<"d">>, <<"d", "s">>, <<"e">>, <<"e", "s">>}
MCFiles == {<<"d", "s", "f">>, <<"e", "s", "f">>}
MCStart == {<<"d">>}
============================================================================
