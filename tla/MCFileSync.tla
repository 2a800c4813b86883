----------------------------- MODULE MCFileSync -----------------------------
(* FileSync for TLC: a large file of two chunks, a small one and a link; the *)
(* last two also as a directory, and a directory of four files, as many as   *)
(* it takes to fill a stream of capacity 1 with lstats and their answers.    *)
EXTENDS FileSync

MCFiles == {"large", "small", "link", "file"}
MCChunks == [f \in MCFiles |-> IF f = "large" THEN 2 ELSE 1]
MCKind == [f \in MCFiles |-> IF f = "file" THEN "small" ELSE f]
MCDirs == {"dir", "many"}
MCDirFiles == [d \in MCDirs |-> IF d = "dir" THEN <<"small", "link">> ELSE <<"small", "link", "large", "file">>]
MCSources == {<<"large", "dir">>, <<"dir">>, <<"many">>}
MCLargeOnly == {<<"large">>}
MCOutdated == {"large"}
=============================================================================
