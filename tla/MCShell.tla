------------------------------ MODULE MCShell -------------------------------
(***************************************************************************)
(* Shell with two printable characters, lines of two and stored names of   *)
(* one: two files of the same name, one whose name is cut, an empty one.   *)
(***************************************************************************)
EXTENDS Shell

MCLs == <<"l", "l">>
MCExit == <<"e", "e">>
MCBootFiles == << <<<<"l">>, 1>>, <<<<"e", "l">>, 2>>, <<<<"l">>, 3>>, <<<<"e">>, 0>> >>

=============================================================================
