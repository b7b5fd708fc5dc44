----------------------------- MODULE MCSshKeys -----------------------------
(***************************************************************************)
(* Files and listings for model checking SshKeys: a file may not be there, *)
(* hold a key, hold it twice, without the line's end or behind a comment   *)
(* sign, or end in a key that an earlier import was cut in.                *)
(***************************************************************************)
EXTENDS SshKeys, TLC

MCInitial == {<<>>, <<1, 0>>, <<1>>, <<1, 0, 1, 0>>, <<Other, 1, 0>>, <<2, 0, Cut(1)>>}

MCListings == {<<>>, <<1>>, <<1, 2>>, <<3, 1>>, <<2, 3, 1>>}
=============================================================================
