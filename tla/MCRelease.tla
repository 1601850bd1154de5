----------------------------- MODULE MCRelease -----------------------------
(* Release with one maintainer, another clone, and four commits, for TLC. *)
EXTENDS Release

MCCommits == 1..4
MCDates == {<<1, 1, 2, 2>>}
=============================================================================
