----------------------------- MODULE MCFindExe -----------------------------
(* Every PATH of up to PathLen characters over a colon, a slash and a      *)
(* letter.                                                                 *)
EXTENDS FindExe

MCChar == {":", "/", "a"}
MCFile == <<"a">>
=============================================================================
