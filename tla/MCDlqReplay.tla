---------------------------- MODULE MCDlqReplay -----------------------------
(***************************************************************************)
(* DlqReplay for TLC: enough entries for the file to be rotated until a    *)
(* generation is dropped, a killed writer and two runs of the script.      *)
(***************************************************************************)
EXTENDS DlqReplay

WriterSymmetry == Permutations(Writers) \cup Permutations(Scripts)
=============================================================================
