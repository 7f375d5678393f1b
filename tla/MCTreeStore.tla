---------------------------- MODULE MCTreeStore ----------------------------
(***************************************************************************)
(* TreeStore on three folders and one file, enough for a folder moved into *)
(* a folder inside another, and for a node with a parent, a child and a    *)
(* bystander.                                                              *)
(***************************************************************************)
EXTENDS TreeStore, TLC

FolderSymmetry == Permutations(Folders)
=============================================================================
