---------------------------- MODULE MCFoldStore ----------------------------
EXTENDS FoldStore
CONSTANTS f1, f2
OneChild == <<"firings">>
FoldersAlike == Permutations(Folders)
=============================================================================
