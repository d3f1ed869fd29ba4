----------------------------- MODULE MCVaultDisk -----------------------------
(***************************************************************************)
(* Two files, two contents, two pulls, two crashes.  Files and contents    *)
(* are alike to the module, so their permutations are a symmetry.          *)
(***************************************************************************)
EXTENDS VaultDisk, TLC

CONSTANTS f1, f2, c1, c2

MCFiles == {f1, f2}
MCContents == {c1, c2}
MCSymmetry == Permutations(MCFiles) \union Permutations(MCContents)
=============================================================================
