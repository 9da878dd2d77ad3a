--------------------------- MODULE MCManifestFile ----------------------------
(* Instances of ManifestFile for TLC. *)
EXTENDS ManifestFile, TLC

(* The values of manifests and the files are interchangeable. *)
Symmetric == Permutations(Values) \cup Permutations(Inodes)

=============================================================================
