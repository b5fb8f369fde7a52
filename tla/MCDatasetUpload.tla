-------------------------- MODULE MCDatasetUpload --------------------------
(* Instances of DatasetUpload for TLC.                                      *)
EXTENDS DatasetUpload, TLC

Symmetry == Permutations(Requests) \cup Permutations(Payloads) \cup Permutations(Datasets)
            \cup Permutations(Texts)
=============================================================================
