-------------------------- MODULE MCStrictUpload --------------------------
(* Model-checking instance of StrictUpload: symmetry for the safety run.   *)
EXTENDS StrictUpload, TLC

\* Uploads are interchangeable when none of them may crash.
SymmetricUploads == Permutations(Txs)
=============================================================================
