----------------------------- MODULE MCVectorFiles -----------------------------
(***************************************************************************)
(* The six generators of gen_vectors.py, and two edits of the code.          *)
(***************************************************************************)
EXTENDS VectorFiles

MCGenerators == <<"nonce_gen", "nonce_agg", "sign_verify", "tweak", "det_sign", "sig_agg">>

=============================================================================
