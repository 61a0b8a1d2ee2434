----------------------------- MODULE MCKeyUpload -----------------------------
(***************************************************************************)
(* KeyUpload with a list of two keys and four key pairs in all: a batch    *)
(* may be larger than the list, and what it drops may be published.        *)
(***************************************************************************)
EXTENDS KeyUpload
==============================================================================
