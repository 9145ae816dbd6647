----------------------------- MODULE MCBackend -----------------------------
(* The backend protocol on small instances.                                *)
EXTENDS Backend
=============================================================================
