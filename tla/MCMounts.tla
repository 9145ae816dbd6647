------------------------------ MODULE MCMounts ------------------------------
(* Drive-letter mounts on a small instance.                                *)
EXTENDS Mounts
=============================================================================
