----------------------------- MODULE MCBootOta -----------------------------
(* The boot and update model with three firmware versions.                 *)
EXTENDS BootOta

MCVersions == 1..3
=============================================================================
