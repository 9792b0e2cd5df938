-------------------------- MODULE MCPackageInstall --------------------------
(* PackageInstall for TLC. *)
EXTENDS PackageInstall
=============================================================================
