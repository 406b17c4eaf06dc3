---------------------------- MODULE MCInstaller ----------------------------
(* One client at a time; the rest of the system is small enough to take whole. *)
EXTENDS Installer
=============================================================================
