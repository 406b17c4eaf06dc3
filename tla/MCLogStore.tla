----------------------------- MODULE MCLogStore -----------------------------
(* Files of two bytes, so that every few appends rotate all of them.         *)
EXTENDS LogStore
=============================================================================
