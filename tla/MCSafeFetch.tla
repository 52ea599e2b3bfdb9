---------------------------- MODULE MCSafeFetch ----------------------------
(* SafeFetch with the redirect limit of the code.                          *)
EXTENDS SafeFetch, TLC
=============================================================================
