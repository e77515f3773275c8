------------------------------- MODULE MCDesk -------------------------------
(* The shell and its alarm alone, on days of two minutes.                  *)
EXTENDS Desk

=============================================================================
