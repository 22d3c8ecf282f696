------------------------------ MODULE MCVideoLoop ------------------------------
(***************************************************************************)
(* Two sessions, two changes of settings and a stream that is stopped and  *)
(* started: every step of a change falls into every step of the loop, and  *)
(* flags and settings survive from one session to the next.                *)
(***************************************************************************)
EXTENDS VideoLoop
===============================================================================
