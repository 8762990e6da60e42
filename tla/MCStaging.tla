------------------------------ MODULE MCStaging ------------------------------
(* A small instance of Staging: one request of one project.                *)
EXTENDS Staging, TLC

CONSTANTS r1, p1

MCProjectOf == r1 :> p1
=============================================================================
