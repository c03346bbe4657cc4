------------------------------ MODULE LbfgsMC ------------------------------
(***************************************************************************)
(* Two weights, three correction pairs, up to three trials per search and  *)
(* nine trials in all: the ring fills, wraps around and is used again by a *)
(* second problem after the first has converged.                           *)
(***************************************************************************)
EXTENDS Lbfgs
=============================================================================
