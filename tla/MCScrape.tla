------------------------------ MODULE MCScrape ------------------------------
(* A small instance of Scrape for TLC. *)
EXTENDS Scrape, TLC

CONSTANTS j1, j2, j3, w1

MCJobs == {j1, j2, j3}
MCWorkers == {w1}
NoStuckJob == {}

\* Jobs are interchangeable: no property names one.
JobSymmetry == Permutations(MCJobs)
=============================================================================
