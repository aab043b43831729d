------------------------------ MODULE Handlers ------------------------------
(***************************************************************************)
(* What the modules of the API's handlers share.  A handler is a request   *)
(* that looks rows up, decides, and writes by id in a later step: nothing  *)
(* holds the rows in between, and other requests and replicas of the API   *)
(* run at the same time.                                                   *)
(***************************************************************************)
EXTENDS Integers, FiniteSets

CONSTANT Requests   \* requests the API handles at once

ASSUME RequestsAssumption == IsFiniteSet(Requests) /\ Requests # {}
=============================================================================
