----------------------------- MODULE MCCustody ------------------------------
(* Small instances of Custody.                                              *)
EXTENDS Custody
============================================================================
