--------------------------- MODULE MCConnectivity ---------------------------
(***************************************************************************)
(* A small instance of Connectivity: a ladder of three rungs.              *)
(***************************************************************************)
EXTENDS Connectivity

MCDelaysMs == <<0, 1, 2>>
=============================================================================
