-------------------------- MODULE MCRpcBufferReader --------------------------
(* A stream of three messages of 5, 4 and 6 bytes. *)
EXTENDS RpcBufferReader

MCStart == <<0, 5, 9, 15>>

(* Every position, inside headers too. *)
AllCuts == 1 .. 15

(* A whole message arrives with two bytes of the next one. *)
CutHeader == {7, 15}

(* Misread sizes: none, too small, inside and beyond the stream. *)
MCGarbage == {0, 1, 3, 100}
=============================================================================
