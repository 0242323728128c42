----------------------------- MODULE MCRpcChunks -----------------------------
(* Small instances of the chunk layer; a chunk has 2 bytes. *)
EXTENDS RpcChunks

CONSTANTS u1, u2, d1, d2, d3

(* u is uploaded by the client, d downloaded from the server. *)
MCFrom == [m \in Messages |-> IF m \in {u1, u2} THEN "client" ELSE "server"]

(* Below and above the chunk size, with and without a short last chunk. *)
MCBytes == [m \in Messages |-> CASE m \in {u1, d1} -> 5 [] m \in {u2, d2} -> 4 [] OTHER -> 1]

(* Ids of the client start at 1; an answer has the id of its request. Here *)
(* no id is used twice in one direction, nor as chunk id of the other one. *)
DistinctIds == [m \in Messages |-> CASE m = u1 -> 5 [] m = u2 -> 6 [] m = d1 -> 3 [] m = d2 -> 4 [] OTHER -> 2]

(* Two values of an observable, so with the id of one call. *)
OneCall == [m \in Messages |-> 5]

(* The first upload of the client, and two large downloads. *)
FirstUpload == [m \in Messages |-> CASE m = u1 -> 1 [] m = d1 -> 3 [] OTHER -> 4]
=============================================================================
