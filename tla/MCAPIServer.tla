---------------------------- MODULE MCAPIServer ----------------------------
(* APIServer with the generated definitions. *)
EXTENDS APIServer, TaskOpenAPI
=============================================================================
