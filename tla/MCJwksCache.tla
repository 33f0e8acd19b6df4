---------------------------- MODULE MCJwksCache ----------------------------
(* A small instance of JwksCache; the configuration gives it its constants. *)
EXTENDS JwksCache

============================================================================
