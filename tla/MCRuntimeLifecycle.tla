------------------------ MODULE MCRuntimeLifecycle -------------------------
(* The preparation client, the GitHub transport and the engine stand for    *)
(* the resources closed in turn; the engine is last.                        *)
EXTENDS RuntimeLifecycle

MCOrder == <<"preparation", "github", "engine">>

============================================================================
