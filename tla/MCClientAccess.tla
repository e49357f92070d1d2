--------------------------- MODULE MCClientAccess ---------------------------
(***************************************************************************)
(* Instances of ClientAccess: the key "env" comes from the environment,    *)
(* "row" only from the table, and both may name the same client.           *)
(***************************************************************************)
EXTENDS ClientAccess

MCEnvKeys == [k \in {"env"} |-> [client |-> "alice", max |-> 2]]
=============================================================================
