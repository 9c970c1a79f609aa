------------------------ MODULE MCConnectionPresence ------------------------
(* Finite instance of ConnectionPresence: one server process, as in the     *)
(* production stack.                                                        *)
EXTENDS ConnectionPresence

OneHome == [s \in Socket |-> CHOOSE p \in Process : TRUE]

=============================================================================
