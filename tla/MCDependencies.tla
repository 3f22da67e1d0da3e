-------------------------- MODULE MCDependencies --------------------------
(***************************************************************************)
(* Dependencies with the five cached factories in the order in which       *)
(* chat_completions names them.                                            *)
(***************************************************************************)
EXTENDS Dependencies

MCOrder == <<"client", "key_provider", "session_store", "clock", "tier2_model">>
MCFactories == {MCOrder[i] : i \in 1..5}

\* The docstring of get_session_store.
OneSessionStore == OneOfEach("session_store")
=============================================================================
