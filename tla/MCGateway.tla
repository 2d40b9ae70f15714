----------------------------- MODULE MCGateway ------------------------------
(* Two calls on two routes that share a paced provider; the last provider of *)
(* one has no key. *)
EXTENDS Gateway

CONSTANTS groq, mistral, openrouter

MCModels == [p \in Providers |-> IF p = mistral THEN 2 ELSE 1]
MCRPM    == [p \in Providers |-> IF p = mistral THEN 2 ELSE 1]
MCRoutes == [complete |-> <<groq, mistral>>, stream |-> <<mistral, openrouter>>]
=============================================================================
