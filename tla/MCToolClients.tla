---------------------------- MODULE MCToolClients ----------------------------
(* Instance of ToolClients for TLC. *)
EXTENDS ToolClients

AllClients == {"openai", "langgraph", "bedrock", "kaos"}

\* Every single call, and every turn of two calls.
MCBatches == [1 .. 1 -> Kind] \cup [1 .. 2 -> Kind]
=============================================================================
