-------------------------- MODULE MCStreamHandshake --------------------------
(***************************************************************************)
(* Two turns of one conversation, each through any of the endpoints: every *)
(* pair of an anchor and a follow-up.                                      *)
(***************************************************************************)
EXTENDS StreamHandshake

MCKey == [s \in Slot |-> "A"]

MCAsk(endpoint, stream, format, tools) ==
  [endpoint |-> endpoint, stream |-> stream, format |-> format,
   tools |-> tools]

MCRequests ==
  { MCAsk("openai", FALSE, "schema", FALSE), MCAsk("openai", TRUE, "free", TRUE),
    MCAsk("ollama", TRUE, "free", FALSE), MCAsk("ollama", TRUE, "free", TRUE),
    MCAsk("embeddings", FALSE, "free", FALSE) }
==============================================================================
