---- MODULE MCCompletionQueue ----
EXTENDS CompletionQueue, TLC
====
