---- MODULE MCRouterEpoll ----
EXTENDS RouterEpoll

MCAsks == [threads |-> {0, 1, 4}, accept_threads |-> {0, 2, 9}, read_chunk |-> {0, 1, 9},
           timeout |-> {-1, 2, 9}]
MCLowest == [threads |-> 0, accept_threads |-> 0, read_chunk |-> 1, timeout |-> 1]
MCHighest == [threads |-> 3, accept_threads |-> 3, read_chunk |-> 2, timeout |-> 3]
MCDefaults == [threads |-> 0, accept_threads |-> 1, read_chunk |-> 2, timeout |-> 2]
====
