---- MODULE MCThreadPool ----
EXTENDS ThreadPool, TLC
====
