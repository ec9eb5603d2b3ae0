---- MODULE MCThreadPool ----
EXTENDS ThreadPool
====
