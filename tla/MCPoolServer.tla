---- MODULE MCPoolServer ----
EXTENDS PoolServer
====
