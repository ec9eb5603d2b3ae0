---- MODULE MCConnServer ----
EXTENDS ConnServer
====
