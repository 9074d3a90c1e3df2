---- MODULE MCServiceProcess ----
EXTENDS ServiceProcess

CONSTANTS c1, c2, w1, w2, w3
====
