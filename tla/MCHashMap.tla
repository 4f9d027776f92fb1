---- MODULE MCHashMap ----
EXTENDS HashMap
====
