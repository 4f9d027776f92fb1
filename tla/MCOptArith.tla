---- MODULE MCOptArith ----
EXTENDS OptArith
====
