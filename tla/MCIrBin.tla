---- MODULE MCIrBin ----
EXTENDS IrBin
====
