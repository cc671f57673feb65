--------------------------- MODULE MCHeavyHitters ---------------------------
EXTENDS HeavyHitters
====
