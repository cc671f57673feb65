-------------------------- MODULE MCDanmuStatistics --------------------------
EXTENDS DanmuStatistics
====
