---- MODULE MCExecutor ----
EXTENDS Executor

CONSTANTS e1, e2

MCExe == {e1, e2}
====
