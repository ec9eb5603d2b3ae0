---- MODULE MCTimerContainers ----
EXTENDS TimerContainers
====
