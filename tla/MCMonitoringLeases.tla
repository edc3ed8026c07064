-------------------------- MODULE MCMonitoringLeases --------------------------
EXTENDS MonitoringLeases, TLC

CONSTANTS w1, w2, t1, t2

MCWorkers == {w1, w2}
MCTargets == {t1, t2}
OneTarget == {t1}
Enabled == {t1, t2}
Switched == {t1, Off}
WorkerSymmetry == Permutations(MCWorkers)
=============================================================================
