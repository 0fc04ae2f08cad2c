---------------------------- MODULE MCMonitoring ----------------------------
EXTENDS Monitoring, TLC

CONSTANTS u1, u2, s1, s2

\* Two applications of Prometheus with one unit each; one of Grafana with two.
MCServes ==
    [k \in Kinds |-> [s \in Servers |-> IF k = "metrics-endpoint" /\ s = s2 THEN 2 ELSE 1]]
UnitSymmetry == Permutations({u1, u2})

=============================================================================
