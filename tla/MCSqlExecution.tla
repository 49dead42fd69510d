--------------------------- MODULE MCSqlExecution ---------------------------
(* Instances of SqlExecution for TLC.  Costs are in steps of the thresholds: a *)
(* select between them, a probe above both, a free write.                    *)
EXTENDS SqlExecution, TLC

CONSTANTS p1, p2, i1, i2

\* processes and instance ids are interchangeable
Symmetric == Permutations({p1, p2}) \cup Permutations({i1, i2})

Kinds == [select |-> "read", probe |-> "read", insert |-> "write", junk |-> "unparseable"]
SomeKinds == [s \in Statements |-> Kinds[s]]
Costs == [select |-> 1, probe |-> 2, insert |-> 0, junk |-> 0]
SomeCosts == [s \in Statements |-> Costs[s]]
Probes == {"probe"} \cap Statements

Option(y, a, t) == [yes |-> y, allow |-> a, tty |-> t]
\* an agent, an agent told to confirm and write, a person at a terminal
SomeOptions == {Option(FALSE, FALSE, FALSE), Option(TRUE, TRUE, FALSE), Option(FALSE, FALSE, TRUE)}
AgentOptions == {Option(TRUE, TRUE, FALSE)}

Tariff(c, b, e) == [confirm |-> c, blocked |-> b, enabled |-> e]
Yml(c, b, e) == [confirm |-> c, blocked |-> b, enabled |-> e]

\* an old file without the flag; the gate is then switched off, or its ceiling lowered
OldYaml == {Yml(1, 2, "absent")}
SomeTariffs == {Tariff(1, 2, FALSE), Tariff(0, 1, TRUE)}

\* a file mcs wrote; the user follows the advice to set both numbers to zero
SavedYaml == {Yml(1, 2, "true")}
ZeroTariff == {Tariff(0, 0, FALSE)}
=============================================================================
