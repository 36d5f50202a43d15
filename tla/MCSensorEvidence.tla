-------------------------- MODULE MCSensorEvidence --------------------------
EXTENDS SensorEvidence
MCGlobs == [s \in Sensors |-> {"src"}]
MCAlways == [s \in Sensors |-> {}]
MCModule == [f \in Files |-> "."]
\* A source above the size cap may be clean or not, and its digest is the same.
MCContents ==
    [f \in Files |-> CASE f = "src" -> {"big", "bigbad"} [] f = Baseline -> {"accepts"} [] OTHER -> {"bad"}]
MCBad == {"bad", "bigbad"}
MCOpaque == {"big", "bigbad"}
MCAccepts == [b \in {"accepts"} |-> [s \in Sensors |-> {"src", Tool}]]
\* A finding in the source, which the baseline accepts.
MCStart == {[f \in Files |-> CASE f = "src" -> "bigbad" [] f = Baseline -> "accepts" [] OTHER -> Absent]}
=============================================================================
