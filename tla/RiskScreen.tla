------------------------------ MODULE RiskScreen ------------------------------
(***************************************************************************)
(* The risk screen of allowed actions (jevScreenRisk, package jev).  The   *)
(* judge is external: it answers with a score on its scale of 0 to 4 and a *)
(* confidence, both in hundredths here, or no usable answer comes back     *)
(* (no key, no connection, another status, nothing to decode).             *)
(***************************************************************************)
EXTENDS Integers

CONSTANTS
  Answers,     \* what the judge may answer: [usable, score, confidence]
  Threshold    \* SETTLE_JEV_THRESHOLD, or 70

ASSUME RiskScreenAssumption ==
  /\ Threshold \in 0 .. 100
  /\ \A a \in Answers : a.usable \in BOOLEAN /\ a.score \in Int /\ a.confidence \in Int

\* Go's conversion of the quotient to int truncates towards zero.
Truncated(x, d) == IF x >= 0 THEN x \div d ELSE -((-x) \div d)

\* int(score*25 + 0.5), clamped
Score100(score) ==
  LET s == Truncated(score * 25 + 50, 100)
  IN IF s < 0 THEN 0 ELSE IF s > 100 THEN 100 ELSE s

\* Only a usable, confident and low answer lets the action through.
Escalates(a) == ~a.usable \/ a.confidence < 50 \/ Score100(a.score) >= Threshold
=============================================================================
