----------------------------- MODULE MCUpstreams -----------------------------
(* Instances of Upstreams for TLC. *)
EXTENDS Upstreams

\* No keys at all, a signing key alone, both keys, and a key that cannot be decoded.
SomeEnvironments ==
  {[signing |-> "unset", data |-> "malformed"], [signing |-> "unset", data |-> "d1"],
   [signing |-> "k1", data |-> "unset"], [signing |-> "malformed", data |-> "unset"]}

\* No answer, a torn one, and confident ones on both sides of the rounded threshold.
SomeAnswers ==
  {[usable |-> FALSE, score |-> 0, confidence |-> 0],
   [usable |-> TRUE, score |-> 100, confidence |-> 49],
   [usable |-> TRUE, score |-> 277, confidence |-> 50],
   [usable |-> TRUE, score |-> 278, confidence |-> 90]}

\* Two servers, of which the second takes no token.
SomeBodies ==
  {[url |-> "u1", token |-> "s2", class |-> "READ_ONLY", tools |-> {"t1"}],
   [url |-> "u2", token |-> "", class |-> "", tools |-> {"t1"}]}

\* The calls are alike: the second is not made before the first.  A third-party credential
\* is not followed together with registrations and calls: they share no row.
Bound ==
  /\ \A c, d \in Calls : c < d /\ cpc[d] # "idle" => cpc[c] # "idle"
  /\ \/ credential = NoCredential
     \/ (\A o \in Operators : opc[o] = "idle") /\ (\A c \in Calls : cpc[c] = "idle")

OldRows == {[url |-> "u2", token |-> "s1", class |-> "", tools |-> {"t1"}]}
=============================================================================
