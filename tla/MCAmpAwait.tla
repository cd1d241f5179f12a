----------------------------- MODULE MCAmpAwait -----------------------------
(***************************************************************************)
(* Instances of AmpAwait.  Calls c1 and c2 ask for the same artifact, c3   *)
(* for another one.                                                        *)
(***************************************************************************)
EXTENDS AmpAwait

CONSTANTS c1, c2, c3, common, other

MCNames == {common, other}
MCArtifact == [c \in Calls |-> IF c = c3 THEN other ELSE common]

\* The registry reads the whole name, or of the longer name that c3 asks for just
\* the end, which is the name that the others ask for.
WholeNames == MCArtifact
EndOfName == [c \in Calls |-> common]

\* The registry holds a record that lacks fields, or holds none, or a good one.
AnyAnswer == [n \in MCNames |-> IF n = common THEN Kinds ELSE {"complete", "text"}]
\* Every record the registry holds is good.
GoodAnswer == [n \in MCNames |-> IF n = common THEN {"complete"}
                                 ELSE {"complete", "text"}]
\* The registry holds good records of all artifacts.
OnlyComplete == [n \in MCNames |-> {"complete"}]
=============================================================================
