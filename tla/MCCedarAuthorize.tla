-------------------------- MODULE MCCedarAuthorize --------------------------
(* A small instance of CedarAuthorize for TLC. *)
EXTENDS CedarAuthorize

CONSTANTS p, q, bad, d1, d2

\* The text q has the key of a text that does not parse.
MCHash == [t \in Text |-> IF t = p THEN 1 ELSE 2]

MCParses == Kind \X {p, q}

\* d2 does not fit the schema p.
MCAccepts == {<<NotText, d1>>, <<NotText, d2>>, <<p, d1>>, <<q, d1>>, <<q, d2>>}

\* All policies with all schemas; d2 with the one schema it does not fit; and two records
\* that lack a field.
MCAsked ==
  {rec \in Record :
     \/ rec.uids /\ rec.policies \in Text /\ (rec.data = d2 => rec.schema = p)
     \/ rec = [uids |-> FALSE, policies |-> p, schema |-> p, data |-> d1]
     \/ rec = [uids |-> TRUE, policies |-> NotText, schema |-> p, data |-> d1]}
============================================================================
