-------------------------- MODULE MC_DnsForwarder ---------------------------
(***************************************************************************)
(* Two clients and a few questions, two of which can be cached.            *)
(***************************************************************************)
EXTENDS DnsForwarder

CONSTANTS q1, q2, q3

\* q3 has no question section that dns_question_len accepts.
MCKeyOf == [q \in Questions |-> IF q = q3 THEN NoKey ELSE q]
=============================================================================
