------------------------------ MODULE MCFixLive ------------------------------
(* Entries with two revisions, in each of the two tables, whose L, P and REV#  *)
(* rows agree and contradict each other in the ways the decision tells apart.  *)
EXTENDS FixLive

CONSTANTS a, b

MCEntry == {a, b}
OneEntry == {a}
MCInternal == {b}
MCSegmentOf == [e \in Entry |-> IF e = a THEN 0 ELSE 1]
MCRevisionSk == <<"REV#0001", "REV#0002">>

D(status, version, live) == [status |-> status, version |-> version, live |-> live]

\* L, P and the two revisions in the DynamoDB table, of which REV#0001 is, or
\* is not, the one P is a copy of: every skip and every kind of change occurs.
DdbGroups ==
  {[sk \in {"L", "P", "REV#0001", "REV#0002"} |->
      CASE sk = "L" -> l
        [] sk = "P" -> p
        [] sk = "REV#0001" -> r
        [] sk = "REV#0002" -> D("draft", 2, NoLive)] :
     l \in {D("draft", 2, EmptyLive), D("draft", 1, 2), D("published", 1, 1), Absent},
     p \in {D("published", 1, 1), D("published", 1, NoLive),
            D("published", NoVersion, 1), Absent},
     r \in {D("published", 1, NoLive), D("published", 2, 1), Absent}}

\* The rows of the OpenSearch table, one of which may not be readable.
OsGroups ==
  {[sk \in {"L", "P"} |-> IF sk = "L" THEN g[1] ELSE g[2]] :
     g \in {<<D("draft", 2, EmptyLive), D("published", 1, NoLive)>>,
            <<D("published", 1, 1), D("published", 1, NoLive)>>,
            <<D("published", 1, 1), Absent>>,
            <<D("garbled", NoVersion, NoLive), Absent>>}}

MCContent == {D("published", 2, 2), D("draft", 2, EmptyLive)}
OsContent == {D("published", 2, 2)}
==============================================================================
