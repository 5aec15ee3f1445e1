---------------------------- MODULE MCAuditSinks ----------------------------
(***************************************************************************)
(* Finite instances of the two audit sinks.  A deployment has one of them, *)
(* so `sink`, chosen at the start, says which one runs.                    *)
(***************************************************************************)
EXTENDS FileAuditSink, PostgresAuditSink, TLC

CONSTANTS e1, e2, j1, j2

VARIABLE sink

\* Emitters, and the jobs, run the same code on the same rows.
TaskSymmetry == Permutations({e1, e2}) \cup Permutations({j1, j2})

SinkInit ==
  /\ Init /\ PgInit
  /\ \/ sink = "file" /\ submitter = [j \in Jobs |-> "file"]
     \/ sink = "postgres"

SinkNext ==
  \/ sink = "file" /\ Next /\ UNCHANGED <<pgVars, sink>>
  \/ sink = "postgres" /\ PgNext /\ UNCHANGED <<vars, sink>>

SinkSpec == SinkInit /\ [][SinkNext]_<<vars, pgVars, sink>>
=============================================================================
