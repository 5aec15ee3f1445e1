------------------------- MODULE PostgresAuditSink -------------------------
(***************************************************************************)
(* The Postgres audit log and the job that anchors it (qfc-audit/src:      *)
(* postgres.rs, anchor.rs, chain_anchor.rs).                               *)
(*                                                                         *)
(* `order` holds the committed rows in the order of their commits.  A hash *)
(* identifies the row it was computed from, so prev is that row's place in *)
(* `order` and 0 the all-zero hash.  The readers sort by timestamp and,    *)
(* within a millisecond, by event id: the rank, drawn at random like the   *)
(* low bits of a ULID.  Processes share the database and not the clock, so *)
(* a timestamp may lag by up to Skew.                                      *)
(***************************************************************************)
EXTENDS Naturals, Sequences, FiniteSets

CONSTANTS
  Emitters,    \* tasks that emit, in any process
  Jobs,        \* anchor jobs, one per server process
  Ranks,       \* event ids of one millisecond, in their order
  Skew,        \* how far a process's clock may lag
  MaxRows,     \* bound: rows committed
  MaxMs,       \* bound: the clock stops here
  MaxAnchors   \* bound: anchors published

ASSUME PostgresAssumption ==
  /\ Ranks \subseteq Nat /\ Skew \in Nat
  /\ MaxRows \in Nat /\ MaxMs \in Nat /\ MaxAnchors \in Nat

VARIABLES
  order,     \* audit_events, in commit order
  emitting,  \* per emitter: where its transaction is and what it inserts
  clock,     \* milliseconds
  submitter, \* per anchor job: "file" (LocalFileAnchor) or "chain" (ChainAnchor)
  job,       \* per anchor job: where it is and the payload it holds
  anchored,  \* rows of the anchor files
  txs        \* anchor transactions of the operator's account, by nonce

pgVars == <<order, emitting, clock, submitter, job, anchored, txs>>

\* Bytes 1 to 15, 16 (QuorumThresholdReached) and 17 (PolicyDecisionSigned).
KindClasses == {"upTo15", "threshold", "signed"}

kind_from_byte == {"upTo15", "threshold"}
kind_from_byte_local == {"upTo15"}

Rows == [ts : 0 .. MaxMs, rank : Ranks, prev : 0 .. MaxRows, kind : KindClasses]

NoTx == [pc |-> "idle"]
NoJob == [pc |-> "idle"]

PgInit ==
  /\ order = <<>>
  /\ emitting = [e \in Emitters |-> NoTx]
  /\ clock = 0
  /\ submitter \in [Jobs -> {"file", "chain"}]
  /\ job = [j \in Jobs |-> NoJob]
  /\ anchored = {} /\ txs = <<>>

SortsBefore(a, b) == a.ts < b.ts \/ (a.ts = b.ts /\ a.rank < b.rank)

\* ORDER BY timestamp_unix_ms DESC, event_id DESC LIMIT 1: the place of the
\* last row, 0 for an empty table.
LatestRow ==
  IF order = <<>> THEN 0
  ELSE CHOOSE i \in DOMAIN order : \A j \in DOMAIN order : ~ SortsBefore(order[i], order[j])

\* Mutant: ascending order.
EarliestRow ==
  IF order = <<>> THEN 0
  ELSE CHOOSE i \in DOMAIN order : \A j \in DOMAIN order : ~ SortsBefore(order[j], order[i])

Readable(i, kinds) == i \in DOMAIN order => order[i].kind \in kinds

\* Mutant: the advisory lock is not taken.
LockChainFreely(e, k) ==
  /\ emitting[e] = NoTx
  /\ emitting' = [emitting EXCEPT ![e] = [pc |-> "locked", kind |-> k]]
  /\ UNCHANGED <<order, clock, submitter, job, anchored, txs>>

\* emit begins its transaction and gets pg_advisory_xact_lock.
LockChain(e, k) ==
  /\ \A f \in Emitters : emitting[f] = NoTx
  /\ emitting' = [emitting EXCEPT ![e] = [pc |-> "locked", kind |-> k]]
  /\ UNCHANGED <<order, clock, submitter, job, anchored, txs>>

\* fetch_chain_head, then a fresh event id and the clock; a head whose kind
\* kind_from_byte does not know fails the emit and rolls back.
StampRow(e) ==
  /\ emitting[e].pc = "locked"
  /\ \/ /\ ~ Readable(LatestRow, kind_from_byte)
        /\ emitting' = [emitting EXCEPT ![e] = NoTx]
     \/ /\ Readable(LatestRow, kind_from_byte)
        /\ \E t \in 0 .. clock, k \in Ranks :
             /\ clock - t <= Skew
             /\ \A i \in DOMAIN order : <<order[i].ts, order[i].rank>> # <<t, k>>
             /\ emitting' = [emitting EXCEPT ![e] =
                  [pc |-> "stamped",
                   row |-> [ts |-> t, rank |-> k, prev |-> LatestRow,
                            kind |-> emitting[e].kind]]]
  /\ UNCHANGED <<order, clock, submitter, job, anchored, txs>>

\* insert_event and commit; whether the caller hears of it or loses the
\* connection, the row is there and the lock released.
CommitRow(e) ==
  /\ emitting[e].pc = "stamped" /\ Len(order) < MaxRows
  /\ order' = Append(order, emitting[e].row)
  /\ emitting' = [emitting EXCEPT ![e] = NoTx]
  /\ UNCHANGED <<clock, submitter, job, anchored, txs>>

\* A statement fails or the emit's future is dropped: rollback.
AbandonEmit(e) ==
  /\ emitting[e] # NoTx
  /\ emitting' = [emitting EXCEPT ![e] = NoTx]
  /\ UNCHANGED <<order, clock, submitter, job, anchored, txs>>

ClockTick ==
  /\ clock < MaxMs /\ clock' = clock + 1
  /\ UNCHANGED <<order, emitting, submitter, job, anchored, txs>>
-----------------------------------------------------------------------------
(* daily_anchor_commit_job *)

Anchors == Cardinality(anchored) + Len(txs)

\* A tick of the interval: anchor_payload counts the rows.
CountRows(j) ==
  /\ job[j] = NoJob /\ Anchors < MaxAnchors
  /\ job' = [job EXCEPT ![j] = [pc |-> "counted", count |-> Len(order)]]
  /\ UNCHANGED <<order, emitting, clock, submitter, anchored, txs>>

\* The head anchor_payload reads, in a query of its own.
anchor_head == LatestRow

\* anchor_payload: a head of a kind its own table lacks is an error, logged.
ReadAnchorHead(j) ==
  /\ job[j].pc = "counted"
  /\ \/ /\ ~ Readable(anchor_head, kind_from_byte_local)
        /\ job' = [job EXCEPT ![j] = NoJob]
     \/ /\ Readable(anchor_head, kind_from_byte_local)
        /\ job' = [job EXCEPT ![j] =
             [pc |-> "payload",
              payload |-> [head |-> anchor_head, count |-> job[j].count]]]
  /\ UNCHANGED <<order, emitting, clock, submitter, anchored, txs>>

\* LocalFileAnchor::submit appends a signed line.
AppendAnchor(j) ==
  /\ job[j].pc = "payload" /\ submitter[j] = "file"
  /\ anchored' = anchored \cup {job[j].payload}
  /\ job' = [job EXCEPT ![j] = NoJob]
  /\ UNCHANGED <<order, emitting, clock, submitter, txs>>

\* ChainAnchor::submit asks for the chain id and the account's pending nonce.
ReadNonce(j) ==
  /\ job[j].pc = "payload" /\ submitter[j] = "chain"
  /\ job' = [job EXCEPT ![j] =
       [pc |-> "nonce", payload |-> job[j].payload, nonce |-> Len(txs)]]
  /\ UNCHANGED <<order, emitting, clock, submitter, anchored, txs>>

\* The node accepts the transaction of the next nonce, whether its answer
\* arrives or not, and refuses one whose nonce is taken.
SendTx(j) ==
  /\ job[j].pc = "nonce"
  /\ txs' = IF job[j].nonce = Len(txs) THEN Append(txs, job[j].payload) ELSE txs
  /\ job' = [job EXCEPT ![j] = NoJob]
  /\ UNCHANGED <<order, emitting, clock, submitter, anchored>>

\* A query, an RPC call or the append fails; the job logs and waits.
AnchorFails(j) ==
  /\ job[j] # NoJob
  /\ job' = [job EXCEPT ![j] = NoJob]
  /\ UNCHANGED <<order, emitting, clock, submitter, anchored, txs>>

PgNext ==
  \/ \E e \in Emitters :
       \/ \E k \in KindClasses : LockChain(e, k)
       \/ StampRow(e) \/ CommitRow(e) \/ AbandonEmit(e)
  \/ \E j \in Jobs :
       \/ CountRows(j) \/ ReadAnchorHead(j) \/ AppendAnchor(j)
       \/ ReadNonce(j) \/ SendTx(j) \/ AnchorFails(j)
  \/ ClockTick

PgSpec == PgInit /\ [][PgNext]_pgVars
-----------------------------------------------------------------------------
(* Properties *)

\* The rows were committed in the order the readers sort them in.
InSortOrder == \A i, j \in DOMAIN order : i < j => SortsBefore(order[i], order[j])

\* The row right before row i in the readers' order, 0 if there is none.
Predecessor(i) ==
  LET before == {j \in DOMAIN order : SortsBefore(order[j], order[i])} IN
  IF before = {} THEN 0
  ELSE CHOOSE j \in before : \A k \in before : ~ SortsBefore(order[j], order[k])

\* replay_verify_postgres accepts the table: every kind decodes and every row
\* names the one sorted before it.
replay_verify_postgres ==
  \A i \in DOMAIN order :
    order[i].kind \in kind_from_byte /\ order[i].prev = Predecessor(i)

\* The replay accepts the table exactly if the rows were committed in the order
\* the readers sort them in and none is of a kind postgres.rs cannot decode:
\* the advisory lock alone rules out every other way to break the chain.
ReplaysExactlyIfOrdered ==
  replay_verify_postgres <=>
    InSortOrder /\ \A i \in DOMAIN order : order[i].kind \in kind_from_byte

\* What is anchored commits to at least as many events as it says: as long as
\* the rows are in sort order, the count of a published payload (in a file or
\* on chain) never exceeds the place of the head it commits to.
AnchorNeverOvercounts ==
  InSortOrder =>
    \A p \in anchored \cup {txs[i] : i \in DOMAIN txs} :
      p.head \in 0 .. Len(order) /\ p.count <= p.head

\* "To guarantee a strictly linear hash chain": every row is chained to the one
\* committed right before it.
StrictlyLinear == \A i \in DOMAIN order : order[i].prev = i - 1
=============================================================================
