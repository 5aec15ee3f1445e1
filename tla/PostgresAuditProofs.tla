------------------------- MODULE PostgresAuditProofs -------------------------
(***************************************************************************)
(* For any number of emitters, anchor jobs and rows, any clock skew and    *)
(* any ids: the replay of the Postgres log accepts exactly the tables      *)
(* whose rows were committed in the readers' order, and no anchor says     *)
(* more events than its head commits to.                                   *)
(*                                                                         *)
(* Neither is inductive.  ChainInv adds what the advisory lock gives: one  *)
(* transaction is open at a time, a stamped row still names the latest     *)
(* committed row when it commits, and every committed row names the latest *)
(* of the rows before it.  CHOOSE names the row that ORDER BY ... LIMIT 1  *)
(* returns, so ChainInv also says that such a row exists.                  *)
(***************************************************************************)
EXTENDS PostgresAuditSink, TLAPS

AnyRow == [ts : Nat, rank : Nat, prev : Nat, kind : KindClasses]

\* Of the first n rows the one sorted last is at place m, 0 for none.
Top(rows, m, n) ==
  \/ n = 0 /\ m = 0
  \/ m \in 1 .. n /\ \A j \in 1 .. n : ~ SortsBefore(rows[m], rows[j])

\* Of the rows sorted before a key, if there are any, one is sorted last.
HasLast(rows, t, k) ==
  LET before == {j \in DOMAIN rows : SortsBefore(rows[j], [ts |-> t, rank |-> k])} IN
  before = {} \/ \E m \in before : \A j \in before : ~ SortsBefore(rows[m], rows[j])

Fresh(row) == \A i \in DOMAIN order : order[i].ts # row.ts \/ order[i].rank # row.rank

EmitInv(e) ==
  \/ emitting[e] = NoTx
  \/ emitting[e].pc = "locked" /\ emitting[e].kind \in KindClasses
  \/ /\ emitting[e].pc = "stamped" /\ emitting[e].row \in AnyRow
     /\ Fresh(emitting[e].row) /\ Top(order, emitting[e].row.prev, Len(order))

ChainInv ==
  /\ order \in Seq(AnyRow) /\ clock \in Nat
  /\ emitting = [e \in Emitters |-> emitting[e]]
  /\ \A e \in Emitters : EmitInv(e)
  /\ \A e, f \in Emitters : e = f \/ emitting[e] = NoTx \/ emitting[f] = NoTx
  /\ \A i, j \in DOMAIN order :
       i # j => order[i].ts # order[j].ts \/ order[i].rank # order[j].rank
  /\ \A i \in DOMAIN order : Top(order, order[i].prev, i - 1)
  /\ \A t, k \in Nat : HasLast(order, t, k)
  /\ \E m \in Nat : Top(order, m, Len(order))

\* The payloads whose count their head covers, should the rows be in sort order.
Payloads ==
  {p \in [head : Nat, count : Nat] :
     InSortOrder => p.head \in 0 .. Len(order) /\ p.count <= p.head}

JobInv(j) ==
  \/ job[j] = NoJob
  \/ job[j].pc = "counted" /\ job[j].count \in 0 .. Len(order)
  \/ job[j].pc \in {"payload", "nonce"} /\ job[j].payload \in Payloads

AnchorInv ==
  /\ job = [j \in Jobs |-> job[j]] /\ \A j \in Jobs : JobInv(j)
  /\ anchored \subseteq Payloads
  /\ txs \in Seq(Payloads)
-----------------------------------------------------------------------------
\* SortsBefore is a strict order on rows, total on distinct keys.
LEMMA SortOrder ==
  ASSUME NEW a, NEW b, NEW c,
         a.ts \in Nat, a.rank \in Nat, b.ts \in Nat, b.rank \in Nat,
         c.ts \in Nat, c.rank \in Nat
  PROVE  /\ ~ SortsBefore(a, a)
         /\ SortsBefore(a, b) => ~ SortsBefore(b, a)
         /\ SortsBefore(a, b) \/ SortsBefore(b, a) \/ (a.ts = b.ts /\ a.rank = b.rank)
         /\ SortsBefore(a, b) /\ ~ SortsBefore(c, b) => SortsBefore(a, c)
         /\ ~ SortsBefore(b, a) /\ SortsBefore(b, c) => SortsBefore(a, c)
  BY DEF SortsBefore

\* The timestamps and ids of the rows are numbers.
LEMMA RowKeys ==
  ASSUME NEW rows \in Seq(AnyRow)
  PROVE  \A i \in DOMAIN rows : rows[i].ts \in Nat /\ rows[i].rank \in Nat
  <1>1. \A i \in DOMAIN rows : rows[i] \in AnyRow
    OBVIOUS
  <1>2. \A row \in AnyRow : row.ts \in Nat /\ row.rank \in Nat
    BY DEF AnyRow
  <1> QED
    BY <1>1, <1>2

\* LatestRow is the row sorted last.
LEMMA LatestIsTop ==
  ASSUME ChainInv
  PROVE  LatestRow \in Nat /\ Top(order, LatestRow, Len(order))
  <1>1. order \in Seq(AnyRow) /\ Len(order) \in Nat /\ DOMAIN order = 1 .. Len(order)
    BY DEF ChainInv
  <1>2. CASE order = <<>>
    BY <1>1, <1>2 DEF LatestRow, Top
  <1>3. CASE order # <<>>
    <2>1. PICK m \in Nat : Top(order, m, Len(order))
      BY DEF ChainInv
    <2>2. Len(order) # 0
      BY <1>1, <1>3
    <2>3. m \in DOMAIN order /\ \A j \in DOMAIN order : ~ SortsBefore(order[m], order[j])
      BY <1>1, <2>1, <2>2 DEF Top
    <2>4. /\ LatestRow \in DOMAIN order
          /\ \A j \in DOMAIN order : ~ SortsBefore(order[LatestRow], order[j])
      BY <1>3, <2>3 DEF LatestRow
    <2> QED
      BY <1>1, <2>4 DEF Top
  <1> QED
    BY <1>2, <1>3

\* In sort order, the row sorted last is the last one.
LEMMA TopOfSorted ==
  ASSUME ChainInv, InSortOrder, NEW m, NEW n \in 0 .. Len(order), Top(order, m, n)
  PROVE  m = n
  <1>1. order \in Seq(AnyRow) /\ Len(order) \in Nat /\ DOMAIN order = 1 .. Len(order)
    BY DEF ChainInv
  <1>2. CASE n = 0
    BY <1>2 DEF Top
  <1>3. CASE n # 0
    <2>1. n \in 1 .. n /\ m \in 1 .. n /\ ~ SortsBefore(order[m], order[n])
      BY <1>1, <1>3 DEF Top
    <2>2. m < n => SortsBefore(order[m], order[n])
      BY <1>1, <2>1 DEF InSortOrder
    <2> QED
      BY <1>1, <2>1, <2>2
  <1> QED
    BY <1>2, <1>3

\* The replay accepts exactly the tables committed in sort order.
LEMMA ReplayIffSorted ==
  ASSUME ChainInv
  PROVE  ReplaysExactlyIfOrdered
  <1>1. order \in Seq(AnyRow) /\ Len(order) \in Nat /\ DOMAIN order = 1 .. Len(order)
    BY DEF ChainInv
  <1>2. \A i \in DOMAIN order : order[i].ts \in Nat /\ order[i].rank \in Nat
    BY <1>1, RowKeys
  <1> DEFINE Before(i) == {j \in DOMAIN order : SortsBefore(order[j], order[i])}
  <1>3. ASSUME InSortOrder, NEW i \in DOMAIN order
        PROVE  order[i].prev = Predecessor(i)
    <2>1. i \in 1 .. Len(order) /\ i - 1 \in 0 .. Len(order)
      BY <1>1
    <2>2. order[i].prev = i - 1
      BY <1>3, <2>1, TopOfSorted DEF ChainInv
    <2>3. \A j \in DOMAIN order : j \in Before(i) <=> j < i
      <3> SUFFICES ASSUME NEW j \in DOMAIN order
                   PROVE  SortsBefore(order[j], order[i]) <=> j < i
        OBVIOUS
      <3>1. j < i \/ j = i \/ i < j
        BY <1>1
      <3>2. i < j => SortsBefore(order[i], order[j])
        BY <1>3 DEF InSortOrder
      <3>3. j < i => SortsBefore(order[j], order[i])
        BY <1>3 DEF InSortOrder
      <3>4. ~ SortsBefore(order[i], order[i])
        BY <1>2, SortOrder
      <3>5. SortsBefore(order[i], order[j]) => ~ SortsBefore(order[j], order[i])
        BY <1>2, SortOrder
      <3>6. i < j => ~ (j < i)
        BY <1>1
      <3>7. j = i => ~ (j < i)
        BY <1>1
      <3> QED
        BY <3>1, <3>2, <3>3, <3>4, <3>5, <3>6, <3>7
    <2>4. CASE i = 1
      <3>1. Before(i) = {}
        BY <1>1, <2>3, <2>4
      <3> QED
        BY <2>2, <2>4, <3>1 DEF Predecessor
    <2>5. CASE i # 1
      <3>1. i - 1 \in Before(i) /\ \A k \in Before(i) : k \in DOMAIN order /\ (k < i - 1 \/ k = i - 1)
        BY <1>1, <2>1, <2>3, <2>5
      <3>2. \A k \in Before(i) : k = i - 1 \/ SortsBefore(order[k], order[i - 1])
        BY <1>3, <3>1 DEF InSortOrder
      <3>3. \A k \in Before(i) : ~ SortsBefore(order[i - 1], order[k])
        BY <1>2, <3>1, <3>2, SortOrder
      <3>4. /\ Predecessor(i) \in Before(i)
            /\ \A k \in Before(i) : ~ SortsBefore(order[Predecessor(i)], order[k])
        BY <3>1, <3>3 DEF Predecessor
      <3> QED
        BY <2>2, <3>1, <3>2, <3>4
    <2> QED
      BY <2>4, <2>5
  <1>4. ASSUME \A i \in DOMAIN order : order[i].prev = Predecessor(i)
        PROVE  InSortOrder
    <2> SUFFICES ASSUME NEW a \in DOMAIN order, NEW b \in DOMAIN order, a < b,
                        ~ SortsBefore(order[a], order[b])
                 PROVE  FALSE
      BY DEF InSortOrder
    <2>1. a # b
      BY <1>1
    <2>2. SortsBefore(order[b], order[a])
      BY <1>2, <2>1, SortOrder DEF ChainInv
    <2> DEFINE m == order[b].prev
    <2>3. a \in 1 .. b - 1 /\ b - 1 # 0
      BY <1>1
    <2>4. m \in 1 .. b - 1 /\ ~ SortsBefore(order[m], order[a])
      BY <2>3 DEF ChainInv, Top
    <2>5. m \in DOMAIN order /\ m # 0
      BY <1>1, <2>4
    <2>6. SortsBefore(order[b], order[m])
      BY <1>2, <2>2, <2>4, <2>5, SortOrder
    <2>7. m \notin Before(b)
      BY <1>2, <2>5, <2>6, SortOrder
    <2>8. Before(b) = {} \/ \E k \in Before(b) : \A j \in Before(b) : ~ SortsBefore(order[k], order[j])
      <3>1. HasLast(order, order[b].ts, order[b].rank)
        BY <1>2 DEF ChainInv
      <3>2. \A j \in DOMAIN order : SortsBefore(order[j], [ts |-> order[b].ts, rank |-> order[b].rank])
                                      <=> SortsBefore(order[j], order[b])
        BY DEF SortsBefore
      <3>3. {j \in DOMAIN order : SortsBefore(order[j], [ts |-> order[b].ts, rank |-> order[b].rank])} = Before(b)
        BY <3>2
      <3> QED
        BY <3>1, <3>3 DEF HasLast
    <2>9. Predecessor(b) = 0 \/ Predecessor(b) \in Before(b)
      BY <2>8 DEF Predecessor
    <2> QED
      BY <1>4, <2>5, <2>7, <2>9
  <1> QED
    BY <1>3, <1>4 DEF ReplaysExactlyIfOrdered, replay_verify_postgres

\* Steps that leave the table alone keep what ChainInv says of it, and of the
\* emitters but e.
LEMMA EmitStep ==
  ASSUME ChainInv, order' = order, clock' \in Nat,
         NEW e \in Emitters, NEW tx, emitting' = [emitting EXCEPT ![e] = tx],
         EmitInv(e)', tx = NoTx \/ \A f \in Emitters \ {e} : emitting[f] = NoTx
  PROVE  ChainInv'
  <1>1. /\ emitting'[e] = tx /\ \A f \in Emitters \ {e} : emitting'[f] = emitting[f]
        /\ emitting' = [f \in Emitters |-> emitting'[f]]
    BY DEF ChainInv
  <1>2. \A f \in Emitters : EmitInv(f)'
    BY SMTT(60), <1>1 DEF ChainInv, EmitInv, Fresh, Top
  <1>3. \A f, g \in Emitters : f = g \/ emitting'[f] = NoTx \/ emitting'[g] = NoTx
    BY <1>1 DEF ChainInv
  <1> QED
    BY <1>1, <1>2, <1>3 DEF ChainInv

\* A committed row was stamped with the latest row, and nothing was committed
\* since: the advisory lock was held throughout.
LEMMA CommitKeepsChain ==
  ASSUME ChainInv, NEW e \in Emitters, CommitRow(e)
  PROVE  ChainInv'
  <1> DEFINE n == Len(order)
             row == emitting[e].row
  <1>1. /\ order \in Seq(AnyRow) /\ n \in Nat /\ DOMAIN order = 1 .. n
        /\ row \in AnyRow /\ Fresh(row) /\ Top(order, row.prev, n)
    BY DEF ChainInv, CommitRow, EmitInv, NoTx
  <1>2. /\ order' \in Seq(AnyRow) /\ Len(order') = n + 1 /\ DOMAIN order' = 1 .. n + 1
        /\ order'[n + 1] = row /\ \A i \in DOMAIN order : order'[i] = order[i]
    BY <1>1 DEF CommitRow
  <1>3. \A f \in Emitters : f # e => emitting[f] = NoTx
    BY DEF ChainInv, CommitRow, NoTx
  <1>4. /\ emitting' = [f \in Emitters |-> emitting'[f]]
        /\ \A f \in Emitters : emitting'[f] = NoTx
        /\ clock' = clock
    BY <1>3 DEF ChainInv, CommitRow
  <1>5. \A i \in DOMAIN order' : i \in DOMAIN order \/ i = n + 1
    BY <1>1, <1>2
  <1>6. n + 1 \notin DOMAIN order /\ n + 1 \in DOMAIN order'
    BY <1>1, <1>2
  <1>7. /\ \A i \in DOMAIN order : order[i].ts \in Nat /\ order[i].rank \in Nat
        /\ row.ts \in Nat /\ row.rank \in Nat
    <2>1. \A r \in AnyRow : r.ts \in Nat /\ r.rank \in Nat
      BY DEF AnyRow
    <2> QED
      BY <1>1, <2>1, RowKeys
  <1> HIDE DEF n, row
  <1>8. \A i, j \in DOMAIN order' :
          i # j => order'[i].ts # order'[j].ts \/ order'[i].rank # order'[j].rank
    BY SMTT(60), <1>1, <1>2, <1>5 DEF ChainInv, Fresh
  <1>9. \A i \in DOMAIN order' : Top(order', order'[i].prev, i - 1)
    <2>1. ASSUME NEW i \in DOMAIN order PROVE Top(order', order'[i].prev, i - 1)
      <3>1. Top(order, order[i].prev, i - 1)
        BY DEF ChainInv
      <3>2. \A k \in 1 .. i - 1 : k \in DOMAIN order
        BY <1>1
      <3> QED
        BY <1>2, <3>1, <3>2 DEF Top
    <2>2. ASSUME NEW i, i = n + 1 PROVE Top(order', order'[i].prev, i - 1)
      <3>1. i - 1 = n /\ order'[i].prev = row.prev
        BY <1>1, <1>2, <2>2
      <3>2. Top(order', row.prev, n)
        BY <1>1, <1>2 DEF Top
      <3> QED
        BY <3>1, <3>2
    <2>3. ASSUME NEW i \in DOMAIN order' PROVE Top(order', order'[i].prev, i - 1)
      <3>1. CASE i \in DOMAIN order
        BY <2>1, <3>1
      <3>2. CASE i = n + 1
        BY <2>2, <3>2
      <3> QED
        BY <1>5, <3>1, <3>2
    <2> QED
      BY <2>3
  <1>10. ASSUME NEW t \in Nat, NEW k \in Nat PROVE HasLast(order', t, k)
    <2> DEFINE key == [ts |-> t, rank |-> k]
               old == {j \in DOMAIN order : SortsBefore(order[j], key)}
               new == {j \in DOMAIN order' : SortsBefore(order'[j], key)}
    <2>1. new = IF SortsBefore(row, key) THEN old \cup {n + 1} ELSE old
      <3> HIDE DEF key
      <3>0. \A j \in DOMAIN order : j \in DOMAIN order' /\ order'[j] = order[j]
        BY <1>1, <1>2
      <3>1. \A j \in DOMAIN order : j \in new <=> j \in old
        BY <3>0
      <3>2. n + 1 \in new <=> SortsBefore(row, key)
        BY <1>2, <1>6
      <3>3. \A j : (j \in new => j \in DOMAIN order \/ j = n + 1) /\ (j \in old => j \in DOMAIN order)
        BY <1>5
      <3> HIDE DEF new, old
      <3> QED
        BY <1>6, <3>1, <3>2, <3>3
    <2>2. old = {} \/ \E m \in old : \A j \in old : ~ SortsBefore(order[m], order[j])
      BY SMTT(60) DEF ChainInv, HasLast
    <2>3. \A j \in old : j \in DOMAIN order
      OBVIOUS
    <2> HIDE DEF old, new, key
    <2>4. ~ SortsBefore(row, row)
      BY <1>7, SortOrder
    <2>5. CASE ~ SortsBefore(row, key)
      <3>1. new = {} \/ \E m \in new : \A j \in new : ~ SortsBefore(order'[m], order'[j])
        BY <1>2, <2>1, <2>2, <2>3, <2>5
      <3> QED
        BY <3>1 DEF HasLast, new, key
    <2>6. CASE SortsBefore(row, key) /\ old = {}
      <3>1. \E m \in new : \A j \in new : ~ SortsBefore(order'[m], order'[j])
        BY <1>2, <2>1, <2>4, <2>6
      <3> QED
        BY <3>1 DEF HasLast, new, key
    <2>7. CASE SortsBefore(row, key) /\ old # {}
      <3>1. PICK m \in old : \A j \in old : ~ SortsBefore(order[m], order[j])
        BY <2>2, <2>7
      <3>2. SortsBefore(order[m], row) => \A j \in old : ~ SortsBefore(row, order[j])
        BY <1>7, <2>3, <3>1, SortOrder
      <3>3. \E x \in new : \A j \in new : ~ SortsBefore(order'[x], order'[j])
        <4>1. CASE SortsBefore(order[m], row)
          BY <1>2, <2>1, <2>3, <2>4, <2>7, <3>2, <4>1
        <4>2. CASE ~ SortsBefore(order[m], row)
          BY <1>2, <2>1, <2>3, <2>7, <3>1, <4>2
        <4> QED
          BY <4>1, <4>2
      <3> QED
        BY <3>3 DEF HasLast, new, key
    <2> QED
      BY <2>5, <2>6, <2>7
  <1>11. \E m \in Nat : Top(order', m, Len(order'))
    <2>1. PICK m \in Nat : Top(order, m, n)
      BY DEF ChainInv, n
    <2>2. ~ SortsBefore(row, row)
      BY <1>7, SortOrder
    <2>3. CASE n = 0 \/ SortsBefore(order[m], row)
      <3>1. \A j \in DOMAIN order : ~ SortsBefore(row, order[j])
        <4>1. CASE n = 0
          BY <1>1, <4>1
        <4>2. CASE n # 0 /\ SortsBefore(order[m], row)
          <5>1. m \in DOMAIN order /\ \A j \in DOMAIN order : ~ SortsBefore(order[m], order[j])
            BY <1>1, <2>1, <4>2 DEF Top
          <5> QED
            BY <1>7, <4>2, <5>1, SortOrder
        <4> QED
          BY <2>3, <4>1, <4>2
      <3>2. \A j \in DOMAIN order' : ~ SortsBefore(order'[n + 1], order'[j])
        BY <1>2, <1>5, <2>2, <3>1
      <3>3. n + 1 \in Nat /\ n + 1 \in 1 .. n + 1
        BY <1>1
      <3>4. Top(order', n + 1, Len(order'))
        BY <1>2, <3>2, <3>3 DEF Top
      <3> QED
        BY <3>3, <3>4
    <2>4. CASE n # 0 /\ ~ SortsBefore(order[m], row)
      <3>1. m \in DOMAIN order /\ \A j \in DOMAIN order : ~ SortsBefore(order[m], order[j])
        BY <1>1, <2>1, <2>4 DEF Top
      <3>2. \A j \in DOMAIN order' : ~ SortsBefore(order'[m], order'[j])
        BY <1>2, <1>5, <2>4, <3>1
      <3>3. m \in 1 .. n + 1
        BY <1>1, <3>1
      <3> QED
        BY <1>2, <3>2, <3>3 DEF Top
    <2> QED
      BY <2>3, <2>4
  <1>12. clock' \in Nat
    BY <1>4 DEF ChainInv
  <1> QED
    BY <1>2, <1>4, <1>8, <1>9, <1>10, <1>11, <1>12 DEF ChainInv, EmitInv

\* Every step keeps ChainInv.
LEMMA ChainStep ==
  ASSUME ChainInv, [PgNext]_pgVars
  PROVE  ChainInv'
  <1>1. ASSUME NEW e \in Emitters, NEW k \in KindClasses, LockChain(e, k)
        PROVE  ChainInv'
    <2>1. EmitInv(e)'
      BY <1>1 DEF LockChain, EmitInv, ChainInv
    <2>2. clock' \in Nat /\ order' = order
      BY <1>1 DEF LockChain, ChainInv
    <2> QED
      BY <1>1, <2>1, <2>2, EmitStep DEF LockChain
  <1>2. ASSUME NEW e \in Emitters, StampRow(e)
        PROVE  ChainInv'
    <2>0. clock' \in Nat /\ order' = order /\ clock \in Nat
      BY <1>2 DEF StampRow, ChainInv
    <2>1. \A f \in Emitters \ {e} : emitting[f] = NoTx
      BY <1>2 DEF StampRow, ChainInv, NoTx
    <2>2. CASE emitting' = [emitting EXCEPT ![e] = NoTx]
      <3>1. EmitInv(e)'
        BY <2>2 DEF EmitInv, ChainInv
      <3> QED
        BY <2>0, <2>2, <3>1, EmitStep
    <2>3. ASSUME NEW t \in 0 .. clock, NEW k \in Ranks,
                 \A i \in DOMAIN order : <<order[i].ts, order[i].rank>> # <<t, k>>,
                 emitting' = [emitting EXCEPT ![e] =
                   [pc |-> "stamped",
                    row |-> [ts |-> t, rank |-> k, prev |-> LatestRow,
                             kind |-> emitting[e].kind]]]
          PROVE  ChainInv'
      <3> DEFINE row == [ts |-> t, rank |-> k, prev |-> LatestRow, kind |-> emitting[e].kind]
                 tx == [pc |-> "stamped", row |-> row]
      <3>1. emitting[e].kind \in KindClasses
        BY <1>2 DEF StampRow, ChainInv, EmitInv, NoTx
      <3>2. t \in Nat /\ k \in Nat /\ LatestRow \in Nat /\ Top(order, LatestRow, Len(order))
        BY <2>0, LatestIsTop, PostgresAssumption
      <3>3. row \in AnyRow /\ row.prev = LatestRow
        BY <3>1, <3>2 DEF AnyRow
      <3>4. Fresh(row)
        BY <2>3 DEF Fresh
      <3>5. emitting'[e] = tx /\ tx.pc = "stamped" /\ tx.row = row
        BY <2>3 DEF ChainInv
      <3> HIDE DEF row
      <3>6. EmitInv(e)'
        BY <2>0, <3>2, <3>3, <3>4, <3>5 DEF EmitInv, Fresh
      <3>7. emitting' = [emitting EXCEPT ![e] = tx]
        BY <2>3 DEF row
      <3> QED
        BY <2>0, <2>1, <3>6, <3>7, EmitStep
    <2> QED
      BY <1>2, <2>2, <2>3 DEF StampRow
  <1>3. ASSUME NEW e \in Emitters, AbandonEmit(e)
        PROVE  ChainInv'
    <2>1. EmitInv(e)'
      BY <1>3 DEF AbandonEmit, EmitInv, ChainInv
    <2>2. clock' \in Nat /\ order' = order
      BY <1>3 DEF AbandonEmit, ChainInv
    <2> QED
      BY <1>3, <2>1, <2>2, EmitStep DEF AbandonEmit
  <1>4. ASSUME order' = order, emitting' = emitting, clock' \in Nat
        PROVE  ChainInv'
    BY <1>4 DEF ChainInv, EmitInv, Fresh
  <1>5. ClockTick => ChainInv'
    BY <1>4 DEF ClockTick, ChainInv
  <1>6. ASSUME NEW j \in Jobs,
               CountRows(j) \/ ReadAnchorHead(j) \/ AppendAnchor(j)
                 \/ ReadNonce(j) \/ SendTx(j) \/ AnchorFails(j)
        PROVE  ChainInv'
    BY <1>4, <1>6
       DEF ChainInv, CountRows, ReadAnchorHead, AppendAnchor, ReadNonce, SendTx, AnchorFails
  <1>7. UNCHANGED pgVars => ChainInv'
    BY <1>4 DEF pgVars, ChainInv
  <1> QED
    BY <1>1, <1>2, <1>3, <1>5, <1>6, <1>7, CommitKeepsChain DEF PgNext

\* ChainInv holds in every state of the Postgres log.
THEOREM PgChainInvariance == PgSpec => []ChainInv
  <1>1. PgInit => ChainInv
    <2> SUFFICES ASSUME PgInit PROVE ChainInv
      OBVIOUS
    <2>1. order = <<>> /\ clock = 0 /\ emitting = [e \in Emitters |-> NoTx]
      BY DEF PgInit
    <2>2. DOMAIN order = {} /\ Len(order) = 0 /\ order \in Seq(AnyRow)
      BY <2>1
    <2>3. \A t, k \in Nat : HasLast(order, t, k)
      BY <2>2 DEF HasLast
    <2>4. \E m \in Nat : Top(order, m, Len(order))
      BY <2>2 DEF Top
    <2> QED
      BY <2>1, <2>2, <2>3, <2>4 DEF ChainInv, EmitInv
  <1> QED
    BY <1>1, ChainStep, PTL DEF PgSpec

\* For any number of emitters and rows, any skew and any ids, the replay
\* accepts the table exactly if its rows were committed in the readers' order
\* and their kinds decode (postgres.rs emit and replay_verify_postgres).
THEOREM ReplayIsExact == PgSpec => []ReplaysExactlyIfOrdered
  <1>1. ChainInv => ReplaysExactlyIfOrdered
    BY ReplayIffSorted
  <1> QED
    BY <1>1, PgChainInvariance, PTL
-----------------------------------------------------------------------------
\* The table only grows: a payload that is covered stays covered.
LEMMA CoveredStays ==
  ASSUME ChainInv, ChainInv', [PgNext]_pgVars
  PROVE  /\ Len(order) \in Nat /\ Len(order') \in Nat /\ Len(order) <= Len(order')
         /\ Payloads \subseteq Payloads'
  <1>1. /\ order \in Seq(AnyRow) /\ order' \in Seq(AnyRow)
        /\ Len(order) \in Nat /\ Len(order') \in Nat
        /\ DOMAIN order = 1 .. Len(order) /\ DOMAIN order' = 1 .. Len(order')
    BY SMTT(60) DEF ChainInv
  <1>2. /\ Len(order) <= Len(order')
        /\ \A i \in DOMAIN order : i \in DOMAIN order' /\ order'[i] = order[i]
    <2>1. CASE order' = order
      BY <1>1, <2>1
    <2>2. ASSUME NEW e \in Emitters, CommitRow(e)
          PROVE  /\ Len(order) <= Len(order')
                 /\ \A i \in DOMAIN order : i \in DOMAIN order' /\ order'[i] = order[i]
      <3>1. emitting[e].row \in AnyRow /\ order' = Append(order, emitting[e].row)
        BY <2>2 DEF CommitRow, ChainInv, EmitInv, NoTx
      <3> QED
        BY <1>1, <3>1
    <2> QED
      BY <2>1, <2>2
         DEF PgNext, pgVars, LockChain, StampRow, AbandonEmit, ClockTick, CountRows,
             ReadAnchorHead, AppendAnchor, ReadNonce, SendTx, AnchorFails
  <1>3. InSortOrder' => InSortOrder
    BY <1>2 DEF InSortOrder
  <1>4. \A h \in 0 .. Len(order) : h \in 0 .. Len(order')
    BY <1>1, <1>2
  <1> QED
    BY <1>1, <1>2, <1>3, <1>4 DEF Payloads

\* Every step keeps AnchorInv: the rows are counted before the head is read.
LEMMA AnchorStep ==
  ASSUME ChainInv, ChainInv', AnchorInv, [PgNext]_pgVars
  PROVE  AnchorInv'
  <1>1. /\ Len(order) \in Nat /\ Len(order') \in Nat /\ Len(order) <= Len(order')
        /\ Payloads \subseteq Payloads'
    BY CoveredStays
  <1>2. anchored \subseteq Payloads' /\ txs \in Seq(Payloads')
    BY <1>1 DEF AnchorInv
  <1>3. \A j \in Jobs : job'[j] = job[j] => JobInv(j)'
    <2>1. \A c \in 0 .. Len(order) : c \in 0 .. Len(order')
      BY <1>1
    <2> QED
      BY <1>1, <2>1 DEF AnchorInv, JobInv
  <1>4. ASSUME UNCHANGED <<job, anchored, txs>> PROVE AnchorInv'
    BY <1>2, <1>3, <1>4 DEF AnchorInv
  <1>5. ASSUME NEW j \in Jobs, NEW h, job' = [job EXCEPT ![j] = h], JobInv(j)',
               anchored' \subseteq Payloads', txs' \in Seq(Payloads')
        PROVE  AnchorInv'
    BY <1>3, <1>5 DEF AnchorInv
  <1>6. \A j \in Jobs : job' = [job EXCEPT ![j] = NoJob] => JobInv(j)'
    BY DEF AnchorInv, JobInv
  <1>7. ASSUME NEW j \in Jobs, CountRows(j) PROVE AnchorInv'
    <2>1. JobInv(j)'
      BY <1>1, <1>7 DEF CountRows, AnchorInv, JobInv
    <2> QED
      BY <1>2, <1>5, <1>7, <2>1 DEF CountRows
  <1>8. ASSUME NEW j \in Jobs, ReadAnchorHead(j) PROVE AnchorInv'
    <2>0. UNCHANGED <<order, anchored, txs>> /\ job[j].pc = "counted"
      BY <1>8 DEF ReadAnchorHead
    <2>1. CASE job' = [job EXCEPT ![j] = NoJob]
      BY <1>2, <1>5, <1>6, <2>0, <2>1
    <2>2. CASE job' = [job EXCEPT ![j] =
                 [pc |-> "payload",
                  payload |-> [head |-> anchor_head, count |-> job[j].count]]]
      <3>1. job[j].count \in 0 .. Len(order)
        BY <2>0 DEF AnchorInv, JobInv, NoJob
      <3>2. LatestRow \in Nat /\ (InSortOrder => LatestRow = Len(order))
        <4>1. Len(order) \in 0 .. Len(order)
          BY <1>1
        <4> QED
          BY <4>1, LatestIsTop, TopOfSorted
      <3>3. [head |-> anchor_head, count |-> job[j].count] \in Payloads
        BY <1>1, <3>1, <3>2 DEF Payloads, anchor_head
      <3>4. JobInv(j)'
        BY <1>1, <2>2, <3>3 DEF AnchorInv, JobInv
      <3> QED
        BY <1>2, <1>5, <2>0, <2>2, <3>4
    <2> QED
      BY <1>8, <2>1, <2>2 DEF ReadAnchorHead
  <1>9. ASSUME NEW j \in Jobs, AppendAnchor(j) PROVE AnchorInv'
    <2>1. job[j].payload \in Payloads'
      BY <1>1, <1>9 DEF AppendAnchor, AnchorInv, JobInv, NoJob
    <2> QED
      BY <1>2, <1>5, <1>6, <1>9, <2>1 DEF AppendAnchor
  <1>10. ASSUME NEW j \in Jobs, ReadNonce(j) PROVE AnchorInv'
    <2>1. job[j].payload \in Payloads'
      BY <1>1, <1>10 DEF ReadNonce, AnchorInv, JobInv, NoJob
    <2>2. JobInv(j)'
      BY <1>10, <2>1 DEF ReadNonce, AnchorInv, JobInv
    <2> QED
      BY <1>2, <1>5, <1>10, <2>2 DEF ReadNonce
  <1>11. ASSUME NEW j \in Jobs, SendTx(j) PROVE AnchorInv'
    <2>1. job[j].payload \in Payloads'
      BY <1>1, <1>11 DEF SendTx, AnchorInv, JobInv, NoJob
    <2>2. txs' \in Seq(Payloads')
      BY <1>2, <1>11, <2>1 DEF SendTx
    <2> QED
      BY <1>2, <1>5, <1>6, <1>11, <2>2 DEF SendTx
  <1>12. ASSUME NEW j \in Jobs, AnchorFails(j) PROVE AnchorInv'
    BY <1>2, <1>5, <1>6, <1>12 DEF AnchorFails
  <1>13. ASSUME NEW e \in Emitters,
                (\E k \in KindClasses : LockChain(e, k)) \/ StampRow(e) \/ CommitRow(e) \/ AbandonEmit(e)
         PROVE  AnchorInv'
    BY <1>4, <1>13 DEF LockChain, StampRow, CommitRow, AbandonEmit
  <1> QED
    BY <1>4, <1>7, <1>8, <1>9, <1>10, <1>11, <1>12, <1>13 DEF PgNext, ClockTick, pgVars

\* For any number of emitters, jobs and rows: as long as the rows are in sort
\* order, no anchor, in a file or on chain, says more events than the head it
\* commits to covers (anchor.rs anchor_payload, chain_anchor.rs submit).
THEOREM AnchorsAreCovered == PgSpec => []AnchorNeverOvercounts
  <1>1. PgInit => AnchorInv
    BY DEF PgInit, AnchorInv, JobInv
  <1>2. AnchorInv => AnchorNeverOvercounts
    <2> SUFFICES ASSUME AnchorInv PROVE AnchorNeverOvercounts
      OBVIOUS
    <2>1. \A i \in DOMAIN txs : txs[i] \in Payloads
      BY DEF AnchorInv
    <2> QED
      BY <2>1 DEF AnchorInv, AnchorNeverOvercounts, Payloads
  <1> QED
    BY <1>1, <1>2, AnchorStep, PgChainInvariance, PTL DEF PgSpec
=============================================================================
