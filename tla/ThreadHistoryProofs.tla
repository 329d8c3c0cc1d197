------------------------ MODULE ThreadHistoryProofs -------------------------
(***************************************************************************)
(* A completed clear is true of every observer, counts every row once, and  *)
(* an acknowledged intent holds for ever: for any number of threads, rows,  *)
(* runs, processes and readers, and every order of their transactions.      *)
(***************************************************************************)
EXTENDS ThreadHistory, FiniteSetTheorems, TLAPS

-----------------------------------------------------------------------------
(* The inductive invariant. *)

Kinds == {"none", "write", "begin", "locked", "inserted", "maintain", "batch", "complete"}
Shared == {"write", "begin", "batch"}
Exclusive == {"locked", "inserted", "maintain", "complete"}
Clearing == {"batch", "complete"}

Items == Rows \cup Runs \cup Requests \cup {Nothing}

TxRecords ==
    [kind : Kinds, thread : Threads \cup {Nothing}, item : Items,
     actor : Askers \cup {Nothing}, rows : SUBSET Rows, xid : Nat]

IntentRecords ==
    [kind : {"none", "stop_clear", "maintenance_clear"}, request : Requests \cup {Nothing},
     actor : Askers \cup {Nothing}, op : Nat]

BatchRecords == [xid : Nat, rows : Nat]

SnapshotRecords == [xmin : Nat, sees : SUBSET (Threads \X Rows)]

HistoryShapes ==
    /\ head \in [Threads -> {"open", "closed"}]
    /\ intent \in [Threads -> IntentRecords]
    /\ deleted \subseteq Threads
    /\ row \in [Threads -> [Rows -> {"absent", "content", "cleared"}]]
    /\ run \in [Threads -> [Runs -> {"absent", "running", "terminal"}]]
    /\ acceptance \in [Threads -> [Runs -> {"none", "actor", "history"}]]
    /\ batches \in [Threads -> Seq(BatchRecords)]
    /\ completion \in [Threads -> [batches : Nat, rows : Nat]]
    /\ audits \in [Threads -> Nat]
    /\ tx \in [Procs -> TxRecords]
    /\ snapshot \in [Readers -> SnapshotRecords]
    /\ nextXid \in 1..MaxXid
    /\ acks \subseteq [thread : Threads, intent : IntentRecords]
    /\ conflicts \subseteq [thread : Threads, request : Requests, actor : Askers]

\* What an open transaction may rely on: what it read under its locks still holds.
TxHolds(r) ==
    /\ r.kind # "none" => r.thread \in Threads
    /\ r.kind = "write" => r.item \in Rows
    /\ r.kind = "begin" => r.item \in Runs
    /\ r.kind \in {"locked", "inserted"} => r.item \in Requests /\ r.actor \in Askers
    /\ r.kind \in {"write", "begin", "locked", "inserted", "maintain"} => Open(r.thread)
    /\ r.kind = "inserted" => ~UsedElsewhere(r.item, r.thread)
    /\ r.kind \in Clearing => ~Open(r.thread) /\ ~Completed(r.thread)
    /\ r.kind = "batch" => r.rows \subseteq Content(r.thread)

TransactionsHold == \A p \in Procs : TxHolds(tx[p])

\* Ids are handed out in order.
IdsBelow == \A p \in Procs : tx[p].kind # "none" => tx[p].xid < nextXid

\* The locks of the head and of the intent, and the unique key of the request.
Compatible(r, s) ==
    /\ r.thread = s.thread => /\ ~(r.kind \in Exclusive /\ s.kind \in Exclusive \cup Shared)
                              /\ ~(s.kind \in Exclusive /\ r.kind \in Exclusive \cup Shared)
                              /\ ~(r.kind \in Clearing /\ s.kind \in Clearing)
    /\ r.kind = "inserted" /\ s.kind = "inserted" => r.item # s.item

LocksExclude == \A p, q \in Procs : p # q => Compatible(tx[p], tx[q])

\* An intent and a closed head exist together.
IntentsClose ==
    \A t \in Threads :
        /\ head[t] = "open" => intent[t] = NoIntent
        /\ head[t] = "closed" => intent[t].kind # "none"

\* What was answered: an acknowledged intent closed its thread; a refused request met
\* a thread that another intent had closed or was used for another thread.
AnswersHold ==
    /\ \A k \in acks : ~Open(k.thread) /\ intent[k.thread] = k.intent
    /\ \A c \in conflicts :
          /\ ~Replays(intent[c.thread], c.request, c.actor)
          /\ ~Open(c.thread) \/ UsedElsewhere(c.request, c.thread)

\* Every cleared row is in one batch, and the completion is made of the batches.
ClearedCounted ==
    \A t \in Threads :
        /\ CountRows(batches[t]) = Cardinality(Cleared(t))
        /\ audits[t] = IF Completed(t) THEN 1 ELSE 0
        /\ Completed(t) =>
              /\ ~Open(t) /\ Content(t) = {} /\ Running(t) = {}
              /\ completion[t] = [batches |-> Len(batches[t]), rows |-> CountRows(batches[t])]

\* A snapshot is no younger than any transaction in progress, and what it sees is there
\* or was cleared by a transaction it may have met.
SnapshotsBounded ==
    \A x \in Readers :
        /\ snapshot[x].xmin <= nextXid
        /\ \A p \in Procs : tx[p].kind # "none" => snapshot[x].xmin <= tx[p].xid
        /\ \A t \in Threads, b \in Rows : <<t, b>> \in snapshot[x].sees =>
              /\ ~Completed(t)
              /\ row[t][b] = "content"
                 \/ (batches[t] # <<>> /\ snapshot[x].xmin <= LastBatch(t))

HistoryInv ==
    /\ HistoryShapes
    /\ TransactionsHold
    /\ IdsBelow
    /\ LocksExclude
    /\ IntentsClose
    /\ RequestClosesOneThread
    /\ AnswersHold
    /\ ClearedCounted
    /\ SnapshotsBounded

-----------------------------------------------------------------------------
(* Natural numbers: the least one of a set, and induction as a closed set. *)

\* Every set of naturals has a least one: the intervals below its members are finite
\* sets, and those have a least one by inclusion.
LEMMA LeastExists ==
    ASSUME NEW T, T \subseteq Nat, T # {}
    PROVE  \E m \in T : \A n \in T : m <= n
  <1> DEFINE U == {0..n : n \in T}
             R == StrictSubsetOrdering(Nat)
  <1>1. U \subseteq FiniteSubsetsOf(Nat)
    <2>1. ASSUME NEW n \in T
          PROVE  0..n \in FiniteSubsetsOf(Nat)
      <3>1. n \in Int /\ 0 \in Int
        OBVIOUS
      <3>2. IsFiniteSet(0..n)
        BY <3>1, FS_Interval
      <3> QED BY <3>2 DEF FiniteSubsetsOf
    <2> QED BY <2>1
  <1>2. U # {}
    OBVIOUS
  <1>3. IsWellFoundedOn(R, FiniteSubsetsOf(Nat))
    BY FS_StrictSubsetOrderingWellFounded
  <1> HIDE DEF U
  <1>4. \E x \in U : \A y \in U : ~(<<y, x>> \in R)
    BY <1>1, <1>2, <1>3, WFMin
  <1> USE DEF U
  <1>5. PICK m \in T : \A n \in T : ~(<<0..n, 0..m>> \in R)
    BY <1>4
  <1>6. ASSUME NEW n \in T, n < m
        PROVE  <<0..n, 0..m>> \in R
    <2>1. n \in Nat /\ m \in Nat
      OBVIOUS
    <2>2. 0..n \subseteq 0..m /\ 0..m \subseteq Nat
      BY <1>6, <2>1
    <2>3. m \in 0..m /\ m \notin 0..n
      BY <1>6, <2>1
    <2> QED BY <2>2, <2>3 DEF StrictSubsetOrdering
  <1>7. ASSUME NEW n \in T
        PROVE  m <= n
    <2>1. n \in Nat /\ m \in Nat
      OBVIOUS
    <2>2. ~(n < m)
      BY <1>5, <1>6
    <2> QED BY <2>1, <2>2
  <1> QED BY <1>7

\* A set with zero that is closed under successor has every natural.
LEMMA InductiveSet ==
    ASSUME NEW S, 0 \in S, \A n \in Nat : n \in S => n + 1 \in S
    PROVE  \A n \in Nat : n \in S
  <1> DEFINE T == {n \in Nat : n \notin S}
  <1>1. SUFFICES ASSUME T # {} PROVE FALSE
    OBVIOUS
  <1>2. PICK m \in T : \A n \in T : m <= n
    BY <1>1, LeastExists
  <1>3. m # 0 /\ m \in Nat
    BY <1>2
  <1>4. m - 1 \in Nat /\ m - 1 \notin T
    BY <1>2, <1>3
  <1>5. m - 1 \in S
    BY <1>4
  <1>6. (m - 1) + 1 \in S
    BY <1>4, <1>5
  <1> QED BY <1>2, <1>3, <1>6

-----------------------------------------------------------------------------
(* The rows of the batches. *)

\* g sums the rows of the first n batches.
Sums(g, bs, n) ==
    /\ g \in [0..n -> Nat]
    /\ \A k \in 0..n : g[k] = IF k = 0 THEN 0 ELSE g[k - 1] + bs[k].rows

LEMMA SumsExist ==
    ASSUME NEW bs, bs \in Seq(BatchRecords)
    PROVE  \E g : Sums(g, bs, Len(bs))
  <1> DEFINE S == {n \in Nat : n <= Len(bs) => \E g : Sums(g, bs, n)}
  <1>1. 0 \in S
    <2>1. Sums([k \in 0..0 |-> 0], bs, 0)
      BY DEF Sums
    <2> QED BY <2>1
  <1>2. ASSUME NEW n \in Nat, n \in S
        PROVE  n + 1 \in S
    <2>1. SUFFICES ASSUME n + 1 <= Len(bs)
                   PROVE  \E g : Sums(g, bs, n + 1)
      OBVIOUS
    <2>2. PICK g : Sums(g, bs, n)
      BY <1>2, <2>1
    <2> DEFINE h == [k \in 0..(n + 1) |-> IF k <= n THEN g[k] ELSE g[n] + bs[n + 1].rows]
    <2>3. bs[n + 1] \in BatchRecords /\ bs[n + 1].rows \in Nat
      <3>1. n + 1 \in 1..Len(bs)
        BY <2>1
      <3>2. bs[n + 1] \in BatchRecords
        BY <3>1
      <3> QED BY <3>2 DEF BatchRecords
    <2>4. g[n] \in Nat
      BY <2>2 DEF Sums
    <2>5. h \in [0..(n + 1) -> Nat]
      BY <2>2, <2>3, <2>4 DEF Sums
    <2>6. ASSUME NEW k \in 0..(n + 1)
          PROVE  h[k] = IF k = 0 THEN 0 ELSE h[k - 1] + bs[k].rows
      <3>1. CASE k <= n
        BY <2>2, <3>1 DEF Sums
      <3>2. CASE k = n + 1
        BY <2>2, <3>2 DEF Sums
      <3> QED BY <3>1, <3>2
    <2>7. Sums(h, bs, n + 1)
      BY <2>5, <2>6 DEF Sums
    <2> QED BY <2>7
  <1> HIDE DEF S
  <1>3. \A n \in Nat : n \in S
    BY <1>1, <1>2, InductiveSet
  <1>4. Len(bs) \in Nat /\ Len(bs) \in S
    BY <1>3
  <1> QED BY <1>4 DEF S

\* The count is the last of the sums.
LEMMA CountIsSum ==
    ASSUME NEW bs, bs \in Seq(BatchRecords), NEW g, Sums(g, bs, Len(bs))
    PROVE  CountRows(bs) = g[Len(bs)]
  <1> DEFINE D(f) == [n \in 0..Len(bs) |-> IF n = 0 THEN 0 ELSE f[n - 1] + bs[n].rows]
             F == CHOOSE f : f = D(f)
  <1>1. CountRows(bs) = F[Len(bs)]
    BY DEF CountRows
  <1>2. g = D(g)
    BY DEF Sums
  <1>3. F = D(F)
    BY <1>2
  <1> DEFINE S == {n \in Nat : n <= Len(bs) => F[n] = g[n]}
  <1>4. Len(bs) \in Nat
    OBVIOUS
  <1>5. \A n \in 0..Len(bs) : F[n] = IF n = 0 THEN 0 ELSE F[n - 1] + bs[n].rows
    <2> HIDE DEF F
    <2> QED BY <1>3
  <1> HIDE DEF F, D
  <1>6. 0 \in S
    BY <1>4, <1>5 DEF Sums
  <1>7. ASSUME NEW n \in Nat, n \in S
        PROVE  n + 1 \in S
    <2>1. SUFFICES ASSUME n + 1 <= Len(bs)
                   PROVE  F[n + 1] = g[n + 1]
      OBVIOUS
    <2>2. n + 1 \in 0..Len(bs) /\ n + 1 # 0 /\ (n + 1) - 1 = n
      BY <1>4, <2>1
    <2>3. F[n] = g[n]
      BY <1>4, <1>7, <2>1
    <2> QED BY <1>5, <2>2, <2>3 DEF Sums
  <1> HIDE DEF S
  <1>8. \A n \in Nat : n \in S
    BY <1>6, <1>7, InductiveSet
  <1>9. F[Len(bs)] = g[Len(bs)]
    BY <1>4, <1>8 DEF S
  <1> QED BY <1>1, <1>9

\* No batch, no row; and one more batch adds its rows.
LEMMA CountEmpty == CountRows(<<>>) = 0
  <1>1. <<>> \in Seq(BatchRecords) /\ Len(<<>>) = 0
    OBVIOUS
  <1>2. Sums([k \in 0..0 |-> 0], <<>>, 0)
    BY DEF Sums
  <1> DEFINE g == [k \in 0..0 |-> 0]
  <1>3. g[0] = 0
    OBVIOUS
  <1> HIDE DEF g
  <1>4. Sums(g, <<>>, Len(<<>>))
    BY <1>1, <1>2 DEF g
  <1>5. CountRows(<<>>) = g[Len(<<>>)]
    BY <1>1, <1>4, CountIsSum
  <1> QED BY <1>1, <1>3, <1>5

LEMMA CountAppend ==
    ASSUME NEW bs, bs \in Seq(BatchRecords), NEW e, e \in BatchRecords
    PROVE  CountRows(Append(bs, e)) = CountRows(bs) + e.rows
  <1> DEFINE cs == Append(bs, e)
             n == Len(bs)
  <1>1. /\ cs \in Seq(BatchRecords) /\ Len(cs) = n + 1 /\ n \in Nat
        /\ cs[n + 1] = e /\ \A k \in 1..n : cs[k] = bs[k]
    OBVIOUS
  <1>2. PICK g : Sums(g, bs, n)
    BY SumsExist
  <1>3. e.rows \in Nat /\ g[n] \in Nat
    BY <1>1, <1>2 DEF Sums, BatchRecords
  <1> HIDE DEF cs, n
  <1> DEFINE h == [k \in 0..(n + 1) |-> IF k <= n THEN g[k] ELSE g[n] + e.rows]
  <1>4. h \in [0..(n + 1) -> Nat]
    BY <1>1, <1>2, <1>3 DEF Sums
  <1>5. ASSUME NEW k \in 0..(n + 1)
        PROVE  h[k] = IF k = 0 THEN 0 ELSE h[k - 1] + cs[k].rows
    <2>1. CASE k <= n
      BY <1>1, <1>2, <2>1 DEF Sums
    <2>2. CASE k = n + 1
      BY <1>1, <1>2, <2>2 DEF Sums
    <2> QED BY <1>1, <2>1, <2>2
  <1>6. Sums(h, cs, n + 1)
    BY <1>4, <1>5 DEF Sums
  <1>7. h[n + 1] = g[n] + e.rows
    BY <1>1
  <1> HIDE DEF h
  <1>8. Sums(h, cs, Len(cs))
    BY <1>1, <1>6
  <1>9. CountRows(cs) = h[Len(cs)]
    BY <1>1, <1>8, CountIsSum
  <1>10. CountRows(bs) = g[n]
    BY <1>2, CountIsSum DEF n
  <1> QED BY <1>1, <1>7, <1>9, <1>10 DEF cs

-----------------------------------------------------------------------------
(* Transactions that begin and end. *)

\* A lock is refused while somebody else has it.
LEMMA FreeMeansCompatible ==
    ASSUME HistoryInv, NEW t, t \in Threads, NEW p, p \in Procs,
           NEW r, r \in TxRecords, r.thread = t, r.kind # "inserted",
           \/ r.kind \in {"write", "begin"} /\ HeadShareable(t)
           \/ r.kind = "batch" /\ HeadShareable(t) /\ IntentFree(t)
           \/ r.kind \in {"locked", "maintain"} /\ HeadFree(t)
           \/ r.kind = "complete" /\ HeadFree(t) /\ IntentFree(t)
    PROVE  \A q \in Procs : Compatible(r, tx[q]) /\ Compatible(tx[q], r)
  <1> SUFFICES ASSUME NEW q \in Procs
               PROVE  Compatible(r, tx[q]) /\ Compatible(tx[q], r)
    OBVIOUS
  <1>1. tx[q].thread # t => Compatible(r, tx[q]) /\ Compatible(tx[q], r)
    BY DEF Compatible
  <1>2. CASE tx[q].thread = t
    BY <1>2 DEF Compatible, HeadShareable, HeadFree, IntentFree, Sharing, Excluding, On,
                Shared, Exclusive, Clearing
  <1> QED BY <1>1, <1>2

\* A transaction that begins with what its locks and its reads give it.
LEMMA TxBegins ==
    ASSUME HistoryAssumption, HistoryInv, NEW p, p \in Procs, NEW r, r \in TxRecords,
           r.kind # "none", r.xid = nextXid, nextXid < MaxXid,
           tx' = [tx EXCEPT ![p] = r], nextXid' = nextXid + 1,
           UNCHANGED <<head, intent, deleted, history, records, snapshot, answers>>,
           TxHolds(r), \A q \in Procs : Compatible(r, tx[q]) /\ Compatible(tx[q], r)
    PROVE  HistoryInv'
  <1> USE DEF HistoryInv, HistoryAssumption
  <1>1. UNCHANGED <<head, intent, deleted, row, run, acceptance, batches, completion, audits,
                    snapshot, acks, conflicts>>
    BY DEF history, records, answers
  <1>2. /\ tx' \in [Procs -> TxRecords] /\ tx'[p] = r
        /\ \A q \in Procs : q # p => tx'[q] = tx[q]
    BY DEF HistoryShapes
  <1>3. nextXid \in Nat /\ nextXid' \in 1..MaxXid /\ r.xid < nextXid'
    BY DEF HistoryShapes
  <1>4. HistoryShapes'
    BY <1>1, <1>2, <1>3 DEF HistoryShapes
  <1>5. TransactionsHold'
    BY <1>1, <1>2 DEF TransactionsHold, TxHolds, Open, Completed, Content, UsedElsewhere
  <1>6. IdsBelow'
    BY <1>2, <1>3 DEF IdsBelow, HistoryShapes, TxRecords
  <1>7. LocksExclude'
    BY <1>2 DEF LocksExclude
  <1>8. IntentsClose' /\ RequestClosesOneThread' /\ AnswersHold'
    BY <1>1 DEF IntentsClose, RequestClosesOneThread, AnswersHold, Open, UsedElsewhere
  <1>9. ClearedCounted'
    BY <1>1 DEF ClearedCounted, Completed, Content, Running, Cleared, Open
  <1>10. SnapshotsBounded'
    BY <1>1, <1>2, <1>3
       DEF SnapshotsBounded, Completed, LastBatch, HistoryShapes, SnapshotRecords
  <1> QED BY <1>4, <1>5, <1>6, <1>7, <1>8, <1>9, <1>10

\* A transaction that ends leaves the others as they are.
LEMMA TxEnds ==
    ASSUME HistoryInv, NEW p, p \in Procs, End(p), UNCHANGED nextXid
    PROVE  /\ tx' \in [Procs -> TxRecords] /\ tx'[p].kind = "none"
           /\ \A q \in Procs : q # p => tx'[q] = tx[q]
           /\ LocksExclude'
           /\ IdsBelow'
  <1> USE DEF HistoryInv
  <1>1. NoTx \in TxRecords /\ NoTx.kind = "none"
    BY DEF NoTx, TxRecords, Kinds, Items
  <1>2. /\ tx' \in [Procs -> TxRecords] /\ tx'[p] = NoTx
        /\ \A q \in Procs : q # p => tx'[q] = tx[q]
    BY <1>1 DEF End, HistoryShapes
  <1>3. LocksExclude'
    BY <1>1, <1>2 DEF LocksExclude, Compatible, Exclusive, Shared, Clearing
  <1>4. IdsBelow'
    BY <1>1, <1>2 DEF IdsBelow
  <1> QED BY <1>1, <1>2, <1>3, <1>4

\* A transaction that neither exists nor can be harmed promises nothing.
LEMMA NoneHolds ==
    ASSUME NEW r, r.kind = "none"
    PROVE  TxHolds(r) /\ TxHolds(r)'
  BY DEF TxHolds, Clearing

-----------------------------------------------------------------------------
(* Every action keeps the invariant: the ones that begin a transaction. *)

\* A writer is admitted.
LEMMA WriteKeeps ==
    ASSUME HistoryAssumption, HistoryInv, NEW p, p \in Procs, NEW t, t \in Threads,
           NEW b, b \in Rows, write(p, t, b)
    PROVE  HistoryInv'
  <1>1. PICK r : r = [kind |-> "write", thread |-> t, item |-> b, actor |-> Nothing,
                     rows |-> {}, xid |-> nextXid]
    OBVIOUS
  <1>2. /\ tx' = [tx EXCEPT ![p] = r] /\ nextXid' = nextXid + 1 /\ nextXid < MaxXid
        /\ UNCHANGED <<head, intent, deleted, history, records, snapshot, answers>>
    BY <1>1 DEF write, Begin, answers, history, records
  <1>3. r \in TxRecords
    BY <1>1 DEF TxRecords, Kinds, Items, HistoryInv, HistoryShapes, Content
  <1>4. /\ r.kind = "write"
        /\ r.thread = t
        /\ r.item = b
        /\ r.actor = Nothing
        /\ r.rows = {}
        /\ r.xid = nextXid
    BY <1>1
  <1>5. TxHolds(r)
    BY <1>4 DEF TxHolds, write, Clearing
  <1>6. \A q \in Procs : Compatible(r, tx[q]) /\ Compatible(tx[q], r)
    BY <1>3, <1>4, FreeMeansCompatible DEF write
  <1> QED BY <1>2, <1>3, <1>4, <1>5, <1>6, TxBegins

\* A run is admitted.
LEMMA BeginRunKeeps ==
    ASSUME HistoryAssumption, HistoryInv, NEW p, p \in Procs, NEW t, t \in Threads,
           NEW u, u \in Runs, begin_run(p, t, u)
    PROVE  HistoryInv'
  <1>1. PICK r : r = [kind |-> "begin", thread |-> t, item |-> u, actor |-> Nothing,
                     rows |-> {}, xid |-> nextXid]
    OBVIOUS
  <1>2. /\ tx' = [tx EXCEPT ![p] = r] /\ nextXid' = nextXid + 1 /\ nextXid < MaxXid
        /\ UNCHANGED <<head, intent, deleted, history, records, snapshot, answers>>
    BY <1>1 DEF begin_run, Begin, answers, history, records
  <1>3. r \in TxRecords
    BY <1>1 DEF TxRecords, Kinds, Items, HistoryInv, HistoryShapes, Content
  <1>4. /\ r.kind = "begin"
        /\ r.thread = t
        /\ r.item = u
        /\ r.actor = Nothing
        /\ r.rows = {}
        /\ r.xid = nextXid
    BY <1>1
  <1>5. TxHolds(r)
    BY <1>4 DEF TxHolds, begin_run, Clearing
  <1>6. \A q \in Procs : Compatible(r, tx[q]) /\ Compatible(tx[q], r)
    BY <1>3, <1>4, FreeMeansCompatible DEF begin_run
  <1> QED BY <1>2, <1>3, <1>4, <1>5, <1>6, TxBegins

\* Maintenance takes the head.
LEMMA MaintainKeeps ==
    ASSUME HistoryAssumption, HistoryInv, NEW p, p \in Procs, NEW t, t \in Threads, maintain(p, t)
    PROVE  HistoryInv'
  <1>1. PICK r : r = [kind |-> "maintain", thread |-> t, item |-> Nothing, actor |-> Nothing,
                     rows |-> {}, xid |-> nextXid]
    OBVIOUS
  <1>2. /\ tx' = [tx EXCEPT ![p] = r] /\ nextXid' = nextXid + 1 /\ nextXid < MaxXid
        /\ UNCHANGED <<head, intent, deleted, history, records, snapshot, answers>>
    BY <1>1 DEF maintain, Begin, answers, history, records
  <1>3. r \in TxRecords
    BY <1>1 DEF TxRecords, Kinds, Items, HistoryInv, HistoryShapes, Content
  <1>4. /\ r.kind = "maintain"
        /\ r.thread = t
        /\ r.item = Nothing
        /\ r.actor = Nothing
        /\ r.rows = {}
        /\ r.xid = nextXid
    BY <1>1
  <1>5. TxHolds(r)
    BY <1>4 DEF TxHolds, maintain, Clearing
  <1>6. \A q \in Procs : Compatible(r, tx[q]) /\ Compatible(tx[q], r)
    BY <1>3, <1>4, FreeMeansCompatible DEF maintain
  <1> QED BY <1>2, <1>3, <1>4, <1>5, <1>6, TxBegins

\* The two actions that choose: with the rows, and with the head that is free.
ClearsBatch(p, t, s) ==
    /\ ~Open(t) /\ IntentFree(t) /\ HeadShareable(t) /\ ~Completed(t)
    /\ Begin(p, "batch", t, Nothing, Nothing, s)
    /\ UNCHANGED <<head, intent, deleted, history, records, snapshot, answers>>

LocksHead(p, t, q, a) ==
    /\ Open(t) /\ HeadFree(t)
    /\ Begin(p, "locked", t, q, a, {})
    /\ UNCHANGED <<head, intent, deleted, history, records, snapshot, answers>>

\* A batch takes rows that are there.
LEMMA ClearBatchKeeps ==
    ASSUME HistoryAssumption, HistoryInv, NEW p, p \in Procs, NEW t, t \in Threads,
           NEW s, s \in SUBSET Content(t), ClearsBatch(p, t, s)
    PROVE  HistoryInv'
  <1>1. PICK r : r = [kind |-> "batch", thread |-> t, item |-> Nothing, actor |-> Nothing,
                     rows |-> s, xid |-> nextXid]
    OBVIOUS
  <1>2. /\ tx' = [tx EXCEPT ![p] = r] /\ nextXid' = nextXid + 1 /\ nextXid < MaxXid
        /\ UNCHANGED <<head, intent, deleted, history, records, snapshot, answers>>
    BY <1>1 DEF ClearsBatch, Begin, answers, history, records
  <1>3. r \in TxRecords
    BY <1>1 DEF TxRecords, Kinds, Items, HistoryInv, HistoryShapes, Content
  <1>4. /\ r.kind = "batch"
        /\ r.thread = t
        /\ r.item = Nothing
        /\ r.actor = Nothing
        /\ r.rows = s
        /\ r.xid = nextXid
    BY <1>1
  <1>5. TxHolds(r)
    BY <1>4 DEF TxHolds, ClearsBatch, Clearing
  <1>6. \A q \in Procs : Compatible(r, tx[q]) /\ Compatible(tx[q], r)
    BY <1>3, <1>4, FreeMeansCompatible DEF ClearsBatch
  <1> QED BY <1>2, <1>3, <1>4, <1>5, <1>6, TxBegins

\* The completion takes the head and the intent.
LEMMA ClearCompletionKeeps ==
    ASSUME HistoryAssumption, HistoryInv, NEW p, p \in Procs, NEW t, t \in Threads,
           clear_completion(p, t)
    PROVE  HistoryInv'
  <1>1. PICK r : r = [kind |-> "complete", thread |-> t, item |-> Nothing, actor |-> Nothing,
                     rows |-> {}, xid |-> nextXid]
    OBVIOUS
  <1>2. /\ tx' = [tx EXCEPT ![p] = r] /\ nextXid' = nextXid + 1 /\ nextXid < MaxXid
        /\ UNCHANGED <<head, intent, deleted, history, records, snapshot, answers>>
    BY <1>1 DEF clear_completion, Begin, answers, history, records
  <1>3. r \in TxRecords
    BY <1>1 DEF TxRecords, Kinds, Items, HistoryInv, HistoryShapes, Content
  <1>4. /\ r.kind = "complete"
        /\ r.thread = t
        /\ r.item = Nothing
        /\ r.actor = Nothing
        /\ r.rows = {}
        /\ r.xid = nextXid
    BY <1>1
  <1>5. TxHolds(r)
    BY <1>4 DEF TxHolds, clear_completion, Clearing
  <1>6. \A q \in Procs : Compatible(r, tx[q]) /\ Compatible(tx[q], r)
    BY <1>3, <1>4, FreeMeansCompatible DEF clear_completion
  <1> QED BY <1>2, <1>3, <1>4, <1>5, <1>6, TxBegins

\* A closer takes the head.
LEMMA LockHeadKeeps ==
    ASSUME HistoryAssumption, HistoryInv, NEW p, p \in Procs, NEW t, t \in Threads,
           NEW q, q \in Requests, NEW a, a \in Askers, LocksHead(p, t, q, a)
    PROVE  HistoryInv'
  <1>1. PICK r : r = [kind |-> "locked", thread |-> t, item |-> q, actor |-> a,
                     rows |-> {}, xid |-> nextXid]
    OBVIOUS
  <1>2. /\ tx' = [tx EXCEPT ![p] = r] /\ nextXid' = nextXid + 1 /\ nextXid < MaxXid
        /\ UNCHANGED <<head, intent, deleted, history, records, snapshot, answers>>
    BY <1>1 DEF LocksHead, Begin, answers, history, records
  <1>3. r \in TxRecords
    BY <1>1 DEF TxRecords, Kinds, Items, HistoryInv, HistoryShapes, Content
  <1>4. /\ r.kind = "locked"
        /\ r.thread = t
        /\ r.item = q
        /\ r.actor = a
        /\ r.rows = {}
        /\ r.xid = nextXid
    BY <1>1
  <1>5. TxHolds(r)
    BY <1>4 DEF TxHolds, LocksHead, Clearing
  <1>6. \A o \in Procs : Compatible(r, tx[o]) /\ Compatible(tx[o], r)
    BY <1>3, <1>4, FreeMeansCompatible DEF LocksHead
  <1> QED BY <1>2, <1>3, <1>4, <1>5, <1>6, TxBegins

-----------------------------------------------------------------------------
(* The ones that end a transaction. *)

\* A commit of a writer: its thread is open, so nothing counts on its bodies or runs.
LEMMA WriteCommitKeeps ==
    ASSUME HistoryAssumption, HistoryInv, NEW p, p \in Procs, write_commit(p)
    PROVE  HistoryInv'
  <1> DEFINE t == tx[p].thread
             i == tx[p].item
  <1> USE DEF HistoryInv, HistoryAssumption
  <1>1. UNCHANGED <<head, intent, deleted, acceptance, batches, completion, audits, snapshot,
                    nextXid, acks, conflicts>>
    BY DEF write_commit, records, answers
  <1>2. /\ tx' \in [Procs -> TxRecords] /\ tx'[p].kind = "none"
        /\ \A q \in Procs : q # p => tx'[q] = tx[q]
        /\ LocksExclude'
        /\ IdsBelow'
    BY <1>1, TxEnds DEF write_commit
  <1>3. TxHolds(tx[p])
    BY DEF TransactionsHold
  <1>4. t \in Threads /\ Open(t)
    BY <1>3 DEF TxHolds, write_commit
  <1>5. \/ /\ i \in Rows
           /\ row' = [row EXCEPT ![t][i] = IF @ = "absent" THEN "content" ELSE @]
           /\ run' = run
        \/ /\ i \in Runs
           /\ run' = [run EXCEPT ![t][i] = IF @ = "absent" THEN "running" ELSE @]
           /\ row' = row
    BY <1>3 DEF TxHolds, write_commit
  <1> HIDE DEF t, i
  <1>6. /\ row' \in [Threads -> [Rows -> {"absent", "content", "cleared"}]]
        /\ \A u \in Threads : u # t => row'[u] = row[u]
        /\ \A b \in Rows : \/ row'[t][b] = row[t][b]
                           \/ row[t][b] = "absent" /\ row'[t][b] = "content"
    <2>1. row[t] \in [Rows -> {"absent", "content", "cleared"}]
      BY <1>4 DEF HistoryShapes
    <2>2. CASE row' = row
      BY <2>2 DEF HistoryShapes
    <2>3. CASE i \in Rows /\ row' = [row EXCEPT ![t][i] = IF @ = "absent" THEN "content" ELSE @]
      <3>1. row'[t] = [row[t] EXCEPT ![i] = IF @ = "absent" THEN "content" ELSE @]
        BY <1>4, <2>3 DEF HistoryShapes
      <3>2. row'[t] \in [Rows -> {"absent", "content", "cleared"}]
        BY <2>1, <2>3, <3>1
      <3>3. \A u \in Threads : u # t => row'[u] = row[u]
        BY <2>3 DEF HistoryShapes
      <3>4. row' \in [Threads -> [Rows -> {"absent", "content", "cleared"}]]
        BY <2>3, <3>2, <3>3 DEF HistoryShapes
      <3> QED BY <2>1, <2>3, <3>1, <3>3, <3>4
    <2> QED BY <1>5, <2>2, <2>3
  <1>7. /\ run' \in [Threads -> [Runs -> {"absent", "running", "terminal"}]]
        /\ \A u \in Threads : u # t => run'[u] = run[u]
    <2>1. run[t] \in [Runs -> {"absent", "running", "terminal"}]
      BY <1>4 DEF HistoryShapes
    <2>2. CASE run' = run
      BY <2>2 DEF HistoryShapes
    <2>3. CASE i \in Runs /\ run' = [run EXCEPT ![t][i] = IF @ = "absent" THEN "running" ELSE @]
      <3>1. run'[t] = [run[t] EXCEPT ![i] = IF @ = "absent" THEN "running" ELSE @]
        BY <1>4, <2>3 DEF HistoryShapes
      <3>2. run'[t] \in [Runs -> {"absent", "running", "terminal"}]
        BY <2>1, <2>3, <3>1
      <3>3. \A u \in Threads : u # t => run'[u] = run[u]
        BY <2>3 DEF HistoryShapes
      <3> QED BY <2>3, <3>2, <3>3 DEF HistoryShapes
    <2> QED BY <1>5, <2>2, <2>3
  <1>8. HistoryShapes'
    BY <1>1, <1>2, <1>6, <1>7 DEF HistoryShapes
  <1>9. TransactionsHold'
    <2>1. SUFFICES ASSUME NEW q \in Procs, q # p
                   PROVE  TxHolds(tx[q])'
      BY <1>2, NoneHolds DEF TransactionsHold
    <2>2. TxHolds(tx[q]) /\ tx'[q] = tx[q]
      BY <1>2, <2>1 DEF TransactionsHold
    <2>3. tx[q].kind = "batch" => tx[q].thread \in Threads /\ tx[q].thread # t
      BY <1>4, <2>2 DEF TxHolds, Clearing
    <2>4. tx[q].kind = "batch" => Content(tx[q].thread)' = Content(tx[q].thread)
      BY <1>6, <2>2, <2>3 DEF Content
    <2> QED BY <1>1, <2>2, <2>4 DEF TxHolds, Open, Completed, UsedElsewhere
  <1>10. IntentsClose' /\ RequestClosesOneThread' /\ AnswersHold'
    BY <1>1 DEF IntentsClose, RequestClosesOneThread, AnswersHold, Open, UsedElsewhere
  <1>11. ClearedCounted'
    <2>1. SUFFICES ASSUME NEW u \in Threads
                   PROVE  /\ Cleared(u)' = Cleared(u)
                          /\ Completed(u) => row'[u] = row[u] /\ run'[u] = run[u]
      BY <1>1 DEF ClearedCounted, Completed, Content, Running, Open
    <2>2. Cleared(u)' = Cleared(u)
      BY <1>6 DEF Cleared
    <2>3. Completed(u) => u # t
      BY <1>4 DEF ClearedCounted
    <2> QED BY <1>6, <1>7, <2>2, <2>3
  <1>12. SnapshotsBounded'
    BY <1>1, <1>2, <1>6 DEF SnapshotsBounded, Completed, LastBatch
  <1> QED BY <1>2, <1>8, <1>9, <1>10, <1>11, <1>12

\* A transaction that is rolled back was never there.
LEMMA RollbackKeeps ==
    ASSUME HistoryAssumption, HistoryInv, NEW p, p \in Procs, End(p),
           UNCHANGED <<head, intent, deleted, history, records, snapshot, nextXid, acks>>,
           AnswersHold', conflicts' \subseteq [thread : Threads, request : Requests, actor : Askers]
    PROVE  HistoryInv'
  <1> USE DEF HistoryInv, HistoryAssumption
  <1>1. UNCHANGED <<head, intent, deleted, row, run, acceptance, batches, completion, audits,
                    snapshot, nextXid, acks>>
    BY DEF history, records
  <1>2. /\ tx' \in [Procs -> TxRecords] /\ tx'[p].kind = "none"
        /\ \A q \in Procs : q # p => tx'[q] = tx[q]
        /\ LocksExclude'
        /\ IdsBelow'
    BY <1>1, TxEnds
  <1>3. HistoryShapes'
    BY <1>1, <1>2 DEF HistoryShapes
  <1>4. TransactionsHold'
    <2>1. SUFFICES ASSUME NEW q \in Procs, q # p
                   PROVE  TxHolds(tx[q])'
      BY <1>2, NoneHolds DEF TransactionsHold
    <2>2. TxHolds(tx[q]) /\ tx'[q] = tx[q]
      BY <1>2, <2>1 DEF TransactionsHold
    <2> QED BY <1>1, <2>2 DEF TxHolds, Open, Completed, UsedElsewhere, Content
  <1>5. IntentsClose' /\ RequestClosesOneThread'
    BY <1>1 DEF IntentsClose, RequestClosesOneThread
  <1>6. ClearedCounted'
    BY <1>1 DEF ClearedCounted, Completed, Content, Running, Cleared, Open
  <1>7. SnapshotsBounded'
    BY <1>1, <1>2 DEF SnapshotsBounded, Completed, LastBatch
  <1> QED BY <1>2, <1>3, <1>4, <1>5, <1>6, <1>7

\* A head is closed by an intent: nobody else had the head, and the request is used
\* for no other thread.
LEMMA CloseKeeps ==
    ASSUME HistoryAssumption, HistoryInv, NEW p, p \in Procs,
           tx[p].kind \in {"inserted", "maintain"},
           NEW i, i \in IntentRecords, i.kind # "none",
           i.request = Nothing \/ (tx[p].kind = "inserted" /\ i.request = tx[p].item),
           i.kind = "stop_clear" => i.request # Nothing,
           Close(tx[p].thread, i), End(p),
           acks' \in {acks, acks \cup {[thread |-> tx[p].thread, intent |-> i]}},
           UNCHANGED <<deleted, history, records, snapshot, nextXid, conflicts>>
    PROVE  HistoryInv'
  <1> DEFINE t == tx[p].thread
  <1> USE DEF HistoryInv, HistoryAssumption
  <1>1. UNCHANGED <<deleted, row, run, acceptance, batches, completion, audits, snapshot,
                    nextXid, conflicts>>
    BY DEF history, records
  <1>2. /\ tx' \in [Procs -> TxRecords] /\ tx'[p].kind = "none"
        /\ \A q \in Procs : q # p => tx'[q] = tx[q]
        /\ LocksExclude'
        /\ IdsBelow'
    BY <1>1, TxEnds
  <1>3. TxHolds(tx[p])
    BY DEF TransactionsHold
  <1>4. t \in Threads /\ Open(t) /\ intent[t] = NoIntent
    BY <1>3 DEF TxHolds, IntentsClose, Open
  <1>5. i.request # Nothing => ~UsedElsewhere(i.request, t)
    BY <1>3 DEF TxHolds
  <1>6. /\ head' = [head EXCEPT ![t] = "closed"] /\ intent' = [intent EXCEPT ![t] = i]
        /\ acks' \in {acks, acks \cup {[thread |-> t, intent |-> i]}}
    BY DEF Close
  <1>7. ASSUME NEW q \in Procs, q # p, tx[q].kind # "none"
        PROVE  /\ tx[q].thread # t
               /\ tx[p].kind = "inserted" /\ tx[q].kind = "inserted" => tx[p].item # tx[q].item
    BY <1>7 DEF LocksExclude, Compatible, Exclusive, Shared, HistoryShapes, TxRecords, Kinds
  <1>8. NoIntent.request = Nothing /\ NoIntent.kind = "none"
    BY DEF NoIntent, Intent
  <1> HIDE DEF t
  <1>9. /\ head' \in [Threads -> {"open", "closed"}] /\ head'[t] = "closed"
        /\ intent' \in [Threads -> IntentRecords] /\ intent'[t] = i
        /\ \A u \in Threads : u # t => head'[u] = head[u] /\ intent'[u] = intent[u]
    BY <1>4, <1>6 DEF HistoryShapes
  <1>10. acks' \subseteq [thread : Threads, intent : IntentRecords]
    BY <1>4, <1>6 DEF HistoryShapes
  <1>11. HistoryShapes'
    BY <1>1, <1>2, <1>9, <1>10 DEF HistoryShapes
  <1>12. TransactionsHold'
    <2>1. SUFFICES ASSUME NEW q \in Procs, q # p, tx[q].kind # "none"
                   PROVE  TxHolds(tx[q])'
      BY <1>2, NoneHolds DEF TransactionsHold
    <2>2. TxHolds(tx[q]) /\ tx'[q] = tx[q]
      BY <1>2, <2>1 DEF TransactionsHold
    <2>3. tx[q].thread \in Threads /\ tx[q].thread # t
      BY <1>7, <2>1, <2>2 DEF TxHolds
    <2>4. tx[q].kind = "inserted" => ~UsedElsewhere(tx[q].item, tx[q].thread)'
      <3>1. SUFFICES ASSUME tx[q].kind = "inserted", NEW u \in Threads, u # tx[q].thread,
                            intent'[u].request = tx[q].item
                     PROVE  FALSE
        BY <2>2 DEF UsedElsewhere
      <3>2. tx[q].item \in Requests /\ ~UsedElsewhere(tx[q].item, tx[q].thread)
        BY <2>2, <3>1 DEF TxHolds
      <3>3. CASE u = t
        BY <1>7, <1>9, <2>1, <3>1, <3>2, <3>3
      <3>4. CASE u # t
        BY <1>9, <3>1, <3>2, <3>4 DEF UsedElsewhere
      <3> QED BY <3>3, <3>4
    <2>5. /\ Open(tx[q].thread)' <=> Open(tx[q].thread)
          /\ Completed(tx[q].thread)' <=> Completed(tx[q].thread)
          /\ Content(tx[q].thread)' = Content(tx[q].thread)
      BY <1>1, <1>9, <2>2, <2>3 DEF Open, Completed, Content
    <2> QED BY <2>2, <2>4, <2>5 DEF TxHolds
  <1>13. IntentsClose'
    BY <1>9 DEF IntentsClose, HistoryShapes
  <1>14. RequestClosesOneThread'
    <2>1. SUFFICES ASSUME NEW u \in Threads, NEW v \in Threads, u # v,
                          intent'[u].request # Nothing
                   PROVE  intent'[u].request # intent'[v].request
      BY DEF RequestClosesOneThread
    <2>2. CASE u # t /\ v # t
      BY <1>9, <2>1, <2>2 DEF RequestClosesOneThread
    <2>3. CASE u = t
      BY <1>5, <1>9, <2>1, <2>3 DEF UsedElsewhere
    <2>4. CASE v = t
      <3>1. intent'[v] = i /\ intent'[u] = intent[u]
        BY <1>9, <2>1, <2>4
      <3> QED BY <1>5, <2>1, <2>4, <3>1 DEF UsedElsewhere
    <2> QED BY <2>2, <2>3, <2>4
  <1>15. AnswersHold'
    <2>1. ASSUME NEW k \in acks'
          PROVE  ~Open(k.thread)' /\ intent'[k.thread] = k.intent
      <3>1. CASE k = [thread |-> t, intent |-> i]
        BY <1>9, <3>1 DEF Open
      <3>2. CASE k \in acks
        <4>1. k.thread \in Threads /\ ~Open(k.thread) /\ intent[k.thread] = k.intent
          BY <3>2 DEF AnswersHold, HistoryShapes
        <4> QED BY <1>4, <1>9, <4>1 DEF Open
      <3> QED BY <1>6, <2>1, <3>1, <3>2
    <2>2. ASSUME NEW c \in conflicts
          PROVE  /\ ~Replays(intent[c.thread], c.request, c.actor)'
                 /\ ~Open(c.thread)' \/ UsedElsewhere(c.request, c.thread)'
      <3>1. /\ c.thread \in Threads /\ c.request \in Requests
            /\ ~Replays(intent[c.thread], c.request, c.actor)
            /\ ~Open(c.thread) \/ UsedElsewhere(c.request, c.thread)
        BY DEF AnswersHold, HistoryShapes
      <3>2. UsedElsewhere(c.request, c.thread) => UsedElsewhere(c.request, c.thread)'
        <4>1. SUFFICES ASSUME NEW u \in Threads \ {c.thread}, intent[u].request = c.request
                       PROVE  intent'[u].request = c.request
          BY DEF UsedElsewhere
        <4>2. u # t
          BY <1>4, <1>8, <3>1, <4>1
        <4> QED BY <1>9, <4>1, <4>2
      <3>3. CASE c.thread = t
        <4>1. UsedElsewhere(c.request, t)
          BY <1>4, <3>1, <3>3
        <4>2. i.request # c.request
          BY <1>5, <3>1, <4>1
        <4> QED BY <1>9, <3>2, <3>3, <4>1, <4>2 DEF Replays
      <3>4. CASE c.thread # t
        BY <1>9, <3>1, <3>2, <3>4 DEF Replays, Open
      <3> QED BY <3>3, <3>4
    <2> QED BY <1>1, <2>1, <2>2 DEF AnswersHold
  <1>16. ClearedCounted'
    <2>1. SUFFICES ASSUME NEW u \in Threads
                   PROVE  Completed(u) => ~Open(u)'
      BY <1>1 DEF ClearedCounted, Completed, Content, Running, Cleared
    <2> QED BY <1>9 DEF ClearedCounted, Open
  <1>17. SnapshotsBounded'
    BY <1>1, <1>2 DEF SnapshotsBounded, Completed, LastBatch
  <1> QED BY <1>2, <1>11, <1>12, <1>13, <1>14, <1>15, <1>16, <1>17

\* A batch clears rows that were there: nobody else clears in the thread.
LEMMA BatchCommitKeeps ==
    ASSUME HistoryAssumption, HistoryInv, NEW p, p \in Procs, batch_commit(p)
    PROVE  HistoryInv'
  <1> USE DEF HistoryInv, HistoryAssumption
  <1>a. PICK t : t = tx[p].thread
    OBVIOUS
  <1>b. PICK s : s = tx[p].rows
    OBVIOUS
  <1>c. PICK e : e = [xid |-> tx[p].xid, rows |-> Cardinality(s)]
    OBVIOUS
  <1>1. UNCHANGED <<head, intent, deleted, run, acceptance, completion, audits, snapshot,
                    nextXid, acks, conflicts>>
    BY DEF batch_commit, answers
  <1>2. /\ tx' \in [Procs -> TxRecords] /\ tx'[p].kind = "none"
        /\ \A q \in Procs : q # p => tx'[q] = tx[q]
        /\ LocksExclude'
        /\ IdsBelow'
    BY <1>1, TxEnds DEF batch_commit
  <1>3. TxHolds(tx[p]) /\ tx[p].kind = "batch" /\ tx[p] \in TxRecords
    BY DEF TransactionsHold, batch_commit, HistoryShapes
  <1>4. t \in Threads /\ ~Open(t) /\ ~Completed(t) /\ s \subseteq Content(t)
    BY <1>a, <1>b, <1>3 DEF TxHolds, Clearing
  <1>5. /\ row' = [row EXCEPT ![t] = [b \in Rows |-> IF b \in s THEN "cleared" ELSE @[b]]]
        /\ batches' = [batches EXCEPT ![t] = Append(@, e)]
    BY <1>a, <1>b, <1>c DEF batch_commit
  <1>6. s \subseteq Rows /\ IsFiniteSet(s) /\ Cardinality(s) \in Nat
    <2>1. s \subseteq Rows
      BY <1>b, <1>3 DEF TxRecords
    <2>2. IsFiniteSet(s)
      BY <2>1, FS_Subset
    <2> QED BY <2>1, <2>2, FS_CardinalityType
  <1>7. e \in BatchRecords /\ e.xid = tx[p].xid /\ e.rows = Cardinality(s)
    BY <1>c, <1>3, <1>6 DEF BatchRecords, TxRecords
  <1>8. \A q \in Procs : q # p /\ tx[q].kind \in Clearing => tx[q].thread # t
    BY <1>a, <1>3 DEF LocksExclude, Compatible, Clearing
  <1>9. row[t] \in [Rows -> {"absent", "content", "cleared"}] /\ batches[t] \in Seq(BatchRecords)
    BY <1>4 DEF HistoryShapes
  <1>10. /\ row'[t] = [b \in Rows |-> IF b \in s THEN "cleared" ELSE row[t][b]]
         /\ \A u \in Threads : u # t => row'[u] = row[u] /\ batches'[u] = batches[u]
         /\ batches'[t] = Append(batches[t], e)
    BY <1>4, <1>5 DEF HistoryShapes
  <1>11. row' \in [Threads -> [Rows -> {"absent", "content", "cleared"}]]
    <2>1. row'[t] \in [Rows -> {"absent", "content", "cleared"}]
      BY <1>9, <1>10
    <2> QED BY <1>5, <2>1 DEF HistoryShapes
  <1>12. batches' \in [Threads -> Seq(BatchRecords)]
    <2>1. batches'[t] \in Seq(BatchRecords)
      BY <1>7, <1>9, <1>10
    <2> QED BY <1>5, <2>1 DEF HistoryShapes
  <1>13. HistoryShapes'
    BY <1>1, <1>2, <1>11, <1>12 DEF HistoryShapes
  <1>14. TransactionsHold'
    <2>1. SUFFICES ASSUME NEW q \in Procs, q # p
                   PROVE  TxHolds(tx[q])'
      BY <1>2, NoneHolds DEF TransactionsHold
    <2>2. TxHolds(tx[q]) /\ tx'[q] = tx[q]
      BY <1>2, <2>1 DEF TransactionsHold
    <2>3. tx[q].kind = "batch" => tx[q].thread \in Threads /\ tx[q].thread # t
      BY <1>8, <2>1, <2>2 DEF TxHolds, Clearing
    <2>4. tx[q].kind = "batch" => Content(tx[q].thread)' = Content(tx[q].thread)
      BY <1>10, <2>2, <2>3 DEF Content
    <2> QED BY <1>1, <2>2, <2>4 DEF TxHolds, Open, Completed, UsedElsewhere
  <1>15. IntentsClose' /\ RequestClosesOneThread' /\ AnswersHold'
    BY <1>1 DEF IntentsClose, RequestClosesOneThread, AnswersHold, Open, UsedElsewhere
  <1>16. ClearedCounted'
    <2>1. ASSUME NEW u \in Threads, u # t
          PROVE  /\ Cleared(u)' = Cleared(u) /\ Content(u)' = Content(u)
                 /\ batches'[u] = batches[u]
      BY <1>10, <2>1 DEF Cleared, Content
    <2>2. Cleared(t)' = Cleared(t) \cup s
      BY <1>6, <1>10 DEF Cleared
    <2>3. Cleared(t) \cap s = {}
      BY <1>4 DEF Cleared, Content
    <2>4. IsFiniteSet(Cleared(t))
      BY FS_Subset DEF Cleared
    <2>5. Cardinality(Cleared(t)') = Cardinality(Cleared(t)) + Cardinality(s)
      <3>1. Cardinality(Cleared(t) \cup s)
              = Cardinality(Cleared(t)) + Cardinality(s) - Cardinality(Cleared(t) \cap s)
        BY <1>6, <2>4, FS_Union
      <3>2. Cardinality(Cleared(t) \cap s) = 0
        BY <2>3, FS_EmptySet
      <3>3. Cardinality(Cleared(t)) \in Nat
        BY <2>4, FS_CardinalityType
      <3> QED BY <1>6, <2>2, <3>1, <3>2, <3>3
    <2>6. CountRows(batches'[t]) = CountRows(batches[t]) + Cardinality(s)
      BY <1>7, <1>9, <1>10, CountAppend
    <2>7. CountRows(batches'[t]) = Cardinality(Cleared(t)')
      BY <1>4, <2>5, <2>6 DEF ClearedCounted
    <2>8. ASSUME NEW u \in Threads
          PROVE  CountRows(batches'[u]) = Cardinality(Cleared(u)')
      BY <2>1, <2>7 DEF ClearedCounted
    <2>9. ASSUME NEW u \in Threads
          PROVE  /\ audits'[u] = IF Completed(u)' THEN 1 ELSE 0
                 /\ Completed(u)' =>
                      /\ ~Open(u)' /\ Content(u)' = {} /\ Running(u)' = {}
                      /\ completion'[u] = [batches |-> Len(batches'[u]),
                                           rows |-> CountRows(batches'[u])]
      BY <1>1, <1>4, <2>1 DEF ClearedCounted, Completed, Open, Running
    <2> QED BY <2>8, <2>9 DEF ClearedCounted
  <1>17. SnapshotsBounded'
    <2>1. SUFFICES ASSUME NEW x \in Readers
                   PROVE  /\ snapshot[x].xmin <= nextXid
                          /\ \A q \in Procs : tx'[q].kind # "none" => snapshot[x].xmin <= tx'[q].xid
                          /\ \A u \in Threads, b \in Rows : <<u, b>> \in snapshot[x].sees =>
                               /\ ~Completed(u)'
                               /\ row'[u][b] = "content"
                                  \/ (batches'[u] # <<>> /\ snapshot[x].xmin <= LastBatch(u)')
      BY <1>1 DEF SnapshotsBounded
    <2>2. /\ snapshot[x].xmin <= nextXid
          /\ \A q \in Procs : tx'[q].kind # "none" => snapshot[x].xmin <= tx'[q].xid
      BY <1>2 DEF SnapshotsBounded
    <2>3. batches'[t] # <<>> /\ LastBatch(t)' = tx[p].xid
      BY <1>7, <1>9, <1>10 DEF LastBatch
    <2>4. snapshot[x].xmin <= tx[p].xid
      BY <1>3 DEF SnapshotsBounded
    <2>5. ASSUME NEW u \in Threads, NEW b \in Rows, <<u, b>> \in snapshot[x].sees
          PROVE  /\ ~Completed(u)'
                 /\ row'[u][b] = "content"
                    \/ (batches'[u] # <<>> /\ snapshot[x].xmin <= LastBatch(u)')
      <3>1. CASE u = t
        BY <1>1, <1>4, <2>3, <2>4, <3>1 DEF Completed
      <3>2. CASE u # t
        BY <1>1, <1>10, <2>5, <3>2 DEF Completed, LastBatch, SnapshotsBounded
      <3> QED BY <3>1, <3>2
    <2> QED BY <2>2, <2>5
  <1> QED BY <1>2, <1>13, <1>14, <1>15, <1>16, <1>17

\* The completion is recorded: nobody clears, nothing is left, and every reader began
\* after the last batch.
LEMMA CompletionCommitKeeps ==
    ASSUME HistoryAssumption, HistoryInv, NEW p, p \in Procs, completion_commit(p)
    PROVE  HistoryInv'
  <1> USE DEF HistoryInv, HistoryAssumption
  <1>a. PICK t : t = tx[p].thread
    OBVIOUS
  <1>b. PICK c : c = [batches |-> Len(batches[t]), rows |-> CountRows(batches[t])]
    OBVIOUS
  <1>1. UNCHANGED <<head, intent, deleted, row, run, acceptance, batches, snapshot,
                    nextXid, acks, conflicts>>
    BY DEF completion_commit, answers, history
  <1>2. /\ tx' \in [Procs -> TxRecords] /\ tx'[p].kind = "none"
        /\ \A q \in Procs : q # p => tx'[q] = tx[q]
        /\ LocksExclude'
        /\ IdsBelow'
    BY <1>1, TxEnds DEF completion_commit
  <1>3. TxHolds(tx[p]) /\ tx[p].kind = "complete" /\ MayComplete(t)
    BY <1>a DEF TransactionsHold, completion_commit
  <1>4. t \in Threads /\ ~Open(t) /\ ~Completed(t)
    BY <1>a, <1>3 DEF TxHolds, Clearing
  <1>5. /\ completion' = [completion EXCEPT ![t] = c]
        /\ audits' = [audits EXCEPT ![t] = @ + 1]
    BY <1>a, <1>b DEF completion_commit
  <1>6. \A q \in Procs : q # p /\ tx[q].kind \in Clearing => tx[q].thread # t
    BY <1>a, <1>3 DEF LocksExclude, Compatible, Clearing
  <1>7. Len(batches[t]) \in Nat \ {0}
    BY <1>3, <1>4 DEF MayComplete, HistoryShapes
  <1>8. CountRows(batches[t]) \in Nat
    <2>1. IsFiniteSet(Cleared(t))
      BY FS_Subset DEF Cleared
    <2>2. CountRows(batches[t]) = Cardinality(Cleared(t))
      BY <1>4 DEF ClearedCounted
    <2> QED BY <2>1, <2>2, FS_CardinalityType
  <1>9. c \in [batches : Nat, rows : Nat] /\ c # NoCompletion
    BY <1>b, <1>7, <1>8 DEF NoCompletion
  <1>11. /\ completion' \in [Threads -> [batches : Nat, rows : Nat]]
         /\ audits' \in [Threads -> Nat]
         /\ completion'[t] = c /\ audits'[t] = audits[t] + 1
         /\ \A u \in Threads : u # t => completion'[u] = completion[u] /\ audits'[u] = audits[u]
    BY <1>4, <1>5, <1>9 DEF HistoryShapes
  <1>12. HistoryShapes'
    BY <1>1, <1>2, <1>11 DEF HistoryShapes
  <1>13. TransactionsHold'
    <2>1. SUFFICES ASSUME NEW q \in Procs, q # p
                   PROVE  TxHolds(tx[q])'
      BY <1>2, NoneHolds DEF TransactionsHold
    <2>2. TxHolds(tx[q]) /\ tx'[q] = tx[q]
      BY <1>2, <2>1 DEF TransactionsHold
    <2>3. tx[q].kind \in Clearing => tx[q].thread \in Threads /\ tx[q].thread # t
      BY <1>6, <2>1, <2>2 DEF TxHolds, Clearing
    <2>4. tx[q].kind \in Clearing => ~Completed(tx[q].thread)'
      BY <1>11, <2>2, <2>3 DEF Completed, TxHolds
    <2> QED BY <1>1, <2>2, <2>4 DEF TxHolds, Open, UsedElsewhere, Content
  <1>14. IntentsClose' /\ RequestClosesOneThread' /\ AnswersHold'
    BY <1>1 DEF IntentsClose, RequestClosesOneThread, AnswersHold, Open, UsedElsewhere
  <1>15. ClearedCounted'
    <2>1. ASSUME NEW u \in Threads, u # t
          PROVE  Completed(u)' <=> Completed(u)
      BY <1>11, <2>1 DEF Completed
    <2>2. Completed(t)' /\ audits'[t] = 1
      <3>1. audits[t] = 0
        BY <1>4 DEF ClearedCounted
      <3>2. completion'[t] # NoCompletion /\ audits'[t] = 1
        BY <1>9, <1>11, <3>1
      <3> QED BY <3>2 DEF Completed, NoCompletion
    <2>3. Content(t) = {} /\ Running(t) = {}
      BY <1>3 DEF MayComplete, Drained
    <2>4. ASSUME NEW u \in Threads
          PROVE  /\ CountRows(batches'[u]) = Cardinality(Cleared(u)')
                 /\ audits'[u] = IF Completed(u)' THEN 1 ELSE 0
                 /\ Completed(u)' =>
                      /\ ~Open(u)' /\ Content(u)' = {} /\ Running(u)' = {}
                      /\ completion'[u] = [batches |-> Len(batches'[u]),
                                           rows |-> CountRows(batches'[u])]
      <3>1. CASE u = t
        BY <1>1, <1>4, <1>b, <1>11, <2>2, <2>3, <3>1
           DEF ClearedCounted, Open, Running, Content, Cleared
      <3>2. CASE u # t
        <4>1. /\ CountRows(batches[u]) = Cardinality(Cleared(u))
              /\ audits[u] = IF Completed(u) THEN 1 ELSE 0
              /\ Completed(u) =>
                   /\ ~Open(u) /\ Content(u) = {} /\ Running(u) = {}
                   /\ completion[u] = [batches |-> Len(batches[u]),
                                       rows |-> CountRows(batches[u])]
          BY DEF ClearedCounted
        <4>2. /\ Cleared(u)' = Cleared(u) /\ Content(u)' = Content(u)
              /\ Running(u)' = Running(u) /\ (Open(u)' <=> Open(u))
          BY <1>1 DEF Open, Running, Content, Cleared
        <4>3. audits'[u] = audits[u] /\ completion'[u] = completion[u] /\ batches' = batches
          BY <1>1, <1>11, <3>2
        <4> QED BY <2>1, <3>2, <4>1, <4>2, <4>3
      <3> QED BY <3>1, <3>2
    <2> QED BY <2>4 DEF ClearedCounted
  <1>16. SnapshotsBounded'
    <2>1. ASSUME NEW x \in Readers, NEW b \in Rows, <<t, b>> \in snapshot[x].sees
          PROVE  FALSE
      <3>1. snapshot[x] # NoSnapshot
        BY <2>1 DEF NoSnapshot
      <3>2. ~(snapshot[x].xmin <= LastBatch(t))
        BY <1>3, <3>1 DEF MayComplete, readers_quiescent, MayStillSee
      <3>3. row[t][b] # "content"
        BY <1>3, <1>4 DEF MayComplete, Content, HistoryShapes
      <3> QED BY <1>4, <2>1, <3>2, <3>3 DEF SnapshotsBounded
    <2>2. ASSUME NEW x \in Readers, NEW u \in Threads, NEW b \in Rows,
                 <<u, b>> \in snapshot[x].sees
          PROVE  ~Completed(u)'
      BY <1>11, <2>1, <2>2 DEF Completed, SnapshotsBounded
    <2> QED BY <1>1, <1>2, <2>2 DEF SnapshotsBounded, LastBatch
  <1> QED BY <1>2, <1>12, <1>13, <1>14, <1>15, <1>16

\* Steps that change only what is neither locked nor counted: a deletion, and the
\* acceptance of a cancellation.
LEMMA AsideKeeps ==
    ASSUME HistoryAssumption, HistoryInv,
           deleted' \subseteq Threads,
           acceptance' \in [Threads -> [Runs -> {"none", "actor", "history"}]],
           UNCHANGED <<head, intent, row, run, batches, completion, audits, tx, snapshot,
                       nextXid, acks, conflicts>>
    PROVE  HistoryInv'
  <1> USE DEF HistoryInv
  <1>1. HistoryShapes'
    BY DEF HistoryShapes
  <1>2. TransactionsHold'
    BY DEF TransactionsHold, TxHolds, Open, Completed, Content, UsedElsewhere
  <1>3. IdsBelow' /\ LocksExclude' /\ IntentsClose' /\ RequestClosesOneThread'
    BY DEF IdsBelow, LocksExclude, Compatible, IntentsClose, RequestClosesOneThread
  <1>4. AnswersHold'
    BY DEF AnswersHold, Open, UsedElsewhere
  <1>5. ClearedCounted'
    BY DEF ClearedCounted, Completed, Content, Running, Cleared, Open
  <1>6. SnapshotsBounded'
    BY DEF SnapshotsBounded, Completed, LastBatch
  <1> QED BY <1>1, <1>2, <1>3, <1>4, <1>5, <1>6

\* A run is accepted for cancellation, by the drain or by the user.
LEMMA AcceptanceKeeps ==
    ASSUME HistoryAssumption, HistoryInv, NEW t, t \in Threads, NEW r, r \in Runs,
           drain(t, r) \/ user_cancels(t, r)
    PROVE  HistoryInv'
  <1> USE DEF HistoryInv
  <1>1. /\ UNCHANGED <<head, intent, deleted, row, run, batches, completion, audits, tx,
                       snapshot, nextXid, acks, conflicts>>
        /\ \/ acceptance' = [acceptance EXCEPT ![t][r] = "history"]
           \/ acceptance' = [acceptance EXCEPT ![t][r] = "actor"]
    BY DEF drain, user_cancels, records, answers
  <1>2. acceptance[t] \in [Runs -> {"none", "actor", "history"}]
    BY DEF HistoryShapes
  <1>3. \/ acceptance'[t] = [acceptance[t] EXCEPT ![r] = "history"]
        \/ acceptance'[t] = [acceptance[t] EXCEPT ![r] = "actor"]
    BY <1>1 DEF HistoryShapes
  <1>4. acceptance'[t] \in [Runs -> {"none", "actor", "history"}]
    BY <1>2, <1>3
  <1>5. acceptance' \in [Threads -> [Runs -> {"none", "actor", "history"}]]
    BY <1>1, <1>4 DEF HistoryShapes
  <1>6. deleted \subseteq Threads
    BY DEF HistoryShapes
  <1> QED BY <1>1, <1>5, <1>6, AsideKeeps

LEMMA DeleteKeeps ==
    ASSUME HistoryAssumption, HistoryInv, NEW t, t \in Threads, delete_thread(t)
    PROVE  HistoryInv'
  <1>1. UNCHANGED <<head, intent, row, run, acceptance, batches, completion, audits, tx,
                    snapshot, nextXid, acks, conflicts>>
    BY DEF delete_thread, history, records, answers
  <1>2. deleted' \subseteq Threads
    BY DEF delete_thread, HistoryInv, HistoryShapes
  <1> QED BY <1>1, <1>2, AsideKeeps DEF HistoryInv, HistoryShapes

\* A run ends: no completed history has one.
LEMMA RunEndsKeeps ==
    ASSUME HistoryAssumption, HistoryInv, NEW t, t \in Threads, NEW r, r \in Runs,
           run_ends(t, r)
    PROVE  HistoryInv'
  <1> USE DEF HistoryInv
  <1>1. /\ UNCHANGED <<head, intent, deleted, row, acceptance, batches, completion, audits, tx,
                       snapshot, nextXid, acks, conflicts>>
        /\ run' = [run EXCEPT ![t][r] = "terminal"]
    BY DEF run_ends, records, answers
  <1>2. run[t] \in [Runs -> {"absent", "running", "terminal"}]
    BY DEF HistoryShapes
  <1>3. /\ run'[t] = [run[t] EXCEPT ![r] = "terminal"]
        /\ \A u \in Threads : u # t => run'[u] = run[u]
    BY <1>1 DEF HistoryShapes
  <1>4. run'[t] \in [Runs -> {"absent", "running", "terminal"}]
    BY <1>2, <1>3
  <1>5. run' \in [Threads -> [Runs -> {"absent", "running", "terminal"}]]
    BY <1>1, <1>4 DEF HistoryShapes
  <1>6. HistoryShapes'
    BY <1>1, <1>5 DEF HistoryShapes
  <1>7. TransactionsHold'
    BY <1>1 DEF TransactionsHold, TxHolds, Open, Completed, Content, UsedElsewhere
  <1>8. IdsBelow' /\ LocksExclude' /\ IntentsClose' /\ RequestClosesOneThread'
    BY <1>1 DEF IdsBelow, LocksExclude, Compatible, IntentsClose, RequestClosesOneThread
  <1>9. AnswersHold'
    BY <1>1 DEF AnswersHold, Open, UsedElsewhere
  <1>10. \A u \in Threads : Running(u)' \subseteq Running(u)
    <2>1. SUFFICES ASSUME NEW u \in Threads
                   PROVE  Running(u)' \subseteq Running(u)
      OBVIOUS
    <2>2. CASE u # t
      BY <1>3, <2>2 DEF Running
    <2>3. CASE u = t
      BY <1>2, <1>3, <2>3 DEF Running
    <2> QED BY <2>2, <2>3
  <1>11. ClearedCounted'
    BY <1>1, <1>10 DEF ClearedCounted, Completed, Content, Cleared, Open
  <1>12. SnapshotsBounded'
    BY <1>1 DEF SnapshotsBounded, Completed, LastBatch
  <1> QED BY <1>6, <1>7, <1>8, <1>9, <1>11, <1>12

\* Only what was answered changes: a replay is acknowledged, a request refused.
LEMMA AnswerKeeps ==
    ASSUME HistoryAssumption, HistoryInv,
           acks' \subseteq [thread : Threads, intent : IntentRecords],
           conflicts' \subseteq [thread : Threads, request : Requests, actor : Askers],
           AnswersHold',
           UNCHANGED <<head, intent, deleted, row, run, acceptance, batches, completion,
                       audits, tx, snapshot, nextXid>>
    PROVE  HistoryInv'
  <1> USE DEF HistoryInv
  <1>1. HistoryShapes'
    BY DEF HistoryShapes
  <1>2. TransactionsHold'
    BY DEF TransactionsHold, TxHolds, Open, Completed, Content, UsedElsewhere
  <1>3. IdsBelow' /\ LocksExclude' /\ IntentsClose' /\ RequestClosesOneThread'
    BY DEF IdsBelow, LocksExclude, Compatible, IntentsClose, RequestClosesOneThread
  <1>4. ClearedCounted'
    BY DEF ClearedCounted, Completed, Content, Running, Cleared, Open
  <1>5. SnapshotsBounded'
    BY DEF SnapshotsBounded, Completed, LastBatch
  <1> QED BY <1>1, <1>2, <1>3, <1>4, <1>5

\* A request is refused: another thread has it, or another intent closed this one.
LEMMA RefusalHolds ==
    ASSUME HistoryInv, NEW t, t \in Threads, NEW q, q \in Requests, NEW a, a \in Askers,
           ~Replays(intent[t], q, a), ~Open(t) \/ UsedElsewhere(q, t),
           conflicts' = conflicts \cup {Answer(t, q, a)},
           UNCHANGED <<head, intent, acks>>
    PROVE  /\ AnswersHold'
           /\ conflicts' \subseteq [thread : Threads, request : Requests, actor : Askers]
  <1>1. PICK n : n = Answer(t, q, a)
    OBVIOUS
  <1>2. /\ n \in [thread : Threads, request : Requests, actor : Askers]
        /\ n.thread = t /\ n.request = q /\ n.actor = a
    BY <1>1 DEF Answer
  <1>3. conflicts' \subseteq [thread : Threads, request : Requests, actor : Askers]
    BY <1>1, <1>2 DEF HistoryInv, HistoryShapes
  <1>4. ASSUME NEW c \in conflicts'
        PROVE  /\ ~Replays(intent[c.thread], c.request, c.actor)
               /\ ~Open(c.thread) \/ UsedElsewhere(c.request, c.thread)
    <2>1. CASE c = n
      BY <1>2, <2>1
    <2>2. CASE c \in conflicts
      BY <2>2 DEF HistoryInv, AnswersHold
    <2> QED BY <1>1, <1>4, <2>1, <2>2
  <1>5. AnswersHold'
    BY <1>4 DEF HistoryInv, AnswersHold, Open, UsedElsewhere, Replays
  <1> QED BY <1>3, <1>5

\* classify_closed: the same request of the same actor gets the intent that closed.
LEMMA ClassifyKeeps ==
    ASSUME HistoryAssumption, HistoryInv, NEW t, t \in Threads, NEW q, q \in Requests,
           NEW a, a \in Askers, classify_closed(t, q, a)
    PROVE  HistoryInv'
  <1> USE DEF HistoryInv
  <1>1. UNCHANGED <<head, intent, deleted, row, run, acceptance, batches, completion, audits,
                    tx, snapshot, nextXid>>
    BY DEF classify_closed, history, records
  <1>2. ~Open(t) /\ intent[t] \in IntentRecords
    BY DEF classify_closed, HistoryShapes
  <1>3. CASE Replays(intent[t], q, a)
    <2>1. PICK k : k = [thread |-> t, intent |-> Intent("stop_clear", q, a, intent[t].op)]
      OBVIOUS
    <2>2. acks' = acks \cup {k} /\ conflicts' = conflicts
      BY <1>3, <2>1 DEF classify_closed
    <2>3. intent[t] = Intent("stop_clear", q, a, intent[t].op)
      BY <1>2, <1>3 DEF Replays, Intent, IntentRecords
    <2>4. k.thread = t /\ k.intent = intent[t]
          /\ k \in [thread : Threads, intent : IntentRecords]
      BY <1>2, <2>1, <2>3
    <2>5. acks' \subseteq [thread : Threads, intent : IntentRecords]
      BY <2>2, <2>4 DEF HistoryShapes
    <2>6. AnswersHold'
      <3>1. ASSUME NEW j \in acks'
            PROVE  ~Open(j.thread) /\ intent[j.thread] = j.intent
        <4>1. CASE j = k
          BY <1>2, <2>4, <4>1
        <4>2. CASE j \in acks
          BY <4>2 DEF AnswersHold
        <4> QED BY <2>2, <3>1, <4>1, <4>2
      <3> QED BY <1>1, <2>2, <3>1 DEF AnswersHold, Open, UsedElsewhere, Replays
    <2>7. conflicts' \subseteq [thread : Threads, request : Requests, actor : Askers]
      BY <2>2 DEF HistoryShapes
    <2> QED BY <1>1, <2>5, <2>6, <2>7, AnswerKeeps
  <1>4. CASE ~Replays(intent[t], q, a)
    <2>1. conflicts' = conflicts \cup {Answer(t, q, a)} /\ acks' = acks
      BY <1>4 DEF classify_closed
    <2>2. /\ AnswersHold'
          /\ conflicts' \subseteq [thread : Threads, request : Requests, actor : Askers]
      BY <1>1, <1>2, <1>4, <2>1, RefusalHolds
    <2> QED BY <1>1, <2>1, <2>2, AnswerKeeps DEF HistoryShapes
  <1> QED BY <1>3, <1>4

\* A request that is used elsewhere is no replay: a thread that is open has no intent.
LEMMA OpenReplaysNothing ==
    ASSUME HistoryInv, NEW t, t \in Threads, Open(t), NEW q, NEW a
    PROVE  ~Replays(intent[t], q, a)
  BY DEF HistoryInv, IntentsClose, Open, Replays, NoIntent, Intent

LEMMA StopClearKeeps ==
    ASSUME HistoryAssumption, HistoryInv, NEW p, p \in Procs, NEW t, t \in Threads,
           NEW q, q \in Requests, NEW a, a \in Askers, stop_clear(p, t, q, a)
    PROVE  HistoryInv'
  <1>1. CASE UsedElsewhere(q, t)
    <2>1. /\ conflicts' = conflicts \cup {Answer(t, q, a)}
          /\ UNCHANGED <<head, intent, deleted, row, run, acceptance, batches, completion,
                         audits, tx, snapshot, nextXid, acks>>
      BY <1>1 DEF stop_clear, history, records
    <2>2. ~Replays(intent[t], q, a)
      BY OpenReplaysNothing DEF stop_clear
    <2>3. /\ AnswersHold'
          /\ conflicts' \subseteq [thread : Threads, request : Requests, actor : Askers]
      BY <1>1, <2>1, <2>2, RefusalHolds
    <2> QED BY <2>1, <2>3, AnswerKeeps DEF HistoryInv, HistoryShapes
  <1>2. CASE ~UsedElsewhere(q, t)
    <2>1. LocksHead(p, t, q, a)
      BY <1>2 DEF stop_clear, LocksHead, answers
    <2> QED BY <2>1, LockHeadKeeps
  <1> QED BY <1>1, <1>2

\* The intent is inserted: nobody has one of the same request, committed or not.
LEMMA InsertKeeps ==
    ASSUME HistoryAssumption, HistoryInv, NEW p, p \in Procs, insert_intent(p)
    PROVE  HistoryInv'
  <1> USE DEF HistoryInv
  <1>1. PICK t : t = tx[p].thread
    OBVIOUS
  <1>2. PICK q : q = tx[p].item
    OBVIOUS
  <1>3. /\ UNCHANGED <<head, intent, deleted, row, run, acceptance, batches, completion, audits,
                       snapshot, nextXid, acks>>
        /\ UNCHANGED <<head, intent, deleted, history, records, snapshot, nextXid, acks>>
    BY DEF insert_intent, history, records
  <1>4. /\ tx[p].kind = "locked" /\ tx[p] \in TxRecords /\ TxHolds(tx[p])
    BY DEF insert_intent, TransactionsHold, HistoryShapes
  <1>5. t \in Threads /\ q \in Requests /\ tx[p].actor \in Askers /\ Open(t)
    BY <1>1, <1>2, <1>4 DEF TxHolds
  <1>6. CASE UsedElsewhere(q, t)
    <2>1. conflicts' = conflicts \cup {Answer(t, q, tx[p].actor)} /\ End(p)
      BY <1>1, <1>2, <1>6 DEF insert_intent
    <2>2. ~Replays(intent[t], q, tx[p].actor)
      BY <1>5, OpenReplaysNothing
    <2>3. /\ AnswersHold'
          /\ conflicts' \subseteq [thread : Threads, request : Requests, actor : Askers]
      BY <1>3, <1>5, <1>6, <2>1, <2>2, RefusalHolds
    <2> QED BY <1>3, <2>1, <2>3, RollbackKeeps
  <1>7. CASE ~UsedElsewhere(q, t)
    <2>1. tx' = [tx EXCEPT ![p].kind = "inserted"] /\ conflicts' = conflicts
      BY <1>1, <1>2, <1>7 DEF insert_intent
    <2>2. PICK r : r = [tx[p] EXCEPT !.kind = "inserted"]
      OBVIOUS
    <2>3. /\ r.kind = "inserted" /\ r.thread = t /\ r.item = q /\ r.actor = tx[p].actor
          /\ r.rows = tx[p].rows /\ r.xid = tx[p].xid /\ r \in TxRecords
      BY <1>1, <1>2, <1>4, <2>2 DEF TxRecords, Kinds
    <2>4. /\ tx' \in [Procs -> TxRecords] /\ tx'[p] = r
          /\ \A o \in Procs : o # p => tx'[o] = tx[o]
      BY <2>1, <2>2, <2>3 DEF HistoryShapes
    <2>5. TxHolds(r)
      BY <1>5, <1>7, <2>3 DEF TxHolds, Clearing
    <2>6. TransactionsHold'
      BY <1>3, <2>4, <2>5 DEF TransactionsHold, TxHolds, Open, Completed, Content, UsedElsewhere
    <2>7. ASSUME NEW o \in Procs, o # p
          PROVE  Compatible(r, tx[o]) /\ Compatible(tx[o], r)
      <3>1. Compatible(tx[p], tx[o]) /\ Compatible(tx[o], tx[p])
        BY <2>7 DEF LocksExclude
      <3>2. tx[o].kind = "inserted" => tx[o].item # q
        BY <1>2, <2>7 DEF insert_intent, UniqueWait
      <3> QED BY <1>1, <1>4, <2>3, <3>1, <3>2 DEF Compatible, Exclusive, Shared, Clearing
    <2>8. LocksExclude'
      BY <2>4, <2>7 DEF LocksExclude
    <2>9. HistoryShapes'
      BY <1>3, <2>1, <2>4 DEF HistoryShapes
    <2>10. IdsBelow'
      BY <1>3, <1>4, <2>3, <2>4 DEF IdsBelow
    <2>11. IntentsClose' /\ RequestClosesOneThread' /\ AnswersHold'
      BY <1>3, <2>1 DEF IntentsClose, RequestClosesOneThread, AnswersHold, Open, UsedElsewhere
    <2>12. ClearedCounted'
      BY <1>3 DEF ClearedCounted, Completed, Content, Running, Cleared, Open
    <2>13. SnapshotsBounded'
      BY <1>3, <1>4, <2>3, <2>4 DEF SnapshotsBounded, Completed, LastBatch
    <2> QED BY <2>6, <2>8, <2>9, <2>10, <2>11, <2>12, <2>13
  <1> QED BY <1>6, <1>7

-----------------------------------------------------------------------------
(* Readers. *)

LEMMA LeastIsLeast ==
    ASSUME NEW S, S \subseteq Nat, S # {}
    PROVE  Min(S) \in S /\ \A n \in S : Min(S) <= n
  <1>1. \E m \in S : \A n \in S : m <= n
    BY LeastExists
  <1> QED BY <1>1 DEF Min

\* Only the snapshot of one reader changes.
LEMMA SnapshotKeeps ==
    ASSUME HistoryAssumption, HistoryInv, NEW x, x \in Readers,
           NEW n, n \in SnapshotRecords, snapshot' = [snapshot EXCEPT ![x] = n],
           n.xmin <= nextXid, \A p \in Procs : tx[p].kind # "none" => n.xmin <= tx[p].xid,
           \A t \in Threads, b \in Rows :
               <<t, b>> \in n.sees => ~Completed(t) /\ row[t][b] = "content",
           UNCHANGED <<head, intent, deleted, history, records, tx, nextXid, answers>>
    PROVE  HistoryInv'
  <1> USE DEF HistoryInv
  <1>1. UNCHANGED <<head, intent, deleted, row, run, acceptance, batches, completion, audits,
                    tx, nextXid, acks, conflicts>>
    BY DEF history, records, answers
  <1>2. /\ snapshot' \in [Readers -> SnapshotRecords] /\ snapshot'[x] = n
        /\ \A y \in Readers : y # x => snapshot'[y] = snapshot[y]
    BY DEF HistoryShapes
  <1>3. HistoryShapes'
    BY <1>1, <1>2 DEF HistoryShapes
  <1>4. TransactionsHold'
    BY <1>1 DEF TransactionsHold, TxHolds, Open, Completed, Content, UsedElsewhere
  <1>5. IdsBelow' /\ LocksExclude' /\ IntentsClose' /\ RequestClosesOneThread'
    BY <1>1 DEF IdsBelow, LocksExclude, Compatible, IntentsClose, RequestClosesOneThread
  <1>6. AnswersHold'
    BY <1>1 DEF AnswersHold, Open, UsedElsewhere
  <1>7. ClearedCounted'
    BY <1>1 DEF ClearedCounted, Completed, Content, Running, Cleared, Open
  <1>8. SnapshotsBounded'
    BY <1>1, <1>2 DEF SnapshotsBounded, Completed, LastBatch
  <1> QED BY <1>3, <1>4, <1>5, <1>6, <1>7, <1>8

\* A snapshot is taken: its xmin is the oldest id in progress, and nothing of a
\* completed history is there to be seen.
LEMMA ReadKeeps ==
    ASSUME HistoryAssumption, HistoryInv, NEW x, x \in Readers, read(x)
    PROVE  HistoryInv'
  <1> USE DEF HistoryInv
  <1>1. PICK m : m = Min(Xids \cup {nextXid})
    OBVIOUS
  <1>2. PICK s : s = {k \in Threads \X Rows : k[2] \in Content(k[1])}
    OBVIOUS
  <1>3. PICK n : n = [xmin |-> m, sees |-> s]
    OBVIOUS
  <1>4. /\ snapshot' = [snapshot EXCEPT ![x] = n]
        /\ UNCHANGED <<head, intent, deleted, history, records, tx, nextXid, answers>>
    BY <1>1, <1>2, <1>3 DEF read
  <1>5. nextXid \in Nat /\ Xids \subseteq Nat
    BY DEF HistoryShapes, Xids, TxRecords
  <1>6. m \in Nat /\ \A i \in Xids \cup {nextXid} : m <= i
    BY <1>1, <1>5, LeastIsLeast
  <1>7. \A p \in Procs : tx[p].kind # "none" => tx[p].xid \in Xids
    BY DEF Xids, Idle
  <1>8. n \in SnapshotRecords /\ n.xmin = m /\ n.sees = s
    BY <1>2, <1>3, <1>6 DEF SnapshotRecords
  <1>9. ASSUME NEW t \in Threads, NEW b \in Rows, <<t, b>> \in s
        PROVE  ~Completed(t) /\ row[t][b] = "content"
    <2>1. b \in Content(t)
      BY <1>2, <1>9
    <2> QED BY <2>1 DEF ClearedCounted, Content
  <1> QED BY <1>4, <1>6, <1>7, <1>8, <1>9, SnapshotKeeps

LEMMA ReadEndsKeeps ==
    ASSUME HistoryAssumption, HistoryInv, NEW x, x \in Readers, read_ends(x)
    PROVE  HistoryInv'
  <1>1. NoSnapshot \in SnapshotRecords /\ NoSnapshot.xmin = 0 /\ NoSnapshot.sees = {}
    BY DEF NoSnapshot, SnapshotRecords
  <1>2. nextXid \in Nat /\ \A p \in Procs : tx[p].xid \in Nat
    BY DEF HistoryInv, HistoryShapes, TxRecords
  <1>3. /\ NoSnapshot.xmin <= nextXid
        /\ \A p \in Procs : tx[p].kind # "none" => NoSnapshot.xmin <= tx[p].xid
    BY <1>1, <1>2
  <1>4. /\ snapshot' = [snapshot EXCEPT ![x] = NoSnapshot]
        /\ UNCHANGED <<head, intent, deleted, history, records, tx, nextXid, answers>>
    BY DEF read_ends
  <1> QED BY <1>1, <1>3, <1>4, SnapshotKeeps

-----------------------------------------------------------------------------
(* The theorems. *)

LEMMA RollbackStep ==
    ASSUME HistoryAssumption, HistoryInv, NEW p, p \in Procs, rollback(p)
    PROVE  HistoryInv'
  <1>1. /\ End(p)
        /\ UNCHANGED <<head, intent, deleted, history, records, snapshot, nextXid, acks>>
        /\ UNCHANGED <<head, intent, acks, conflicts>>
    BY DEF rollback, answers
  <1>2. AnswersHold'
    BY <1>1 DEF HistoryInv, AnswersHold, Open, UsedElsewhere
  <1> QED BY <1>1, <1>2, RollbackKeeps DEF HistoryInv, HistoryShapes

\* The intent of an actor closes the history: close_commit.
LEMMA CloseCommitStep ==
    ASSUME HistoryAssumption, HistoryInv, NEW p, p \in Procs, close_commit(p)
    PROVE  HistoryInv'
  <1>1. PICK i : i = Intent("stop_clear", tx[p].item, tx[p].actor, tx[p].xid)
    OBVIOUS
  <1>2. /\ tx[p].kind = "inserted" /\ Close(tx[p].thread, i) /\ End(p)
        /\ acks' \in {acks, acks \cup {[thread |-> tx[p].thread, intent |-> i]}}
        /\ UNCHANGED <<deleted, history, records, snapshot, nextXid, conflicts>>
    BY <1>1 DEF close_commit
  <1>3. tx[p].item \in Requests /\ tx[p].actor \in Askers /\ tx[p].xid \in Nat
    BY <1>2 DEF HistoryInv, TransactionsHold, TxHolds, HistoryShapes, TxRecords
  <1>4. i.kind = "stop_clear" /\ i.request = tx[p].item /\ i \in IntentRecords
    BY <1>1, <1>3 DEF Intent, IntentRecords
  <1>5. tx[p].item # Nothing
    BY <1>3 DEF HistoryAssumption
  <1> QED BY <1>2, <1>4, <1>5, CloseKeeps

\* Trusted maintenance closes the history of a deleted thread: maintain_commit.
LEMMA MaintainCommitStep ==
    ASSUME HistoryAssumption, HistoryInv, NEW p, p \in Procs, maintain_commit(p)
    PROVE  HistoryInv'
  <1>1. PICK i : i = Intent("maintenance_clear", Nothing, Nothing, tx[p].xid)
    OBVIOUS
  <1>2. /\ tx[p].kind = "maintain" /\ Close(tx[p].thread, i) /\ End(p)
        /\ acks' = acks
        /\ UNCHANGED <<deleted, history, records, snapshot, nextXid, conflicts>>
    BY <1>1 DEF maintain_commit, answers
  <1>3. tx[p].xid \in Nat
    BY DEF HistoryInv, HistoryShapes, TxRecords
  <1>4. i.kind = "maintenance_clear" /\ i.request = Nothing /\ i \in IntentRecords
    BY <1>1, <1>3 DEF Intent, IntentRecords
  <1> QED BY <1>2, <1>4, CloseKeeps

LEMMA ClearBatchStep ==
    ASSUME HistoryAssumption, HistoryInv, NEW p, p \in Procs, NEW t, t \in Threads,
           clear_batch(p, t)
    PROVE  HistoryInv'
  <1>1. PICK s \in BatchRows(t) : Begin(p, "batch", t, Nothing, Nothing, s)
    BY DEF clear_batch
  <1>2. s \in SUBSET Content(t) /\ ClearsBatch(p, t, s)
    BY <1>1 DEF BatchRows, ClearsBatch, clear_batch
  <1> QED BY <1>2, ClearBatchKeeps

LEMMA HistoryInitially ==
    ASSUME HistoryAssumption, HistoryInit
    PROVE  HistoryInv
  <1> USE DEF HistoryInit
  <1>1. NoTx \in TxRecords /\ NoTx.kind = "none"
    BY DEF NoTx, TxRecords, Kinds, Items
  <1>2. NoIntent \in IntentRecords /\ NoIntent.request = Nothing
    BY DEF NoIntent, Intent, IntentRecords
  <1>3. NoSnapshot \in SnapshotRecords /\ NoSnapshot.xmin = 0 /\ NoSnapshot.sees = {}
    BY DEF NoSnapshot, SnapshotRecords
  <1>4. NoCompletion \in [batches : Nat, rows : Nat]
    BY DEF NoCompletion
  <1>5. <<>> \in Seq(BatchRecords)
    OBVIOUS
  <1>6. nextXid \in 1..MaxXid
    BY DEF HistoryAssumption
  <1>7. HistoryShapes
    BY <1>1, <1>2, <1>3, <1>4, <1>5, <1>6 DEF HistoryShapes
  <1>8. \A p \in Procs : tx[p].kind = "none"
    BY <1>1
  <1>9. TransactionsHold /\ IdsBelow /\ LocksExclude
    BY <1>8 DEF TransactionsHold, TxHolds, IdsBelow, LocksExclude, Compatible,
                Clearing, Exclusive, Shared
  <1>10. IntentsClose /\ RequestClosesOneThread /\ AnswersHold
    BY <1>2 DEF IntentsClose, RequestClosesOneThread, AnswersHold
  <1>11. ClearedCounted
    <2>1. ASSUME NEW t \in Threads
          PROVE  Cleared(t) = {} /\ ~Completed(t) /\ batches[t] = <<>> /\ audits[t] = 0
      BY DEF Cleared, Completed
    <2>2. CountRows(<<>>) = 0 /\ Cardinality({}) = 0
      BY CountEmpty, FS_EmptySet
    <2> QED BY <2>1, <2>2 DEF ClearedCounted
  <1>12. SnapshotsBounded
    BY <1>3, <1>8 DEF SnapshotsBounded
  <1> QED BY <1>7, <1>9, <1>10, <1>11, <1>12 DEF HistoryInv

LEMMA HistoryStepKeeps ==
    ASSUME HistoryAssumption, HistoryInv, [HistoryNext]_historyVars
    PROVE  HistoryInv'
  <1>1. ASSUME NEW p \in Procs,
               \/ \E t \in Threads, b \in Rows : write(p, t, b)
               \/ \E t \in Threads, r \in Runs : begin_run(p, t, r)
               \/ write_commit(p) \/ rollback(p)
        PROVE  HistoryInv'
    BY <1>1, WriteKeeps, BeginRunKeeps, WriteCommitKeeps, RollbackStep
  <1>2. ASSUME NEW p \in Procs, Close_steps(p)
        PROVE  HistoryInv'
    BY <1>2, StopClearKeeps, InsertKeeps, CloseCommitStep, MaintainKeeps, MaintainCommitStep
       DEF Close_steps
  <1>3. ASSUME NEW p \in Procs, Clear_steps(p)
        PROVE  HistoryInv'
    BY <1>3, ClearBatchStep, ClearCompletionKeeps, BatchCommitKeeps, CompletionCommitKeeps
       DEF Clear_steps
  <1>4. ASSUME NEW t \in Threads,
               \/ delete_thread(t)
               \/ \E q \in Requests, a \in Askers : classify_closed(t, q, a)
               \/ \E r \in Runs : drain(t, r) \/ user_cancels(t, r) \/ run_ends(t, r)
        PROVE  HistoryInv'
    BY <1>4, DeleteKeeps, ClassifyKeeps, AcceptanceKeeps, RunEndsKeeps
  <1>5. ASSUME NEW x \in Readers, read(x) \/ read_ends(x)
        PROVE  HistoryInv'
    BY <1>5, ReadKeeps, ReadEndsKeeps
  <1>6. CASE UNCHANGED historyVars
    BY <1>6, AsideKeeps DEF historyVars, HistoryInv, HistoryShapes
  <1> QED BY <1>1, <1>2, <1>3, <1>4, <1>5, <1>6 DEF HistoryNext

LEMMA HistoryInvIsSafe ==
    ASSUME HistoryAssumption, HistoryInv
    PROVE  HistorySafety
  <1> USE DEF HistoryInv
  <1>1. audits \in [Threads -> {0, 1}]
    BY DEF HistoryShapes, ClearedCounted
  <1>2. \A t \in Threads : (head[t] = "closed") <=> (intent[t] # NoIntent)
    BY DEF HistoryShapes, IntentsClose, NoIntent, Intent
  <1>3. HistoryTypeOK
    BY <1>1, <1>2 DEF HistoryTypeOK, HistoryShapes
  <1>4. CompletedMeansErased
    BY DEF CompletedMeansErased, ClearedCounted, SnapshotsBounded
  <1>5. CompletionExact
    BY DEF CompletionExact, ClearedCounted
  <1>6. AcknowledgedIntentHolds
    BY DEF AcknowledgedIntentHolds, AnswersHold
  <1> QED BY <1>3, <1>4, <1>5, <1>6 DEF HistorySafety

\* Whatever the transactions, crashes, readers and replays of any number of processes
\* do: a completed clear left no body, no run and no snapshot that shows one, counts every
\* row once, and an acknowledged intent is the one that closed its thread.
THEOREM CompletedClearIsTrue ==
    ASSUME HistoryAssumption
    PROVE  HistorySpec => []HistorySafety
  <1>1. HistoryInit => HistoryInv
    BY HistoryInitially
  <1>2. HistoryInv /\ [HistoryNext]_historyVars => HistoryInv'
    BY HistoryStepKeeps
  <1>3. HistoryInv => HistorySafety
    BY HistoryInvIsSafe
  <1> QED BY <1>1, <1>2, <1>3, PTL DEF HistorySpec

\* Which steps touch the bodies and the runs.
LEMMA ClosedStepsShrink ==
    ASSUME HistoryAssumption, HistoryInv, [HistoryNext]_historyVars,
           NEW t, t \in Threads, ~Open(t)
    PROVE  Content(t)' \subseteq Content(t) /\ Running(t)' \subseteq Running(t)
  <1> USE DEF HistoryInv
  <1>1. CASE UNCHANGED <<row, run>>
    BY <1>1 DEF Content, Running
  <1>2. ASSUME NEW p \in Procs, write_commit(p)
        PROVE  Content(t)' \subseteq Content(t) /\ Running(t)' \subseteq Running(t)
    <2>1. PICK u : u = tx[p].thread
      OBVIOUS
    <2>2. u \in Threads /\ Open(u)
      BY <1>2, <2>1 DEF write_commit, TransactionsHold, TxHolds
    <2>3. /\ \A v \in Threads : v # u => row'[v] = row[v]
          /\ \A v \in Threads : v # u => run'[v] = run[v]
      <3>1. PICK i : i = tx[p].item
        OBVIOUS
      <3>2. \/ /\ row' = [row EXCEPT ![u][i] = IF @ = "absent" THEN "content" ELSE @]
               /\ run' = run
            \/ /\ run' = [run EXCEPT ![u][i] = IF @ = "absent" THEN "running" ELSE @]
               /\ row' = row
        BY <1>2, <2>1, <3>1 DEF write_commit
      <3> QED BY <3>2 DEF HistoryShapes
    <2> QED BY <2>2, <2>3 DEF Content, Running
  <1>3. ASSUME NEW p \in Procs, batch_commit(p)
        PROVE  Content(t)' \subseteq Content(t) /\ Running(t)' \subseteq Running(t)
    <2>1. PICK u : u = tx[p].thread
      OBVIOUS
    <2>2. PICK s : s = tx[p].rows
      OBVIOUS
    <2>3. /\ row' = [row EXCEPT ![u] = [b \in Rows |-> IF b \in s THEN "cleared" ELSE @[b]]]
          /\ run' = run
      BY <1>3, <2>1, <2>2 DEF batch_commit
    <2>4. row[t] \in [Rows -> {"absent", "content", "cleared"}]
      BY DEF HistoryShapes
    <2>5. row'[t] = row[t] \/ row'[t] = [b \in Rows |-> IF b \in s THEN "cleared" ELSE row[t][b]]
      BY <2>3 DEF HistoryShapes
    <2> QED BY <2>3, <2>4, <2>5 DEF Content, Running
  <1>4. ASSUME NEW u \in Threads, NEW r \in Runs, run_ends(u, r)
        PROVE  Content(t)' \subseteq Content(t) /\ Running(t)' \subseteq Running(t)
    <2>1. row' = row /\ run' = [run EXCEPT ![u][r] = "terminal"]
      BY <1>4 DEF run_ends
    <2>2. run[t] \in [Runs -> {"absent", "running", "terminal"}]
      BY DEF HistoryShapes
    <2>3. run'[t] = run[t] \/ run'[t] = [run[t] EXCEPT ![r] = "terminal"]
      BY <2>1 DEF HistoryShapes
    <2> QED BY <2>1, <2>2, <2>3 DEF Content, Running
  <1>5. \/ UNCHANGED <<row, run>>
        \/ \E p \in Procs : write_commit(p) \/ batch_commit(p)
        \/ \E u \in Threads, r \in Runs : run_ends(u, r)
    <2>1. ASSUME NEW p \in Procs, Close_steps(p)
          PROVE  UNCHANGED <<row, run>>
      BY <2>1 DEF Close_steps, stop_clear, insert_intent, close_commit, maintain,
                  maintain_commit, history
    <2>2. ASSUME NEW p \in Procs, Clear_steps(p)
          PROVE  UNCHANGED <<row, run>> \/ batch_commit(p)
      BY <2>2 DEF Clear_steps, clear_batch, clear_completion, completion_commit, history
    <2>3. ASSUME NEW p \in Procs,
                 \/ \E u \in Threads, b \in Rows : write(p, u, b)
                 \/ \E u \in Threads, r \in Runs : begin_run(p, u, r)
                 \/ rollback(p)
          PROVE  UNCHANGED <<row, run>>
      BY <2>3 DEF write, begin_run, rollback, history
    <2>4. ASSUME NEW u \in Threads,
                 \/ delete_thread(u)
                 \/ \E q \in Requests, a \in Askers : classify_closed(u, q, a)
                 \/ \E r \in Runs : drain(u, r) \/ user_cancels(u, r)
          PROVE  UNCHANGED <<row, run>>
      BY <2>4 DEF delete_thread, classify_closed, drain, user_cancels, history
    <2>5. ASSUME NEW x \in Readers, read(x) \/ read_ends(x)
          PROVE  UNCHANGED <<row, run>>
      BY <2>5 DEF read, read_ends, history
    <2>6. CASE UNCHANGED historyVars
      BY <2>6 DEF historyVars
    <2> QED BY <2>1, <2>2, <2>3, <2>4, <2>5, <2>6 DEF HistoryNext
  <1> QED BY <1>1, <1>2, <1>3, <1>4, <1>5

\* From the moment a history is closed no body appears in it and no run begins,
\* although writers that were admitted before may still commit in other threads.
THEOREM ClosedHistoryNeverGrows ==
    ASSUME HistoryAssumption
    PROVE  HistorySpec => ClosedNeverGrows
  <1>1. HistoryInit => HistoryInv
    BY HistoryInitially
  <1>2. HistoryInv /\ [HistoryNext]_historyVars => HistoryInv'
    BY HistoryStepKeeps
  <1>3. HistoryInv /\ [HistoryNext]_historyVars =>
            [\A t \in Threads : ~Open(t) =>
               /\ Content(t)' \subseteq Content(t)
               /\ Running(t)' \subseteq Running(t)]_historyVars
    BY ClosedStepsShrink
  <1> QED BY <1>1, <1>2, <1>3, PTL DEF HistorySpec, ClosedNeverGrows

=============================================================================
