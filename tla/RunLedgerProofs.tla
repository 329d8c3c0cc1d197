--------------------------- MODULE RunLedgerProofs ---------------------------
(* The ledger keeps its promises, for any number of runs and replicas. *)
EXTENDS RunLedger, TLAPS

\* A run that has not begun has an empty journal.
Unwritten == \A r \in Runs : status[r] = "absent" => length[r] = 0

\* The conjunction is inductive.  Unwritten makes Begin an append at sequence 0;
\* Exclusive carries Bound over a takeover, which moves the epoch of one run
\* only.
LedgerInv ==
    /\ LedgerTyped
    /\ Unwritten
    /\ Dense
    /\ Ordered
    /\ Ends
    /\ Exclusive
    /\ Bound

\* An event and its sealed form agree on everything but the kind, and on the
\* kind when it is terminal.
LEMMA SealedEntries ==
    ASSUME NEW e \in Entry
    PROVE  /\ SealedEntry(e) \in Entry
           /\ SealedEntry(e).seq = e.seq
           /\ SealedEntry(e).at = e.at
           /\ SealedEntry(e).kind \in Final <=> e.kind \in Final
           /\ e.kind \in Final => SealedEntry(e).kind = e.kind
  BY DEF SealedEntry, Entry, Kind, Content, Final

\* The first state.
LEMMA LedgerInitial == LedgerInit => LedgerInv
  BY DEF LedgerInit, LedgerInv, LedgerTyped, Unwritten, Dense, Ordered, Ends,
         Exclusive, Bound, Foreground, Final, Entry

\* Types, over any event written: kept is the journal or its sealed form.
LEMMA WriteTyped ==
    ASSUME LedgerTyped, NEW r \in Runs, NEW k \in Kind, NEW kept \in SUBSET Entry,
           token' \in Nat, Write(r, k, kept)
    PROVE  /\ clock' \in Nat
           /\ epoch' \in [Runs -> Nat]
           /\ length' \in [Runs -> Nat]
           /\ journal' \in [Runs -> SUBSET Entry]
  BY DEF LedgerTyped, Write, Entry

\* What Finish keeps of a journal: the same sequences, each once.
Keeps(r, kept) ==
    /\ kept \in SUBSET Entry
    /\ \A e \in kept : \E f \in journal[r] : e.seq = f.seq /\ e.at = f.at
    /\ \A f \in journal[r] : \E e \in kept : e.seq = f.seq
    /\ \A e, g \in kept : e.seq = g.seq \/ e.at = g.at => e = g

\* Both forms of a journal that an event is written over keep it.
LEMMA JournalKept ==
    ASSUME LedgerTyped, Dense, Ordered, NEW r \in Runs
    PROVE  Keeps(r, journal[r]) /\ Keeps(r, Sealed(journal[r]))
<1>1. journal[r] \in SUBSET Entry
  BY DEF LedgerTyped
<1>2. Keeps(r, journal[r])
  BY <1>1 DEF Keeps, Dense, Ordered
<1>3. Keeps(r, Sealed(journal[r]))
  <2>1. Sealed(journal[r]) \in SUBSET Entry
    BY <1>1, SealedEntries DEF Sealed
  <2>2. \A e \in Sealed(journal[r]) : \E f \in journal[r] :
            e = SealedEntry(f) /\ e.seq = f.seq /\ e.at = f.at
    BY <1>1, SealedEntries DEF Sealed
  <2>3. \A f \in journal[r] : SealedEntry(f) \in Sealed(journal[r])
    BY DEF Sealed
  <2>4. \A f \in journal[r] : \E e \in Sealed(journal[r]) : e.seq = f.seq
    BY <1>1, <2>3, SealedEntries
  <2>5. \A f, h \in journal[r] : f.seq = h.seq \/ f.at = h.at => f = h
    BY <1>2 DEF Keeps
  <2>6. \A e, g \in Sealed(journal[r]) : e.seq = g.seq \/ e.at = g.at => e = g
    BY <2>2, <2>5
  <2> QED
    BY <2>1, <2>2, <2>4, <2>6 DEF Keeps
<1> QED
  BY <1>2, <1>3

\* An event written at the end of a kept journal leaves every journal dense.
LEMMA WriteDense ==
    ASSUME LedgerTyped, Dense, token' \in Nat,
           NEW r \in Runs, NEW k \in Kind, NEW kept, Keeps(r, kept), Write(r, k, kept)
    PROVE  Dense'
<1> DEFINE new == [seq |-> length[r], at |-> clock, kind |-> k, by |-> token']
<1>1. /\ journal'[r] = kept \cup {new}
      /\ length'[r] = length[r] + 1
      /\ \A q \in Runs \ {r} : journal'[q] = journal[q] /\ length'[q] = length[q]
  BY DEF LedgerTyped, Write
<1>2. length \in [Runs -> Nat] /\ new.seq = length[r]
  BY DEF LedgerTyped
<1>3. \A e \in kept : e.seq \in Nat /\ e.seq < length[r]
  BY DEF Keeps, Dense, Entry
<1> HIDE DEF new
<1>4. \A e \in journal'[r] : e.seq < length'[r]
  BY <1>1, <1>2, <1>3
<1>5. \A n \in 0 .. length'[r] - 1 : \E e \in journal'[r] : e.seq = n
  <2> SUFFICES ASSUME NEW n \in 0 .. length[r]
               PROVE  \E e \in journal'[r] : e.seq = n
    BY <1>1, <1>2
  <2>1. CASE n = length[r]
    BY <2>1, <1>1, <1>2
  <2>2. CASE n # length[r]
    <3>1. n \in 0 .. length[r] - 1
      BY <2>2, <1>2
    <3>2. PICK f \in journal[r] : f.seq = n
      BY <3>1 DEF Dense
    <3> QED
      BY <3>2, <1>1 DEF Keeps
  <2> QED
    BY <2>1, <2>2
<1>6. \A e, f \in journal'[r] : e.seq = f.seq => e = f
  BY <1>1, <1>2, <1>3 DEF Keeps
<1> QED
  BY <1>1, <1>4, <1>5, <1>6 DEF Dense

\* The new event has the thread sequence no other event has.
LEMMA WriteOrdered ==
    ASSUME LedgerTyped, Ordered, token' \in Nat,
           NEW r \in Runs, NEW k \in Kind, NEW kept, Keeps(r, kept), Write(r, k, kept)
    PROVE  Ordered'
<1> DEFINE new == [seq |-> length[r], at |-> clock, kind |-> k, by |-> token']
<1>1. /\ journal'[r] = kept \cup {new}
      /\ clock' = clock + 1
      /\ \A q \in Runs \ {r} : journal'[q] = journal[q]
  BY DEF LedgerTyped, Write
<1>2. clock \in Nat /\ new.at = clock
  BY DEF LedgerTyped
<1>3. \A q \in Runs : \A e \in journal[q] : e.at \in Nat /\ e.at < clock
  BY DEF Ordered, LedgerTyped, Entry
<1>4. \A e \in kept : e.at \in Nat /\ e.at < clock
  BY <1>3 DEF Keeps
<1> HIDE DEF new
<1>5. \A q \in Runs : \A e \in journal'[q] : e.at < clock'
  BY <1>1, <1>2, <1>3, <1>4
<1>6. \A p, q \in Runs \ {r} : \A e \in journal'[p], f \in journal'[q] :
        e.at = f.at => p = q /\ e = f
  BY <1>1 DEF Ordered
<1>7. \A e, f \in journal'[r] : e.at = f.at => e = f
  BY <1>1, <1>2, <1>4 DEF Keeps
<1>8. \A q \in Runs \ {r} : \A e \in journal'[r], f \in journal'[q] : e.at # f.at
  BY <1>1, <1>2, <1>3, <1>4 DEF Keeps, Ordered
<1> QED
  BY <1>5, <1>6, <1>7, <1>8 DEF Ordered

\* The journal of a run ends with its terminal event also after a step.
LEMMA WriteEnds ==
    ASSUME LedgerTyped, Dense, Ends, token' \in Nat,
           NEW r \in Runs, NEW k \in Kind, NEW kept, Keeps(r, kept), Write(r, k, kept),
           status[r] \notin Final,
           \A e \in kept : \E f \in journal[r] : e.kind \in Final => f.kind = e.kind,
           \A q \in Runs \ {r} : status'[q] = status[q],
           k \in Final => status'[r] = k,
           status'[r] \in Final => status'[r] = k
    PROVE  Ends'
<1> DEFINE new == [seq |-> length[r], at |-> clock, kind |-> k, by |-> token']
<1>1. /\ journal'[r] = kept \cup {new}
      /\ length'[r] = length[r] + 1
      /\ \A q \in Runs \ {r} : journal'[q] = journal[q] /\ length'[q] = length[q]
  BY DEF LedgerTyped, Write
<1>2. new.seq = length[r] /\ new.kind = k
  OBVIOUS
<1>3. \A e \in kept : e.kind \notin Final
  BY DEF Ends
<1> HIDE DEF new
<1>4. \A e \in journal'[r] : e.kind \in Final => e.kind = status'[r] /\ e.seq + 1 = length'[r]
  BY <1>1, <1>2, <1>3
<1>5. status'[r] \in Final => \E e \in journal'[r] : e.kind = status'[r]
  BY <1>1, <1>2
<1> QED
  BY <1>1, <1>4, <1>5 DEF Ends

\* Begin, Append and Finish write an event; each keeps the whole invariant.
LEMMA LedgerStep ==
    ASSUME LedgerInv, [LedgerNext]_ledger
    PROVE  LedgerInv'
<1> USE DEF LedgerInv
<1>1. ASSUME NEW r \in Runs, Begin(r)
      PROVE  LedgerInv'
  <2>1. token' \in Nat
    BY <1>1 DEF Begin, Fence, LedgerTyped
  <2>2. Keeps(r, journal[r]) /\ Write(r, "started", journal[r]) /\ "started" \in Kind
    BY <1>1, JournalKept DEF Begin, Kind
  <2>3. /\ status'[r] = "running"
        /\ \A q \in Runs \ {r} : status'[q] = status[q] /\ status[q] \notin Foreground
    BY <1>1 DEF Begin, LedgerTyped
  <2>4. LedgerTyped'
    BY <1>1, <2>1, <2>2, WriteTyped DEF Begin, LedgerTyped, Keeps
  <2>5. Dense' /\ Ordered'
    BY <2>1, <2>2, WriteDense, WriteOrdered
  <2>6. Ends'
    <3>1. status[r] \notin Final /\ status'[r] \notin Final /\ "started" \notin Final
      BY <1>1, <2>3 DEF Begin, Final
    <3> QED
      BY <2>1, <2>2, <2>3, <3>1, WriteEnds
  <2>7. Exclusive'
    BY <2>3 DEF Exclusive
  <2>8. Unwritten' /\ Bound'
    BY <2>2, <2>3 DEF Unwritten, Bound, Write, Foreground, LedgerTyped
  <2> QED
    BY <2>4, <2>5, <2>6, <2>7, <2>8
<1>2. ASSUME NEW r \in Runs, NEW k \in Content, Append(r, k)
      PROVE  LedgerInv'
  <2>1. token' \in Nat /\ status' = status /\ status[r] = "running" /\ token' = token
    BY <1>2 DEF Append, LedgerTyped
  <2>2. Keeps(r, journal[r]) /\ Write(r, k, journal[r]) /\ k \in Kind
    BY <1>2, JournalKept DEF Append, Kind
  <2>3. k \notin Final /\ status[r] \notin Final
    BY <1>2, <2>1 DEF Final, Content
  <2>4. LedgerTyped'
    BY <2>1, <2>2, WriteTyped DEF LedgerTyped, Keeps
  <2>5. Dense' /\ Ordered'
    BY <2>1, <2>2, WriteDense, WriteOrdered
  <2>6. Ends'
    BY <2>1, <2>2, <2>3, WriteEnds
  <2>7. Exclusive'
    BY <2>1 DEF Exclusive
  <2>8. Unwritten' /\ Bound'
    BY <2>1, <2>2 DEF Unwritten, Bound, Write, LedgerTyped
  <2> QED
    BY <2>4, <2>5, <2>6, <2>7, <2>8
<1>3. ASSUME NEW r \in Runs, NEW k \in Final, Finish(r, k)
      PROVE  LedgerInv'
  <2> DEFINE kept == Sealed(journal[r])
  <2>1. token' \in Nat
    BY <1>3 DEF Finish, Fence, LedgerTyped
  <2>2. Keeps(r, kept) /\ Write(r, k, kept) /\ k \in Kind
    BY <1>3, JournalKept DEF Finish, Kind
  <2>3. /\ status[r] = "running"
        /\ status'[r] = k
        /\ \A q \in Runs \ {r} : status'[q] = status[q]
    BY <1>3 DEF Finish, LedgerTyped
  <2>4. \A e \in kept : \E f \in journal[r] : e.kind \in Final => f.kind = e.kind
    BY SealedEntries DEF Sealed, LedgerTyped
  <2>5. status[r] \notin Final
    BY <2>3 DEF Final
  <2> HIDE DEF kept
  <2>6. LedgerTyped'
    BY <1>3, <2>1, <2>2, WriteTyped DEF Finish, LedgerTyped, Keeps
  <2>7. Dense' /\ Ordered'
    BY <2>1, <2>2, WriteDense, WriteOrdered
  <2>8. Ends'
    BY <2>1, <2>2, <2>3, <2>4, <2>5, WriteEnds
  <2>9. \A q \in Runs \ {r} : status[q] \notin Foreground
    BY <2>3 DEF Exclusive, Foreground
  <2>10. Exclusive'
    BY <2>3, <2>9 DEF Exclusive
  <2>11. Unwritten' /\ Bound'
    BY <2>2, <2>3, <2>9 DEF Unwritten, Bound, Write, Foreground, LedgerTyped, Final
  <2> QED
    BY <2>6, <2>7, <2>8, <2>10, <2>11
<1>4. ASSUME NEW p \in Replicas, NEW r \in Runs, Takeover(p, r)
      PROVE  LedgerInv'
  <2>1. LedgerTyped' /\ Unwritten' /\ Dense' /\ Ordered' /\ Ends' /\ Exclusive'
    BY <1>4 DEF Takeover, Fence, LedgerTyped, Unwritten, Dense, Ordered, Ends, Exclusive
  <2>2. \A q \in Runs \ {r} : status[q] # "running"
    BY <1>4 DEF Takeover, Exclusive, Foreground
  <2>3. Bound'
    BY <1>4, <2>2 DEF Takeover, Bound, LedgerTyped
  <2> QED
    BY <2>1, <2>3
<1>5. ASSUME UNCHANGED ledger
      PROVE  LedgerInv'
  BY <1>5 DEF ledger, LedgerTyped, Unwritten, Dense, Ordered, Ends, Exclusive, Bound
<1> QED
  BY <1>1, <1>2, <1>3, <1>4, <1>5 DEF LedgerNext

\* The journals of a thread stay dense, ordered and closed by their terminal,
\* at most one run is in the foreground, and a running run is bound to the
\* current token: the promises of the ledger hold in every behaviour of it.
THEOREM LedgerSafe == LedgerSpec => []LedgerInv
<1>1. LedgerInv /\ [LedgerNext]_ledger => LedgerInv'
  BY LedgerStep
<1> QED
  BY LedgerInitial, <1>1, PTL DEF LedgerSpec

\* What a step may do: no run returns to before its begin or leaves its end, a
\* begun run is only ever bound to a later token, and the token rises with
\* every change of its holder.
Onward ==
    /\ \A r \in Runs :
        /\ status'[r] = "absent" => status[r] = "absent"
        /\ status[r] \in Final => status'[r] = status[r]
        /\ status[r] # "absent" => epoch'[r] >= epoch[r]
    /\ token' >= token
    /\ holder' # holder => token' > token

LEMMA LedgerOnward ==
    ASSUME LedgerInv, [LedgerNext]_ledger
    PROVE  Onward
<1> USE DEF LedgerInv, Onward
<1>1. ASSUME NEW r \in Runs, Begin(r)
      PROVE  Onward
  BY <1>1 DEF Begin, Fence, Write, LedgerTyped, Final
<1>2. ASSUME NEW r \in Runs, NEW k \in Content, Append(r, k)
      PROVE  Onward
  BY <1>2 DEF Append, Write, LedgerTyped, Bound
<1>3. ASSUME NEW r \in Runs, NEW k \in Final, Finish(r, k)
      PROVE  Onward
  BY <1>3 DEF Finish, Fence, Write, LedgerTyped, Bound, Final
<1>4. ASSUME NEW p \in Replicas, NEW r \in Runs, Takeover(p, r)
      PROVE  Onward
  BY <1>4 DEF Takeover, Fence, LedgerTyped, Bound
<1>5. CASE UNCHANGED ledger
  BY <1>5 DEF ledger, LedgerTyped
<1> QED
  BY <1>1, <1>2, <1>3, <1>4, <1>5 DEF LedgerNext

\* An event beyond the end of a journal carries the token that is current after
\* the step, for the lease and for its run.
Fenced ==
    \A r \in Runs : \A e \in journal'[r] :
        e.seq >= length[r] => e.by = token' /\ e.by = epoch'[r]

LEMMA WriteFenced ==
    ASSUME LedgerTyped, Dense, NEW r \in Runs, NEW k \in Kind, NEW kept,
           Keeps(r, kept), Write(r, k, kept)
    PROVE  Fenced
<1>1. /\ epoch'[r] = token'
      /\ journal'[r] = kept \cup {[seq |-> length[r], at |-> clock, kind |-> k, by |-> token']}
      /\ \A q \in Runs \ {r} : journal'[q] = journal[q]
  BY DEF Write, LedgerTyped
<1>2. \A e \in kept : e.seq < length[r]
  BY DEF Keeps, Dense
<1>3. /\ \A q \in Runs : length[q] \in Nat
      /\ \A q \in Runs : \A e \in journal[q] : e.seq \in Nat
      /\ \A e \in kept : e.seq \in Nat
  BY DEF LedgerTyped, Keeps, Entry
<1>4. ASSUME NEW e \in journal'[r], e.seq >= length[r]
      PROVE  e.by = token' /\ e.by = epoch'[r]
  <2>1. e \notin kept
    BY <1>2, <1>3, <1>4
  <2> QED
    BY <1>1, <1>4, <2>1
<1>5. ASSUME NEW q \in Runs \ {r}, NEW e \in journal'[q]
      PROVE  ~(e.seq >= length[q])
  BY <1>1, <1>3, <1>5 DEF Dense
<1> QED
  BY <1>4, <1>5 DEF Fenced

LEMMA LedgerFenced ==
    ASSUME LedgerInv, [LedgerNext]_ledger
    PROVE  Fenced
<1> USE DEF LedgerInv
<1>1. ASSUME NEW r \in Runs, Begin(r)
      PROVE  Fenced
  BY <1>1, WriteFenced, JournalKept DEF Begin, Kind
<1>2. ASSUME NEW r \in Runs, NEW k \in Content, Append(r, k)
      PROVE  Fenced
  BY <1>2, WriteFenced, JournalKept DEF Append, Kind
<1>3. ASSUME NEW r \in Runs, NEW k \in Final, Finish(r, k)
      PROVE  Fenced
  BY <1>3, WriteFenced, JournalKept DEF Finish, Kind
<1>4. CASE UNCHANGED <<journal, length>>
  BY <1>4 DEF Fenced, Dense, LedgerTyped, Entry
<1> QED
  BY <1>1, <1>2, <1>3, <1>4 DEF LedgerNext, Takeover, ledger

=============================================================================
