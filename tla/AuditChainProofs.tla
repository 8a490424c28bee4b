--------------------------- MODULE AuditChainProofs ---------------------------
(***************************************************************************)
(* Proofs about the audit chain, for every set of payloads, every          *)
(* rendering of them and chains of any length.                             *)
(***************************************************************************)
EXTENDS AuditChain, TLAPS

-----------------------------------------------------------------------------
(* Prefixes of a sequence, which is what hashes are. *)

(* A prefix is a sequence of the same elements, of the length asked for. *)
LEMMA PrefixType ==
    ASSUME NEW S, NEW s \in Seq(S), NEW k \in 0..Len(s)
    PROVE  /\ SubSeq(s, 1, k) \in Seq(S)
           /\ Len(SubSeq(s, 1, k)) = k
           /\ \A j \in 1..k : SubSeq(s, 1, k)[j] = s[j]
OBVIOUS

(* What was appended to a prefix to get a longer prefix is the next element. *)
LEMMA PrefixStep ==
    ASSUME NEW S, NEW s \in Seq(S), NEW b \in S,
           NEW i \in 1..(Len(s) + 1), NEW k \in 1..Len(s),
           Append(SubSeq(s, 1, i - 1), b) = SubSeq(s, 1, k)
    PROVE  k = i /\ b = s[i]
<1>1. /\ SubSeq(s, 1, i - 1) \in Seq(S)
      /\ Len(SubSeq(s, 1, i - 1)) = i - 1
  BY PrefixType, i - 1 \in 0..Len(s)
<1>2. Len(Append(SubSeq(s, 1, i - 1), b)) = i
  BY <1>1
<1>3. k = i
  BY <1>2, PrefixType
<1>4. Append(SubSeq(s, 1, i - 1), b)[i] = b
  BY <1>1
<1> QED
  BY <1>3, <1>4, PrefixType

(* Appending the next element to a prefix gives the prefix one longer. *)
LEMMA PrefixGrow ==
    ASSUME NEW S, NEW s \in Seq(S), NEW i \in 1..Len(s)
    PROVE  Append(SubSeq(s, 1, i - 1), s[i]) = SubSeq(s, 1, i)
OBVIOUS

(* A prefix of a sequence is the same prefix of any extension of it. *)
LEMMA PrefixStable ==
    ASSUME NEW S, NEW s \in Seq(S), NEW b \in S, NEW k \in 0..Len(s)
    PROVE  SubSeq(Append(s, b), 1, k) = SubSeq(s, 1, k)
OBVIOUS

-----------------------------------------------------------------------------
(* Type correctness *)

(* Reading the entries now gives a sequence of rows, one per entry. *)
LEMMA DereferencedType ==
    ASSUME TypeOK
    PROVE  Dereferenced \in Seq(Row) /\ Len(Dereferenced) = Len(entries)
<1>1. \A k \in 1..Len(entries) :
        /\ entries[k] \in AuditEntry
        /\ lists[entries[k].list] \in Payload
  <2> TAKE k \in 1..Len(entries)
  <2>1. entries[k] \in AuditEntry
    BY DEF TypeOK
  <2>2. entries[k].list \in List
    BY <2>1 DEF AuditEntry
  <2> QED
    BY <2>1, <2>2 DEF TypeOK
<1>2. Dereferenced \in [1..Len(entries) -> Row]
  BY <1>1 DEF Dereferenced, Row, AuditEntry
<1>3. Len(entries) \in Nat
  BY DEF TypeOK
<1> QED
  BY <1>2, <1>3 DEF Dereferenced

(* compute returns a longer hash when it does not raise. *)
LEMMA ComputeType ==
    ASSUME ChainAssumption, NEW h \in Header, NEW p \in Payload,
           NEW q \in Hash, ~ComputeRaises(p)
    PROVE  compute(h, p, q) \in Hash
<1>1. Render[p] \in Rendering
  BY DEF ChainAssumption, ComputeRaises
<1>2. [header |-> h, text |-> Render[p]] \in Body
  BY <1>1 DEF Body
<1> QED
  BY <1>2 DEF compute, Hash

(* Every reachable state is well typed (AuditChainWriter and AuditEntry). *)
THEOREM TypeCorrect == Spec => []TypeOK
<1>1. Init => TypeOK
  BY ChainAssumption DEF Init, TypeOK, GENESIS_HASH, Hash, Row, ChainAssumption
<1>2. TypeOK /\ [Next]_vars => TypeOK'
  <2> SUFFICES ASSUME TypeOK, [Next]_vars
               PROVE  TypeOK'
    OBVIOUS
  <2> USE ChainAssumption
  <2>1. ASSUME NEW h \in Header, NEW l \in List, append(h, l)
        PROVE  TypeOK'
    <3>1. lists[l] \in Payload /\ head \in Hash
      BY DEF TypeOK
    <3>2. head' \in Hash
      BY <2>1, <3>1, ComputeType DEF append
    <3>3. [header |-> h, list |-> l, prev_hash |-> head, entry_hash |-> head']
            \in AuditEntry
      BY <3>1, <3>2 DEF AuditEntry
    <3>4. entries' \in Seq(AuditEntry)
      BY <2>1, <3>3 DEF append, TypeOK
    <3> QED
      BY <2>1, <3>2, <3>4 DEF append, TypeOK, copy, loop
  <2>2. ASSUME NEW l \in List, NEW p \in Payload, CallerWrites(l, p)
        PROVE  TypeOK'
    BY <2>2 DEF CallerWrites, TypeOK, writer, copy, loop
  <2>3. CASE Persist
    BY <2>3, DereferencedType DEF Persist, TypeOK, writer, loop, ChainAssumption
  <2>4. ASSUME NEW newRows \in Seq(Row), Damaged(newRows)
        PROVE  TypeOK'
    BY <2>4 DEF Damaged, TypeOK, writer, loop, ChainAssumption
  <2>5. CASE LoseRow
    <3>1. PICK k \in DOMAIN storedRows : Damaged(Without(storedRows, k))
      BY <2>5 DEF LoseRow
    <3>2. storedRows \in Seq(Row) /\ k \in 1..Len(storedRows)
      BY <3>1 DEF TypeOK
    <3>3. Len(storedRows) - 1 \in Nat
      BY <3>2
    <3>4. Without(storedRows, k) \in [1..(Len(storedRows) - 1) -> Row]
      BY <3>2 DEF Without
    <3>5. Without(storedRows, k) \in Seq(Row)
      BY <3>3, <3>4
    <3> QED
      BY <3>1, <3>5, <2>4
  <2>6. CASE SwapRows
    <3>1. PICK j \in DOMAIN storedRows, k \in DOMAIN storedRows :
            Damaged([storedRows EXCEPT ![j] = storedRows[k],
                                        ![k] = storedRows[j]])
      BY <2>6 DEF SwapRows
    <3>2. [storedRows EXCEPT ![j] = storedRows[k], ![k] = storedRows[j]]
            \in Seq(Row)
      BY <3>1 DEF TypeOK
    <3> QED
      BY <3>1, <3>2, <2>4
  <2>7. CASE RepeatRow
    <3>1. PICK k \in DOMAIN storedRows :
            Damaged(Append(storedRows, storedRows[k]))
      BY <2>7 DEF RepeatRow
    <3>2. Append(storedRows, storedRows[k]) \in Seq(Row)
      BY <3>1 DEF TypeOK
    <3> QED
      BY <3>1, <3>2, <2>4
  <2>8. CASE AlterRow
    <3>1. PICK k \in DOMAIN storedRows, h \in Header, p \in Payload :
            Damaged([storedRows EXCEPT ![k] = Reworded(storedRows[k], h, p)])
      BY <2>8 DEF AlterRow
    <3>2. storedRows \in Seq(Row) /\ storedRows[k] \in Row
      BY <3>1 DEF TypeOK
    <3>3. Reworded(storedRows[k], h, p) \in Row
      BY <3>2 DEF Row, Reworded
    <3>4. [storedRows EXCEPT ![k] = Reworded(storedRows[k], h, p)] \in Seq(Row)
      BY <3>2, <3>3
    <3> QED
      BY <3>1, <3>4, <2>4
  <2>9. ASSUME NEW rs \in Seq(Row), NEW hd \in Hash, BeginVerify(rs, hd)
        PROVE  TypeOK'
    BY <2>9 DEF BeginVerify, TypeOK, writer, copy, GENESIS_HASH, Hash
  <2>10. CASE VerifyOwn
    <3>1. head \in Hash
      BY DEF TypeOK
    <3> QED
      BY <2>10, <2>9, <3>1, DereferencedType DEF VerifyOwn
  <2>11. CASE VerifyStored
    <3>1. storedRows \in Seq(Row) /\ storedHead \in Hash
      BY DEF TypeOK
    <3> QED
      BY <2>11, <2>9, <3>1 DEF VerifyStored
  <2>12. CASE VerifyNext
    <3>1. rows[next] \in Row
      BY <2>12 DEF VerifyNext, TypeOK
    <3>2. rows[next].entry_hash \in Hash
      BY <3>1 DEF Row
    <3> QED
      BY <2>12, <3>2 DEF VerifyNext, TypeOK, writer, copy
  <2>13. ASSUME NEW v \in {"True", "False", "raised"}, Return(v)
         PROVE  TypeOK'
    BY <2>13 DEF Return, TypeOK, writer, copy
  <2>14. CASE VerifyMismatch
    BY <2>14, <2>13 DEF VerifyMismatch
  <2>15. CASE VerifyRaises
    BY <2>15, <2>13 DEF VerifyRaises
  <2>16. CASE VerifyDone
    BY <2>16, <2>13 DEF VerifyDone
  <2>17. CASE UNCHANGED vars
    BY <2>17 DEF vars, writer, copy, loop, TypeOK
  <2> QED
    BY <2>1, <2>2, <2>3, <2>5, <2>6, <2>7, <2>8, <2>10, <2>11, <2>12,
       <2>14, <2>15, <2>16, <2>17 DEF Next
<1> QED
  BY <1>1, <1>2, PTL DEF Spec

-----------------------------------------------------------------------------
(* What verify concludes *)

(* A hash some append returned: it commits to a prefix of what was          *)
(* appended.                                                                *)
Committed(h) == \E k \in 1..Len(head) : h = SubSeq(head, 1, k)

(* Nothing can be appended under an algorithm the host cannot compute.      *)
NothingUnsupported == algo \notin Supported => Len(head) = 0

(* Storage moves hashes about but makes none up.                            *)
OnlyCommitted ==
    /\ \A k \in 1..Len(storedRows) : Committed(storedRows[k].entry_hash)
    /\ \A k \in 1..Len(rows) : Committed(rows[k].entry_hash)

(* The loop invariant of verify: the rows passed so far say what was        *)
(* appended, and prev is the hash of the last of them.                      *)
LoopInv ==
    pc = "loop" =>
        /\ verdict = "none"
        /\ next <= Len(rows) + 1
        /\ next <= Len(head) + 1
        /\ prev = SubSeq(head, 1, next - 1)
        /\ \A k \in 1..(next - 1) : RowSays(rows[k], k)

IInv ==
    /\ TypeOK
    /\ ChainLinked
    /\ NothingUnsupported
    /\ OnlyCommitted
    /\ LoopInv
    /\ VerdictExact

(* A row that says what was appended k-th is what verify recomputes from    *)
(* the prefix before it.                                                    *)
LEMMA SayingRowMatches ==
    ASSUME ChainAssumption, TypeOK, LoopInv, NothingUnsupported,
           pc = "loop", next \in DOMAIN rows, SaysWhatWasAppended(rows)
    PROVE  ~ComputeRaises(rows[next].payload) /\ RowMatches(rows[next])
<1>1. /\ head \in Seq(Body)
      /\ next \in 1..Len(rows) /\ Len(rows) <= Len(head)
      /\ rows[next] \in Row
      /\ Len(rows) \in Nat /\ Len(head) \in Nat
  BY DEF TypeOK, SaysWhatWasAppended, Hash
<1>2. next \in 1..Len(head)
  BY <1>1
<1>3. /\ rows[next].entry_hash = SubSeq(head, 1, next)
      /\ [header |-> rows[next].header, text |-> Render[rows[next].payload]]
           = head[next]
  BY <1>1 DEF SaysWhatWasAppended, RowSays
<1>4. head[next] \in Body
  BY <1>1, <1>2
<1>5. Render[rows[next].payload] \in Rendering
  BY <1>3, <1>4 DEF Body
<1>6. ~ComputeRaises(rows[next].payload)
  BY <1>2, <1>5 DEF ChainAssumption, ComputeRaises, NothingUnsupported
<1>7. prev = SubSeq(head, 1, next - 1)
  BY DEF LoopInv
<1>8. Append(SubSeq(head, 1, next - 1), head[next]) = SubSeq(head, 1, next)
  BY <1>1, <1>2, PrefixGrow
<1>9. RowMatches(rows[next])
  BY <1>3, <1>7, <1>8 DEF RowMatches, compute
<1> QED
  BY <1>6, <1>9

(* Conversely a row verify accepts says what was appended next.             *)
LEMMA MatchingRowSays ==
    ASSUME ChainAssumption, TypeOK, LoopInv, OnlyCommitted,
           pc = "loop", next \in DOMAIN rows,
           ~ComputeRaises(rows[next].payload), RowMatches(rows[next])
    PROVE  next <= Len(head) /\ RowSays(rows[next], next)
<1>1. /\ head \in Seq(Body)
      /\ next \in 1..Len(rows)
      /\ rows[next] \in Row
      /\ next \in 1..(Len(head) + 1)
      /\ prev = SubSeq(head, 1, next - 1)
  BY DEF TypeOK, LoopInv, Hash
<1> DEFINE b == [header |-> rows[next].header,
                 text   |-> Render[rows[next].payload]]
<1>2. rows[next].payload \in Payload /\ rows[next].header \in Header
  BY <1>1 DEF Row
<1>3. Render[rows[next].payload] \in Rendering
  BY <1>2 DEF ChainAssumption, ComputeRaises
<1>4. b \in Body
  BY <1>2, <1>3 DEF Body
<1>5. PICK k \in 1..Len(head) : rows[next].entry_hash = SubSeq(head, 1, k)
  BY <1>1 DEF OnlyCommitted, Committed
<1>6. Append(SubSeq(head, 1, next - 1), b) = SubSeq(head, 1, k)
  BY <1>1, <1>5 DEF RowMatches, compute
<1> HIDE DEF b
<1>7. k = next /\ b = head[next]
  BY <1>1, <1>4, <1>6, PrefixStep
<1> QED
  BY <1>1, <1>5, <1>7 DEF RowSays, b

(* What an append leaves alone: the prefixes and the elements of the head   *)
(* it extends.                                                              *)
LEMMA AppendKeepsPrefixes ==
    ASSUME NEW h \in Header, NEW l \in List, TypeOK, ChainAssumption,
           append(h, l)
    PROVE  /\ head \in Seq(Body) /\ head' \in Seq(Body)
           /\ Len(head') = Len(head) + 1
           /\ \A k \in 0..Len(head) : SubSeq(head', 1, k) = SubSeq(head, 1, k)
           /\ \A k \in 1..Len(head) : head'[k] = head[k]
           /\ SubSeq(head', 1, Len(head) + 1) = head'
<1> DEFINE b == [header |-> h, text |-> Render[lists[l]]]
<1>1. lists[l] \in Payload /\ head \in Seq(Body)
  BY DEF TypeOK, Hash
<1>2. Render[lists[l]] \in Rendering
  BY <1>1 DEF append, ComputeRaises, ChainAssumption
<1>3. b \in Body
  BY <1>2 DEF Body
<1>4. head' = Append(head, b)
  BY DEF append, compute
<1> HIDE DEF b
<1>5. \A k \in 0..Len(head) : SubSeq(head', 1, k) = SubSeq(head, 1, k)
  BY <1>1, <1>3, <1>4, PrefixStable
<1> QED
  BY <1>1, <1>3, <1>4, <1>5

(* Rows made of old hashes say what was appended after an append exactly    *)
(* when they did before it.                                                 *)
LEMMA AppendKeepsSaying ==
    ASSUME NEW h \in Header, NEW l \in List, TypeOK, ChainAssumption,
           OnlyCommitted, append(h, l)
    PROVE  SaysWhatWasAppended(rows)' <=> SaysWhatWasAppended(rows)
<1>1. /\ head \in Seq(Body) /\ head' \in Seq(Body)
      /\ Len(head') = Len(head) + 1
      /\ \A k \in 0..Len(head) : SubSeq(head', 1, k) = SubSeq(head, 1, k)
      /\ \A k \in 1..Len(head) : head'[k] = head[k]
  BY AppendKeepsPrefixes
<1>2. rows' = rows /\ Len(rows) \in Nat /\ Len(head) \in Nat
  BY <1>1 DEF append, loop, TypeOK
<1>3. ASSUME SaysWhatWasAppended(rows)
      PROVE  SaysWhatWasAppended(rows)'
  BY <1>1, <1>2, <1>3 DEF SaysWhatWasAppended, RowSays
<1>4. ASSUME SaysWhatWasAppended(rows)'
      PROVE  SaysWhatWasAppended(rows)
  <2>1. \A k \in 1..Len(rows) : k <= Len(head)
    <3> SUFFICES ASSUME NEW k \in 1..Len(rows)
                 PROVE  k <= Len(head)
      OBVIOUS
    <3>1. PICK j \in 1..Len(head) : rows[k].entry_hash = SubSeq(head, 1, j)
      BY DEF OnlyCommitted, Committed
    <3>2. rows[k].entry_hash = SubSeq(head', 1, k)
      BY <1>2, <1>4 DEF SaysWhatWasAppended, RowSays
    <3>3. Len(rows) <= Len(head') /\ Len(head') \in Nat
      BY <1>2, <1>1, <1>4 DEF SaysWhatWasAppended
    <3>4. k \in 0..Len(head')
      BY <1>2, <3>3
    <3>5. Len(rows[k].entry_hash) = j
      BY <3>1, <1>1, PrefixType
    <3>6. Len(rows[k].entry_hash) = k
      BY <3>2, <3>4, <1>1, PrefixType
    <3> QED
      BY <3>5, <3>6
  <2>2. Len(rows) <= Len(head)
    <3>1. CASE Len(rows) = 0
      BY <3>1, <1>2
    <3>2. CASE Len(rows) # 0
      BY <3>2, <2>1, <1>2, Len(rows) \in 1..Len(rows)
    <3> QED
      BY <3>1, <3>2
  <2> QED
    BY <1>1, <1>2, <1>4, <2>2 DEF SaysWhatWasAppended, RowSays
<1> QED
  BY <1>3, <1>4

(* Whatever happens, IInv is kept.                                          *)
LEMMA Inductive ==
    ASSUME IInv, TypeOK', [Next]_vars
    PROVE  IInv'
<1> USE ChainAssumption
<1>1. ASSUME NEW h \in Header, NEW l \in List, append(h, l)
      PROVE  IInv'
  <2>1. /\ head \in Seq(Body) /\ head' \in Seq(Body)
        /\ Len(head') = Len(head) + 1
        /\ \A k \in 0..Len(head) : SubSeq(head', 1, k) = SubSeq(head, 1, k)
        /\ \A k \in 1..Len(head) : head'[k] = head[k]
        /\ SubSeq(head', 1, Len(head) + 1) = head'
    BY <1>1, AppendKeepsPrefixes DEF IInv
  <2>2. ChainLinked'
    <3>1. entries \in Seq(AuditEntry) /\ Len(entries) = Len(head)
      BY DEF IInv, TypeOK, ChainLinked
    <3>2. /\ Len(entries') = Len(entries) + 1
          /\ \A k \in 1..Len(entries) : entries'[k] = entries[k]
          /\ entries'[Len(entries) + 1].entry_hash = head'
          /\ entries'[Len(entries) + 1].prev_hash = head
      BY <1>1, <3>1 DEF append
    <3>3. SubSeq(head', 1, Len(head)) = head
      BY <2>1
    <3>4. ASSUME NEW k \in 1..Len(entries)
          PROVE  /\ entries'[k].entry_hash = SubSeq(head', 1, k)
                 /\ entries'[k].prev_hash = SubSeq(head', 1, k - 1)
      BY <3>1, <3>2, <2>1, k - 1 \in 0..Len(head), k \in 0..Len(head)
         DEF IInv, ChainLinked
    <3> QED
      BY <2>1, <3>1, <3>2, <3>3, <3>4 DEF ChainLinked
  <2>3. NothingUnsupported'
    BY <1>1 DEF append, ComputeRaises, NothingUnsupported
  <2>4. OnlyCommitted'
    <3>1. ASSUME NEW q, Committed(q)
          PROVE  Committed(q)'
      BY <3>1, <2>1 DEF Committed
    <3>2. rows' = rows /\ storedRows' = storedRows
      BY <1>1 DEF append, copy, loop
    <3>3. ASSUME NEW k \in 1..Len(rows)
          PROVE  Committed(rows[k].entry_hash)'
      BY <3>1, <3>2, <3>3 DEF IInv, OnlyCommitted, Committed
    <3>4. ASSUME NEW k \in 1..Len(storedRows)
          PROVE  Committed(storedRows[k].entry_hash)'
      BY <3>1, <3>2, <3>4 DEF IInv, OnlyCommitted, Committed
    <3> QED
      BY <3>2, <3>3, <3>4 DEF OnlyCommitted
  <2>5. LoopInv'
    BY <1>1 DEF append, loop, LoopInv
  <2>6. VerdictExact'
    <3>1. SaysWhatWasAppended(rows)' <=> SaysWhatWasAppended(rows)
      BY <1>1, AppendKeepsSaying DEF IInv
    <3>2. verdict' = verdict
      BY <1>1 DEF append, loop
    <3> QED
      BY <3>1, <3>2 DEF IInv, VerdictExact
  <2> QED
    BY <2>2, <2>3, <2>4, <2>5, <2>6 DEF IInv
<1>2. ASSUME NEW l \in List, NEW p \in Payload, CallerWrites(l, p)
      PROVE  IInv'
  BY <1>2 DEF CallerWrites, writer, copy, loop, IInv, ChainLinked,
     NothingUnsupported, OnlyCommitted, Committed, LoopInv, VerdictExact,
     SaysWhatWasAppended, RowSays
<1>3. CASE Persist
  <2>1. \A k \in 1..Len(storedRows') : Committed(storedRows'[k].entry_hash)
    <3>1. storedRows' = Dereferenced /\ Len(storedRows') = Len(entries)
      BY <1>3, DereferencedType DEF Persist, IInv
    <3>2. \A k \in 1..Len(entries) :
            storedRows'[k].entry_hash = SubSeq(head, 1, k)
      BY <3>1 DEF Dereferenced, IInv, ChainLinked
    <3> QED
      BY <3>1, <3>2 DEF IInv, ChainLinked, Committed
  <2> QED
    BY <1>3, <2>1 DEF Persist, writer, loop, IInv, ChainLinked,
       NothingUnsupported, OnlyCommitted, Committed, LoopInv, VerdictExact,
       SaysWhatWasAppended, RowSays
<1>4. ASSUME NEW newRows, Damaged(newRows),
             \A k \in 1..Len(newRows) : Committed(newRows[k].entry_hash)
      PROVE  IInv'
  BY <1>4 DEF Damaged, writer, loop, IInv, ChainLinked,
     NothingUnsupported, OnlyCommitted, Committed, LoopInv, VerdictExact,
     SaysWhatWasAppended, RowSays
<1>5. CASE LoseRow
  <2>1. PICK k \in DOMAIN storedRows : Damaged(Without(storedRows, k))
    BY <1>5 DEF LoseRow
  <2>2. storedRows \in Seq(Row) /\ k \in 1..Len(storedRows)
    BY <2>1 DEF IInv, TypeOK
  <2>3. /\ Len(Without(storedRows, k)) = Len(storedRows) - 1
        /\ \A j \in 1..(Len(storedRows) - 1) :
             Without(storedRows, k)[j] \in {storedRows[j], storedRows[j + 1]}
    BY <2>2 DEF Without
  <2>4. ASSUME NEW j \in 1..Len(Without(storedRows, k))
        PROVE  Committed(Without(storedRows, k)[j].entry_hash)
    <3>1. j \in 1..Len(storedRows) /\ j + 1 \in 1..Len(storedRows)
      BY <2>2, <2>3
    <3> QED
      BY <3>1, <2>3, <2>4 DEF IInv, OnlyCommitted
  <2> QED
    BY <2>1, <2>4, <1>4
<1>6. CASE SwapRows
  <2>1. PICK j \in DOMAIN storedRows, k \in DOMAIN storedRows :
          Damaged([storedRows EXCEPT ![j] = storedRows[k],
                                     ![k] = storedRows[j]])
    BY <1>6 DEF SwapRows
  <2> DEFINE swapped == [storedRows EXCEPT ![j] = storedRows[k],
                                           ![k] = storedRows[j]]
  <2>2. storedRows \in Seq(Row) /\ j \in 1..Len(storedRows)
                                /\ k \in 1..Len(storedRows)
    BY <2>1 DEF IInv, TypeOK
  <2>3. /\ Len(swapped) = Len(storedRows)
        /\ \A i \in 1..Len(storedRows) :
             swapped[i] \in {storedRows[i], storedRows[j], storedRows[k]}
    BY <2>2
  <2>4. \A i \in 1..Len(swapped) : Committed(swapped[i].entry_hash)
    BY <2>2, <2>3 DEF IInv, OnlyCommitted
  <2> QED
    BY <2>1, <2>4, <1>4
<1>7. CASE RepeatRow
  <2>1. PICK k \in DOMAIN storedRows :
          Damaged(Append(storedRows, storedRows[k]))
    BY <1>7 DEF RepeatRow
  <2> DEFINE longer == Append(storedRows, storedRows[k])
  <2>2. storedRows \in Seq(Row) /\ k \in 1..Len(storedRows)
    BY <2>1 DEF IInv, TypeOK
  <2>3. \A i \in 1..Len(longer) :
          \/ i \in 1..Len(storedRows) /\ longer[i] = storedRows[i]
          \/ longer[i] = storedRows[k]
    BY <2>2
  <2>4. \A i \in 1..Len(longer) : Committed(longer[i].entry_hash)
    BY <2>2, <2>3 DEF IInv, OnlyCommitted
  <2> QED
    BY <2>1, <2>4, <1>4
<1>8. CASE AlterRow
  <2>1. PICK k \in DOMAIN storedRows, h \in Header, p \in Payload :
          Damaged([storedRows EXCEPT ![k] = Reworded(storedRows[k], h, p)])
    BY <1>8 DEF AlterRow
  <2> DEFINE altered == [storedRows EXCEPT ![k] = Reworded(storedRows[k], h, p)]
  <2>2. storedRows \in Seq(Row) /\ k \in 1..Len(storedRows)
    BY <2>1 DEF IInv, TypeOK
  <2>3. Reworded(storedRows[k], h, p).entry_hash = storedRows[k].entry_hash
    BY DEF Reworded
  <2>4. /\ Len(altered) = Len(storedRows)
        /\ \A i \in 1..Len(storedRows) :
             altered[i].entry_hash = storedRows[i].entry_hash
    BY <2>2, <2>3
  <2>5. \A i \in 1..Len(altered) : Committed(altered[i].entry_hash)
    BY <2>4 DEF IInv, OnlyCommitted
  <2> QED
    BY <2>1, <2>5, <1>4
<1>9. ASSUME NEW rs, NEW hd, BeginVerify(rs, hd), rs \in Seq(Row),
             \A k \in 1..Len(rs) : Committed(rs[k].entry_hash)
      PROVE  IInv'
  <2>1. LoopInv'
    <3>1. /\ head \in Seq(Body) /\ head' = head
          /\ verdict' = "none" /\ next' = 1 /\ prev' = <<>> /\ rows' = rs
      BY <1>9 DEF BeginVerify, writer, GENESIS_HASH, IInv, TypeOK, Hash
    <3>2. SubSeq(head, 1, 0) = <<>>
      BY <3>1
    <3> QED
      BY <3>1, <3>2, <1>9 DEF LoopInv
  <2>2. VerdictExact'
    BY <1>9 DEF BeginVerify, VerdictExact
  <2> QED
    BY <1>9, <2>1, <2>2 DEF BeginVerify, writer, copy, IInv, ChainLinked,
       NothingUnsupported, OnlyCommitted, Committed
<1>10. CASE VerifyOwn
  <2>1. /\ Dereferenced \in Seq(Row)
        /\ Len(Dereferenced) = Len(entries)
        /\ \A k \in 1..Len(entries) :
             Dereferenced[k].entry_hash = SubSeq(head, 1, k)
    BY DereferencedType DEF IInv, Dereferenced, ChainLinked
  <2>2. \A k \in 1..Len(Dereferenced) : Committed(Dereferenced[k].entry_hash)
    BY <2>1 DEF IInv, ChainLinked, Committed
  <2> QED
    BY <1>10, <2>1, <2>2, <1>9 DEF VerifyOwn
<1>11. CASE VerifyStored
  BY <1>11, <1>9 DEF VerifyStored, IInv, TypeOK, OnlyCommitted
<1>12. CASE VerifyNext
  <2>1. /\ pc = "loop" /\ next \in DOMAIN rows
        /\ ~ComputeRaises(rows[next].payload) /\ RowMatches(rows[next])
        /\ next' = next + 1 /\ prev' = rows[next].entry_hash
        /\ rows' = rows /\ head' = head /\ verdict' = verdict
    BY <1>12 DEF VerifyNext, writer
  <2>2. next <= Len(head) /\ RowSays(rows[next], next)
    BY <2>1, MatchingRowSays DEF IInv
  <2>3. /\ next \in 1..Len(rows) /\ next' - 1 = next
        /\ Len(head) \in Nat /\ Len(rows) \in Nat
    BY <2>1 DEF IInv, TypeOK, Hash
  <2>4. \A k \in 1..next : RowSays(rows[k], k)
    BY <2>1, <2>2, <2>3 DEF IInv, LoopInv
  <2>5. LoopInv'
    BY <2>1, <2>2, <2>3, <2>4 DEF IInv, LoopInv, RowSays
  <2>6. VerdictExact'
    BY <2>1 DEF IInv, LoopInv, VerdictExact
  <2> QED
    BY <1>12, <2>5, <2>6 DEF VerifyNext, writer, copy, IInv, ChainLinked,
       NothingUnsupported, OnlyCommitted, Committed
<1>13. ASSUME NEW v, Return(v), v = "True" <=> SaysWhatWasAppended(rows)
       PROVE  IInv'
  BY <1>13 DEF Return, writer, copy, IInv, ChainLinked, NothingUnsupported,
     OnlyCommitted, Committed, LoopInv, VerdictExact, SaysWhatWasAppended,
     RowSays
<1>14. CASE VerifyMismatch
  <2>1. ~SaysWhatWasAppended(rows)
    BY <1>14, SayingRowMatches DEF VerifyMismatch, IInv
  <2> QED
    BY <1>14, <2>1, <1>13 DEF VerifyMismatch
<1>15. CASE VerifyRaises
  <2>1. ~SaysWhatWasAppended(rows)
    BY <1>15, SayingRowMatches DEF VerifyRaises, IInv
  <2> QED
    BY <1>15, <2>1, <1>13 DEF VerifyRaises
<1>16. CASE VerifyDone
  <2>1. /\ Len(rows) \in Nat /\ DOMAIN rows = 1..Len(rows)
        /\ next \in Nat \ {0} /\ Len(head) \in Nat
        /\ next <= Len(rows) + 1 /\ next <= Len(head) + 1
        /\ \A k \in 1..(next - 1) : RowSays(rows[k], k)
    <3>1. pc = "loop" /\ TypeOK /\ LoopInv
      BY <1>16 DEF VerifyDone, IInv
    <3>2. Len(rows) \in Nat /\ DOMAIN rows = 1..Len(rows)
      BY <3>1 DEF TypeOK
    <3>3. Len(head) \in Nat
      BY <3>1 DEF TypeOK, Hash
    <3>4. next \in Nat \ {0}
      BY <3>1 DEF TypeOK
    <3> QED
      BY <3>1, <3>2, <3>3, <3>4 DEF LoopInv
  <2>2. next - 1 = Len(rows)
    BY <1>16, <2>1 DEF VerifyDone
  <2>3. SaysWhatWasAppended(rows)
    BY <2>1, <2>2 DEF SaysWhatWasAppended
  <2> QED
    BY <1>16, <2>3, <1>13 DEF VerifyDone
<1>17. CASE UNCHANGED vars
  BY <1>17 DEF vars, writer, copy, loop, IInv, ChainLinked,
     NothingUnsupported, OnlyCommitted, Committed, LoopInv, VerdictExact,
     SaysWhatWasAppended, RowSays
<1> QED
  BY <1>1, <1>2, <1>3, <1>5, <1>6, <1>7, <1>8, <1>10, <1>11, <1>12,
     <1>14, <1>15, <1>16, <1>17 DEF Next

(* IInv holds of a new writer. *)
LEMMA Initial == Init => IInv
<1>1. Init => TypeOK
  BY ChainAssumption DEF Init, TypeOK, GENESIS_HASH, Hash, ChainAssumption
<1> QED
  BY <1>1 DEF Init, IInv, ChainLinked, NothingUnsupported, OnlyCommitted,
     LoopInv, VerdictExact, GENESIS_HASH

(* verify answers True exactly for entries that say, in order and from the  *)
(* first on, what was appended: for every payload type and rendering and a  *)
(* chain of any length (AuditChainWriter.verify).                           *)
THEOREM VerifyIsExact == Spec => []VerdictExact
<1>1. IInv /\ TypeOK' /\ [Next]_vars => IInv'
  BY Inductive
<1>2. IInv => VerdictExact
  BY DEF IInv
<1> QED
  BY <1>1, <1>2, Initial, TypeCorrect, PTL DEF Spec

(* Every entry keeps the links append gave it, whatever the callers and the *)
(* storage do (AuditChainWriter.append).                                    *)
THEOREM EntriesStayLinked == Spec => []ChainLinked
<1>1. IInv /\ TypeOK' /\ [Next]_vars => IInv'
  BY Inductive
<1>2. IInv => ChainLinked
  BY DEF IInv
<1> QED
  BY <1>1, <1>2, Initial, TypeCorrect, PTL DEF Spec

-----------------------------------------------------------------------------
(* The chain implements the log *)

(* Rows read as claims hold of the log exactly when they say what was      *)
(* appended.                                                               *)
LEMMA ClaimsHold ==
    ASSUME NEW rs \in Seq(Row)
    PROVE  Log!Holds(Claims(rs)) <=> SaysWhatWasAppended(rs)
<1>1. Len(rs) \in Nat
  OBVIOUS
<1>2. /\ Len(Claims(rs)) = Len(rs)
      /\ \A k \in 1..Len(rs) :
           /\ Claims(rs)[k].says = [header |-> rs[k].header,
                                    text   |-> Render[rs[k].payload]]
           /\ Claims(rs)[k].after = rs[k].entry_hash
  BY <1>1 DEF Claims
<1> QED
  BY <1>1, <1>2 DEF Log!Holds, SaysWhatWasAppended, RowSays

(* Rows read as claims are claims the log knows. *)
LEMMA ClaimsType ==
    ASSUME ChainAssumption, NEW rs \in Seq(Row)
    PROVE  Claims(rs) \in Seq(Log!Claim)
<1>1. Len(rs) \in Nat
  OBVIOUS
<1>2. ASSUME NEW k \in 1..Len(rs)
      PROVE  [says  |-> [header |-> rs[k].header,
                         text   |-> Render[rs[k].payload]],
              after |-> rs[k].entry_hash] \in Log!Claim
  <2>1. rs[k] \in Row
    OBVIOUS
  <2>2. /\ rs[k].header \in Header
        /\ Render[rs[k].payload] \in Rendering \cup {NotCanonical}
        /\ rs[k].entry_hash \in Seq(Body)
    BY <2>1 DEF Row, Hash, ChainAssumption
  <2> QED
    BY <2>2 DEF Log!Claim
<1>3. Claims(rs) \in [1..Len(rs) -> Log!Claim]
  BY <1>2 DEF Claims
<1> QED
  BY <1>1, <1>3

(* A step of the chain is a step of the log or leaves the log alone. *)
LEMMA ImplementationStep ==
    ASSUME IInv, TypeOK', IInv', [Next]_vars
    PROVE  [Log!Next]_(Log!vars)
<1> USE ChainAssumption
<1>1. /\ verdict # "pending" /\ rows \in Seq(Row) /\ rows' \in Seq(Row)
  BY DEF IInv, TypeOK
<1>2. ASSUME NEW h \in Header, NEW l \in List, append(h, l)
      PROVE  \E s \in Body : Log!Say(s)
  <2> DEFINE s == [header |-> h, text |-> Render[lists[l]]]
  <2>1. lists[l] \in Payload
    BY DEF IInv, TypeOK
  <2>2. s \in Body
    BY <1>2, <2>1 DEF append, ComputeRaises, ChainAssumption, Body
  <2>3. Log!Say(s)
    BY <1>1, <1>2 DEF append, compute, loop, Log!Say
  <2> QED
    BY <2>2, <2>3
<1>3. ASSUME UNCHANGED <<head, pc, rows, verdict>>
      PROVE  UNCHANGED Log!vars
  BY <1>3 DEF Log!vars
<1>4. ASSUME NEW s, NEW sh, BeginVerify(s, sh)
      PROVE  Log!Ask
  <2>1. pc' = "loop" /\ pc = "idle" /\ head' = head
    BY <1>4 DEF BeginVerify, writer
  <2>2. Claims(rows') \in Seq(Log!Claim)
    BY <1>1, ClaimsType
  <2> QED
    BY <1>1, <2>1, <2>2 DEF Log!Ask
<1>5. ASSUME NEW v \in {"True", "False", "raised"}, pc = "loop", Return(v)
      PROVE  Log!Answer
  <2>1. /\ pc' = "idle" /\ verdict' = v
        /\ rows' = rows /\ head' = head
    BY <1>5 DEF Return, writer
  <2>2. v = "True" <=> SaysWhatWasAppended(rows)
    BY <2>1 DEF IInv, VerdictExact, SaysWhatWasAppended, RowSays
  <2>3. v = "True" <=> Log!Holds(Claims(rows))
    BY <1>1, <2>2, ClaimsHold
  <2> QED
    BY <1>5, <2>1, <2>3 DEF Log!Answer
<1>6. CASE \E l \in List, p \in Payload : CallerWrites(l, p)
  BY <1>3, <1>6 DEF CallerWrites, writer, loop
<1>7. CASE Persist \/ LoseRow \/ SwapRows \/ RepeatRow \/ AlterRow
  BY <1>3, <1>7 DEF Persist, LoseRow, SwapRows, RepeatRow, AlterRow, Damaged,
     writer, loop
<1>8. CASE VerifyOwn \/ VerifyStored
  BY <1>4, <1>8 DEF VerifyOwn, VerifyStored, Log!Next
<1>9. CASE VerifyNext
  BY <1>3, <1>9 DEF VerifyNext, writer
<1>10. CASE VerifyMismatch \/ VerifyRaises \/ VerifyDone
  BY <1>5, <1>10 DEF VerifyMismatch, VerifyRaises, VerifyDone, Log!Next
<1>11. CASE UNCHANGED vars
  BY <1>3, <1>11 DEF vars, writer, loop
<1> QED
  BY <1>2, <1>6, <1>7, <1>8, <1>9, <1>10, <1>11 DEF Next, Log!Next

(* The chain implements the log, for chains, payloads and damage of any     *)
(* size: one statement more per append, one exact answer per verify, and    *)
(* nothing that happens to lists or stored rows is seen                     *)
(* (AuditChainWriter.append, AuditChainWriter.verify).                      *)
THEOREM ChainImplementsLog == Spec => ImplementsLog
<1>1. Init => Log!Init
  BY DEF Init, Log!Init, Claims, GENESIS_HASH
<1>2. IInv /\ TypeOK' /\ [Next]_vars => IInv'
  BY Inductive
<1>3. IInv /\ TypeOK' /\ IInv' /\ [Next]_vars => [Log!Next]_(Log!vars)
  BY ImplementationStep
<1> QED
  BY <1>1, <1>2, <1>3, Initial, TypeCorrect, PTL
     DEF Spec, ImplementsLog, Log!Spec

=============================================================================
