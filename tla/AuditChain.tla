------------------------------ MODULE AuditChain ------------------------------
(***************************************************************************)
(* The unified audit chain of pipeline/shared/audit/audit_chain.py: one    *)
(* AuditChainWriter that subsystems append to, the rows of its persisted   *)
(* copy, and verify(), which replays a list of entries from the genesis    *)
(* hash.                                                                   *)
(*                                                                         *)
(* The digest is modelled as a collision-free constructor: a hash is the   *)
(* sequence of all bodies it commits to, the genesis hash is the empty     *)
(* sequence.  Two hashes are equal exactly when everything that was hashed *)
(* into them is equal.  Rendering is NOT assumed injective: Render maps a  *)
(* payload to its canonical string, and different payloads (True, 1, "1")  *)
(* may render alike.                                                       *)
(*                                                                         *)
(* The chain is used by one thread: an append happens between two calls of *)
(* verify, never inside one.  verify is nevertheless one step per loop     *)
(* iteration, so that what it concludes is an induction over its rounds.   *)
(***************************************************************************)
EXTENDS Naturals, Sequences

CONSTANTS
    Algo,          \* values the algo field is given
    Supported,     \* those _digest can compute on this host
    Header,        \* (subsystem, action, ref_id, ts) of an entry
    List,          \* the payload list objects the callers own
    Payload,       \* what a payload list may contain
    Rendering,     \* canonical strings
    NotCanonical,  \* stands for the TypeError of canonical_field
    Render,        \* Payload -> Rendering or NotCanonical
    MaxEntries,    \* bound: entries appended
    MaxDamage      \* bound: rows of the persisted copy lost or altered

ASSUME ChainAssumption ==
    /\ Supported \subseteq Algo
    /\ NotCanonical \notin Rendering
    /\ Render \in [Payload -> Rendering \cup {NotCanonical}]
    /\ MaxEntries \in Nat
    /\ MaxDamage \in Nat

VARIABLES
    algo,       \* writer: name of the hash algorithm
    head,       \* writer: hash of the newest entry
    entries,    \* writer: the entries, each holding a reference to its list
    lists,      \* contents of the callers' list objects
    storedRows, \* the persisted copy: its rows ...
    storedHead, \* ... and the head saved with them
    damage,     \* number of losses and alterations the copy has suffered
    pc,         \* "idle", or "loop" inside verify
    rows,       \* entries of the object verify runs on
    rowsHead,   \* head field of that object
    next,       \* index of the entry the loop looks at
    prev,       \* local variable prev of verify
    verdict     \* what the last verify returned, "none" before

writer == <<algo, head, entries>>
copy   == <<storedRows, storedHead, damage>>
loop   == <<pc, rows, rowsHead, next, prev, verdict>>
vars   == <<writer, lists, copy, loop>>

-----------------------------------------------------------------------------

Body == [header : Header, text : Rendering]
Hash == Seq(Body)

GENESIS_HASH == <<>>

(* An entry in memory refers to the list object it was appended with. *)
AuditEntry == [header : Header, list : List, prev_hash : Hash, entry_hash : Hash]

(* A persisted entry carries its payload by value. *)
Row == [header : Header, payload : Payload, prev_hash : Hash, entry_hash : Hash]

(* AuditEntry.compute for a canonicalizable payload. *)
compute(h, payload, prevHash) ==
    Append(prevHash, [header |-> h, text |-> Render[payload]])

(* Mutant: the byte grammar renders any type instead of raising.            *)
ComputeRaisesNever(payload) == algo \notin Supported

(* compute raises: unsupported or uninstalled algorithm, or a field type    *)
(* the byte grammar has no rule for.                                        *)
ComputeRaises(payload) ==
    \/ algo \notin Supported
    \/ Render[payload] = NotCanonical

(* The entries as anyone reading them now sees them. *)
Dereferenced ==
    [k \in 1..Len(entries) |->
        [header     |-> entries[k].header,
         payload    |-> lists[entries[k].list],
         prev_hash  |-> entries[k].prev_hash,
         entry_hash |-> entries[k].entry_hash]]

Init ==
    /\ algo \in Algo
    /\ head = GENESIS_HASH
    /\ entries = <<>>
    /\ lists \in [List -> Payload]
    /\ storedRows = <<>>
    /\ storedHead = GENESIS_HASH
    /\ damage = 0
    /\ pc = "idle"
    /\ rows = <<>>
    /\ rowsHead = GENESIS_HASH
    /\ next = 1
    /\ prev = GENESIS_HASH
    /\ verdict = "none"

-----------------------------------------------------------------------------
(* The writer and its callers. *)

(* Mutant: the writer's head moves before the entry takes it as prev_hash.  *)
appendAfterHead(h, l) ==
    /\ pc = "idle"
    /\ Len(entries) < MaxEntries
    /\ ~ComputeRaises(lists[l])
    /\ head' = compute(h, lists[l], head)
    /\ entries' = Append(entries, [header |-> h, list |-> l,
                                   prev_hash |-> head', entry_hash |-> head'])
    /\ UNCHANGED <<algo, lists, copy, loop>>

(* Mutant: the head stays behind the entry that was appended.               *)
appendForgetsHead(h, l) ==
    /\ pc = "idle"
    /\ Len(entries) < MaxEntries
    /\ ~ComputeRaises(lists[l])
    /\ entries' = Append(entries, [header |-> h, list |-> l, prev_hash |-> head,
                                   entry_hash |-> compute(h, lists[l], head)])
    /\ UNCHANGED <<algo, head, lists, copy, loop>>

(* append: the entry keeps a reference to the caller's list. *)
append(h, l) ==
    /\ pc = "idle"
    /\ Len(entries) < MaxEntries
    /\ ~ComputeRaises(lists[l])
    /\ head' = compute(h, lists[l], head)
    /\ entries' = Append(entries, [header |-> h, list |-> l,
                                   prev_hash |-> head, entry_hash |-> head'])
    /\ UNCHANGED <<algo, lists, copy, loop>>

(* A caller changes a list it passed to append earlier, or fills a fresh    *)
(* one for its next append.                                                 *)
CallerWrites(l, p) ==
    /\ pc = "idle"
    /\ lists' = [lists EXCEPT ![l] = p]
    /\ UNCHANGED <<writer, copy, loop>>

-----------------------------------------------------------------------------
(* The persisted copy (gold.audit_chain), outside the modelled code: rows   *)
(* are written by value and may be lost, repeated, reordered or altered     *)
(* before they are read back.  Hashes are only ever moved, never invented.  *)

Persist ==
    /\ pc = "idle"
    /\ storedRows' = Dereferenced
    /\ storedHead' = head
    /\ damage' = 0
    /\ UNCHANGED <<writer, lists, loop>>

Damaged(newRows) ==
    /\ pc = "idle"
    /\ damage < MaxDamage
    /\ damage' = damage + 1
    /\ storedRows' = newRows
    /\ UNCHANGED <<writer, lists, storedHead, loop>>

Without(s, k) ==
    [j \in 1..(Len(s) - 1) |-> IF j < k THEN s[j] ELSE s[j + 1]]

LoseRow ==
    \E k \in DOMAIN storedRows : Damaged(Without(storedRows, k))

SwapRows ==
    \E j, k \in DOMAIN storedRows :
        /\ j < k
        /\ Damaged([storedRows EXCEPT ![j] = storedRows[k], ![k] = storedRows[j]])

RepeatRow ==
    \E k \in DOMAIN storedRows : Damaged(Append(storedRows, storedRows[k]))

Reworded(r, h, p) ==
    [header |-> h, payload |-> p, prev_hash |-> r.prev_hash,
     entry_hash |-> r.entry_hash]

AlterRow ==
    \E k \in DOMAIN storedRows, h \in Header, p \in Payload :
        Damaged([storedRows EXCEPT ![k] = Reworded(storedRows[k], h, p)])

-----------------------------------------------------------------------------
(* verify *)

BeginVerify(subject, subjectHead) ==
    /\ pc = "idle"
    /\ pc' = "loop"
    /\ rows' = subject
    /\ rowsHead' = subjectHead
    /\ next' = 1
    /\ prev' = GENESIS_HASH
    /\ verdict' = "none"
    /\ UNCHANGED <<writer, lists, copy>>

(* verify on the live writer ... *)
VerifyOwn == BeginVerify(Dereferenced, head)

(* ... and on a writer object rebuilt from the persisted copy. *)
VerifyStored == BeginVerify(storedRows, storedHead)

Return(v) ==
    /\ pc' = "idle"
    /\ verdict' = v
    /\ UNCHANGED <<writer, lists, copy, rows, rowsHead, next, prev>>

(* Mutant: verify recomputes from the link the row carries.                 *)
RowMatchesOwnLink(r) == compute(r.header, r.payload, r.prev_hash) = r.entry_hash

(* verify recomputes the row's hash from the hash of the row before it.     *)
RowMatches(r) == compute(r.header, r.payload, prev) = r.entry_hash

VerifyNext ==
    /\ pc = "loop"
    /\ next \in DOMAIN rows
    /\ ~ComputeRaises(rows[next].payload)
    /\ RowMatches(rows[next])
    /\ prev' = rows[next].entry_hash
    /\ next' = next + 1
    /\ UNCHANGED <<writer, lists, copy, pc, rows, rowsHead, verdict>>

VerifyMismatch ==
    /\ pc = "loop"
    /\ next \in DOMAIN rows
    /\ ~ComputeRaises(rows[next].payload)
    /\ ~RowMatches(rows[next])
    /\ Return("False")

VerifyRaises ==
    /\ pc = "loop"
    /\ next \in DOMAIN rows
    /\ ComputeRaises(rows[next].payload)
    /\ Return("raised")

VerifyDone ==
    /\ pc = "loop"
    /\ next \notin DOMAIN rows
    /\ Return("True")

Next ==
    \/ \E h \in Header, l \in List : append(h, l)
    \/ \E l \in List, p \in Payload : CallerWrites(l, p)
    \/ Persist
    \/ LoseRow \/ SwapRows \/ RepeatRow \/ AlterRow
    \/ VerifyOwn \/ VerifyStored
    \/ VerifyNext \/ VerifyMismatch \/ VerifyRaises \/ VerifyDone

Spec == Init /\ [][Next]_vars

-----------------------------------------------------------------------------
(* Properties *)

(* Types of all the state. *)
TypeOK ==
    /\ algo \in Algo
    /\ head \in Hash
    /\ entries \in Seq(AuditEntry)
    /\ lists \in [List -> Payload]
    /\ storedRows \in Seq(Row)
    /\ storedHead \in Hash
    /\ damage \in 0..MaxDamage
    /\ pc \in {"idle", "loop"}
    /\ rows \in Seq(Row)
    /\ rowsHead \in Hash
    /\ next \in Nat \ {0}
    /\ prev \in Hash
    /\ verdict \in {"none", "True", "False", "raised"}

(* Row k says what was appended k-th: its header and rendering, and the     *)
(* hash that commits to the first k bodies.                                 *)
RowSays(r, k) ==
    /\ r.entry_hash = SubSeq(head, 1, k)
    /\ [header |-> r.header, text |-> Render[r.payload]] = head[k]

(* The rows say, in order and from the first entry on, what was appended.   *)
SaysWhatWasAppended(rs) ==
    /\ Len(rs) <= Len(head)
    /\ \A k \in 1..Len(rs) : RowSays(rs[k], k)

(* verify returns True exactly when the entries it ran on say what was      *)
(* appended: a lost row in the middle, a repeated, swapped or re-worded     *)
(* row, and a list its caller changed after append all make it answer       *)
(* False (or raise), and nothing else does (AuditChainWriter.verify).       *)
VerdictExact ==
    verdict # "none" =>
        (verdict = "True" <=> SaysWhatWasAppended(rows))

(* Every entry keeps the links append gave it whatever the callers and the  *)
(* store do: entry k commits to the first k bodies, its prev_hash is the    *)
(* hash before it, and head is the last one (AuditChainWriter.append).      *)
ChainLinked ==
    /\ Len(entries) = Len(head)
    /\ \A k \in 1..Len(entries) :
        /\ entries[k].entry_hash = SubSeq(head, 1, k)
        /\ entries[k].prev_hash = SubSeq(head, 1, k - 1)

(* What the module docstring promises of a chain it calls tamper-evident:   *)
(* a copy that verifies ends at the head saved with it (no row missing).    *)
VerifiedReachesHead == verdict = "True" => prev = rowsHead

-----------------------------------------------------------------------------
(* The chain as a log: what its users may forget the hashes for. *)

Claims(rs) ==
    [k \in 1..Len(rs) |->
        [says  |-> [header |-> rs[k].header, text |-> Render[rs[k].payload]],
         after |-> rs[k].entry_hash]]

Log == INSTANCE AuditLog WITH
    Statement <- Body,
    Utterance <- [header : Header, text : Rendering \cup {NotCanonical}],
    log       <- head,
    asked     <- Claims(rows),
    answer    <- IF pc = "loop" THEN "pending" ELSE verdict

(* The chain implements the log: appends only ever add one statement, and   *)
(* whatever happens to the callers' lists and to the stored copy, the many  *)
(* steps of verify give the one answer the log gives                        *)
(* (AuditChainWriter.append, AuditChainWriter.verify).                      *)
ImplementsLog == Log!Spec

=============================================================================
