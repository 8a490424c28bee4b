------------------------------ MODULE FieldLists ------------------------------
(***************************************************************************)
(* Two lists of fields on their way to be hashed, filled field by field by *)
(* the subsystems that audit something, from any values the grammar knows. *)
(* What do the bytes of one say about the other, and about the bytes       *)
(* another language makes of it?                                           *)
(***************************************************************************)
EXTENDS ByteGrammar

CONSTANTS
    Value,     \* bound: values of fields
    MaxFields  \* bound: fields of a list

ASSUME FieldListsAssumption ==
    /\ MaxFields \in Nat
    /\ \A v \in Value : IsValue(v)

VARIABLES ours, theirs

lists == <<ours, theirs>>

ListsInit == ours = <<>> /\ theirs = <<>>

Add(list, v) == Len(list) < MaxFields /\ list' = Append(list, v)

ListsNext ==
    \E v \in Value : \/ Add(ours, v) /\ UNCHANGED theirs
                     \/ Add(theirs, v) /\ UNCHANGED ours

ListsSpec == ListsInit /\ [][ListsNext]_lists

-----------------------------------------------------------------------------
(* Properties *)

(* Strings without separators, and lists of such strings, none empty.       *)
Unmistakable(v) ==
    /\ Is(v, "str") => Separators \cap Range(v.str) = {}
    /\ Is(v, "list") =>
        \A k \in DOMAIN v.list :
            /\ Is(v.list[k], "str") /\ v.list[k].str # <<>>
            /\ Separators \cap Range(v.list[k].str) = {}

SameUpTo8Decimals(v, w) ==
    IF Is(v, "float") THEN canonical_field(v) = canonical_field(w) ELSE v = w

(* Fields join unambiguously: equal bytes mean as many fields, and fields   *)
(* of one type are then the same.  It takes strings without separators and  *)
(* lists without empty strings; types may still be mistaken for each other  *)
(* (canonical_bytes; audit_chain.py:66-69).                                 *)
BytesTellFieldsApart ==
    (/\ ours # <<>> /\ theirs # <<>>
     /\ \A k \in DOMAIN ours : Unmistakable(ours[k])
     /\ \A k \in DOMAIN theirs : Unmistakable(theirs[k])
     /\ canonical_bytes(ours) = canonical_bytes(theirs))
    => /\ Len(ours) = Len(theirs)
       /\ \A k \in DOMAIN ours :
            DOMAIN ours[k] = DOMAIN theirs[k] => SameUpTo8Decimals(ours[k], theirs[k])

Items(v) == IF Is(v, "list") THEN Range(v.list) ELSE {v}

(* The scores in a list of fields, those in lists among them included.      *)
Floats(list) ==
    {w \in UNION {UNION {Items(u) : u \in Items(v)} : v \in Range(list)} :
        Is(w, "float")}

(* The decimal form of the score is a half-way case that Python rounds down. *)
TieDown(v) ==
    /\ v.float % 10 = 5
    /\ v.off < 0 \/ (v.off = 0 /\ (v.float \div 10) % 2 = 0)

(* What the docs promise of the three languages: the bytes are identical    *)
(* (docs/audit-byte-grammar.md:3-6 and 25; Hash.scala:6-8).                 *)
BytesIdentical ==
    /\ canonicalBytes(ours) = canonical_bytes(ours)
    /\ canon(ours) = canonical_bytes(ours)

(* How far they are: of the same fields, nested lists and strings with      *)
(* separators included, the three languages make the same bytes unless      *)
(* there is a score among them that JavaScript takes for a whole number, or *)
(* a half-way case that Python rounds down, in its decimal form for Scala   *)
(* and exactly for JavaScript (docs/audit-byte-grammar.md:53: 8 decimals).  *)
LanguagesAgreeExactly ==
    /\ canonical_bytes(ours) = canon(ours) <=>
          \A v \in Floats(ours) : ~Whole(v) /\ ~(TieDown(v) /\ v.off = 0)
    /\ canonical_bytes(ours) = canonicalBytes(ours) <=>
          \A v \in Floats(ours) : ~TieDown(v)

===============================================================================
