------------------------------ MODULE ByteGrammar ------------------------------
(***************************************************************************)
(* The byte grammar of audited fields (docs/audit-byte-grammar.md), as the *)
(* three languages implement it: canonical_field of audit_chain.py,        *)
(* canonicalField of Hash.scala, cf of conformance.mjs.                    *)
(*                                                                         *)
(* A text is a sequence of tokens: the separators' bytes, numbers as they  *)
(* are written, and words without either.  A value is a record with one    *)
(* field, named for its type.  A score is [float |-> n, off |-> s]: its    *)
(* shortest decimal form begins with n * 10^-9, and the double lies below  *)
(* (-1), on (0) or above (1) that decimal number.                          *)
(*                                                                         *)
(* Bound: a list may hold lists, and those no further lists.  The code     *)
(* calls itself for any depth; what it hashes are lists of strings.        *)
(***************************************************************************)
EXTENDS Integers, SequencesExt

US  == [byte |-> 31]
NUL == [byte |-> 0]

(* Mutant: one separator for both levels.                                   *)
RS_US == US

RS == [byte |-> 30]

Separators == {US, RS, NUL}

Is(v, type) == type \in DOMAIN v

IsSequence(s) == s \in Seq(Range(s))

IsScalar(v) ==
    \/ v = [null |-> 0]
    \/ v \in [bool : BOOLEAN]
    \/ v \in [int : Int]
    \/ v \in [float : Nat, off : {-1, 0, 1}]
    \/ Is(v, "str") /\ v = [str |-> v.str] /\ IsSequence(v.str)

IsListOf(v, IsItem(_)) ==
    /\ Is(v, "list") /\ v = [list |-> v.list] /\ IsSequence(v.list)
    /\ \A k \in DOMAIN v.list : IsItem(v.list[k])

IsFlat(v) == IsScalar(v) \/ IsListOf(v, IsScalar)

(* The values the grammar has bytes for.                                    *)
IsValue(v) == IsFlat(v) \/ IsListOf(v, IsFlat)

Join(sep, texts) ==
    IF texts = <<>> THEN <<>>
    ELSE Tail(FlattenSeq([k \in DOMAIN texts |-> <<sep>> \o texts[k]]))

(* The text of a value, given that of the items a list has.                 *)
Rendered(v, item(_)) ==
    IF Is(v, "list") THEN Join(RS, [k \in DOMAIN v.list |-> item(v.list[k])])
    ELSE item(v)

(* The texts of a word, a whole number, and one in units of 10^-8.          *)
Word(w)    == <<[word |-> w]>>
Digits(n)  == <<[digits |-> n]>>
Decimal(n) == <<[decimal |-> n]>>

(* A score at 8 decimals, up saying what becomes of a ninth digit 5.        *)
Decimals8(v, up) ==
    (v.float \div 10)
        + (IF v.float % 10 > 5 \/ (v.float % 10 = 5 /\ up) THEN 1 ELSE 0)

Fixed8(v, up) == Decimal(Decimals8(v, up))

-----------------------------------------------------------------------------
(* Python: f"{value:.8f}" rounds the double itself, ties to even.           *)

UpInPython(v) == v.off > 0 \/ (v.off = 0 /\ (v.float \div 10) % 2 = 1)

canonical_scalar(v) ==
    CASE Is(v, "null")  -> <<NUL>>
      [] Is(v, "bool")  -> Digits(IF v.bool THEN 1 ELSE 0)
      [] Is(v, "int")   -> Digits(v.int)
      [] Is(v, "float") -> Fixed8(v, UpInPython(v))
      [] Is(v, "str")   -> v.str

canonical_flat(v)  == Rendered(v, canonical_scalar)
canonical_field(v) == Rendered(v, canonical_flat)

canonical_bytes(ordered_fields) ==
    Join(US, [k \in DOMAIN ordered_fields |-> canonical_field(ordered_fields[k])])

-----------------------------------------------------------------------------
(* Scala: String.format("%.8f") rounds the shortest decimal form, half up.  *)
(* None and null are one value here, and Some(x) is x.                      *)

(* Mutant: None renders as the empty string.                                *)
NoneEmpty == <<>>

None == <<NUL>>

canonicalScalar(v) ==
    CASE Is(v, "null")  -> None
      [] Is(v, "bool")  -> Digits(IF v.bool THEN 1 ELSE 0)
      [] Is(v, "int")   -> Digits(v.int)
      [] Is(v, "float") -> Fixed8(v, TRUE)
      [] Is(v, "str")   -> v.str

canonicalFlat(v)  == Rendered(v, canonicalScalar)
canonicalField(v) == Rendered(v, canonicalFlat)

canonicalBytes(fields) ==
    Join(US, [k \in DOMAIN fields |-> canonicalField(fields[k])])

-----------------------------------------------------------------------------
(* JavaScript: toFixed(8) rounds the double itself, ties up; a number that  *)
(* is a whole one is written as an integer, whatever it was meant to be.    *)

One == 1000000000

Whole(v) == v.float % One = 0 /\ v.off = 0

cfScalar(v) ==
    CASE Is(v, "null")  -> <<NUL>>
      [] Is(v, "bool")  -> Digits(IF v.bool THEN 1 ELSE 0)
      [] Is(v, "int")   -> Digits(v.int)
      [] Is(v, "float") -> IF Whole(v) THEN Digits(v.float \div One)
                           ELSE Fixed8(v, v.off >= 0)
      [] Is(v, "str")   -> v.str

cfFlat(v) == Rendered(v, cfScalar)
cf(v)     == Rendered(v, cfFlat)

canon(fields) == Join(US, [k \in DOMAIN fields |-> cf(fields[k])])

===============================================================================
