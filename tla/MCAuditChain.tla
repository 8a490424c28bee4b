----------------------------- MODULE MCAuditChain -----------------------------
(***************************************************************************)
(* A small audit chain for TLC.  Three kinds of payload matter: different  *)
(* ones with the same canonical string (True and 1), different strings,    *)
(* and one the byte grammar has no rule for (a dict), which makes compute  *)
(* raise.                                                                  *)
(***************************************************************************)
EXTENDS AuditChain, TLC

CONSTANTS sha256, md5, a, b

MCAlgo      == {sha256, md5}
MCSupported == {sha256}
MCHeader    == {"SCORED"}
MCPayload   == {"True", "1", "0", "dict"}
MCRendering == {"1", "0"}
MCRender ==
    [p \in MCPayload |->
        CASE p = "True" -> "1"
          [] p = "dict" -> "TypeError"
          [] OTHER      -> p]

(* The callers' list objects are interchangeable. *)
Callers == Permutations({a, b})

===============================================================================
