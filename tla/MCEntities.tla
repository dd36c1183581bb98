----------------------------- MODULE MCEntities -----------------------------
(***************************************************************************)
(* A small instance of Entities for TLC.  "Rust" and "rust" differ in case *)
(* only; "Unal" stands for a name with a non-ASCII capital, which SQLite   *)
(* does not lower; "cafe" for a name with a character across byte 4; "ol"  *)
(* for one that begins with a multi-byte character, an o with an umlaut.   *)
(***************************************************************************)
EXTENDS Entities

MCSpellings == {"Rust", "rust", "Unal", "unal", "ol", "cafe", "user"}
MCLower == [n \in MCSpellings |->
    CASE n = "Rust" -> "rust" [] n = "Unal" -> "unal" [] OTHER -> n]
MCSqlLower == [n \in MCSpellings |-> IF n = "Rust" THEN "rust" ELSE n]

\* Two add_memory calls and two events, the second of which panics.
MCAdds == {"a1", "a2"}
MCEvents == <<"e1", "e2">>
MCSubject == [c \in MCAdds \cup {"e1", "e2"} |->
    CASE c = "a1" -> "Rust" [] c = "a2" -> "ol" [] c = "e1" -> "rust"
      [] c = "e2" -> "unal"]
MCObject == [c \in MCAdds \cup {"e1", "e2"} |->
    CASE c = "a1" -> "user" [] c = "a2" -> "Unal" [] c = "e1" -> "Unal"
      [] c = "e2" -> "cafe"]
MCMentions == [c \in MCAdds \cup {"e1", "e2"} |->
    IF c = "a2" THEN {"rust", "unal"} ELSE {}]
\* The texts of a1 and e1 hold a word that only begins with "ol".
MCCut == [c \in MCAdds \cup {"e1", "e2"} |-> IF c \in {"a1", "e1"} THEN {"ol"} ELSE {}]
=============================================================================
