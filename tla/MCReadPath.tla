------------------------------ MODULE MCReadPath ------------------------------
(***************************************************************************)
(* Three claims and a decision the request may see, the second claim too   *)
(* large to share the claims' budget with the others, and a newer memory   *)
(* of another project.                                                     *)
(***************************************************************************)
EXTENDS ReadPath, TLC

MCScopeOf == <<{"project:a"}, {"user:me"}, {"project:a", "project:b"}, {"global"},
               {"project:b"}>>
MCKindOf == <<"claim", "claim", "claim", "decision", "claim">>
MCTokens == <<1, 3, 1, 9, 1>>
MCSimilarity == <<90, 20, 60, 0, 80>>
MCConfidence == <<70, 98, 80, 95, 70>>
MCLinked == <<{1, 2}>>
MCRequested == {"project:a"}
MCWeight == [claim |-> 3, decision |-> 4]
MCScorings == <<[vector |-> 6, entity |-> 2, recency |-> 1, confidence |-> 1],
                [vector |-> 0, entity |-> 0, recency |-> 50, confidence |-> 1]>>
MCVotes == {[mem |-> 1, kind |-> "wrong"], [mem |-> 5, kind |-> "helpful"]}
MCForgettable == {1}

Symmetric == Permutations(Reads) \cup Permutations(Feedbacks)
===============================================================================
