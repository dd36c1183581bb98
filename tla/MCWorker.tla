------------------------------ MODULE MCWorker ------------------------------
(* Small instances of Worker for TLC. *)
EXTENDS Worker

\* An event that always fails, and one with a candidate to drop and one to keep.
MCExtractions == {<<"Unlinkable">>, <<"Discard", "Promote">>}

\* The smallest useful contents, for the runs about ordering and replay.
MCPlain == {<<"Promote">>}
=============================================================================
