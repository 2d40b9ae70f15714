---------------------------- MODULE MCRunControl -----------------------------
(* Small instances of RunControl: one or two sections, any other depending *)
(* on the first, and a handful of requests of each kind.                   *)
EXTENDS RunControl, TLC

CONSTANT s1

\* Reopening s1 also reopens what depends on it, as sections_depending_on does.
MCClosure == [s \in Sections |-> IF s = s1 THEN Sections ELSE {s}]

\* Requests of one kind are interchangeable.
MCSymmetry == Permutations(Answerers) \cup Permutations(Resumers) \cup Permutations(Reopeners)

\* Bound of RunReopens: one exception or one stop, not both.
OneMishap == faults + crashes <= 1
=============================================================================
