------------------------------ MODULE MCExport -------------------------------
(* Small instances of Export. *)
EXTENDS Export, TLC

\* Exports are interchangeable, and so are the files.
MCSymmetry == Permutations(Exports) \cup Permutations(Files)
=============================================================================
