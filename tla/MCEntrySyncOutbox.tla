-------------------------- MODULE MCEntrySyncOutbox --------------------------
(* Small instances of EntrySyncOutbox.  One tick is a lease.                *)
EXTENDS EntrySyncOutbox, TLC

MCBackoff == <<1, 2>>
TokenSymmetry == Permutations(Token)
RowSymmetry == Permutations(Token) \cup Permutations(Entry)
=============================================================================
