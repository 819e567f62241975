------------------------------ MODULE MCTables ------------------------------
(***************************************************************************)
(* The keys of the checked instance: their sizes and their hashes.         *)
(***************************************************************************)
EXTENDS Tables

MCKeyBytes == [k \in Keys |-> IF k = 2 THEN 2 ELSE 1]

MCHash == [k \in Keys |-> (k * 77 + 5) % 2 ^ HashBits]
=============================================================================
