----------------------------- MODULE MCEntries -----------------------------
(***************************************************************************)
(* Tokens for TLC: two tokens whose first eight characters are the same,   *)
(* and others.                                                             *)
(***************************************************************************)
EXTENDS Entries

CONSTANTS Twin      \* a token that shares its unique id with another one

Others == Tokens \ {Twin}
MCUniqueIds == Others
MCUniqueId == [t \in Tokens |-> IF t = Twin THEN CHOOSE o \in Others : TRUE ELSE t]
=============================================================================
