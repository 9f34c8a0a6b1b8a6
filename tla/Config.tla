------------------------------- MODULE Config -------------------------------
(***************************************************************************)
(* The keys and the sizes the command line programs share.                 *)
(***************************************************************************)
EXTENDS Integers

CONSTANTS
  Key,        \* the keys in use
  KeyLength,  \* strlen of the keys; at most one of them is ""
  MaxMsg,     \* MAX_MSG_SIZE
  Junk        \* what is found in memory that is not initialised

ASSUME ConfigAssumption ==
  /\ KeyLength \in [Key -> Nat]
  /\ MaxMsg \in Nat
=============================================================================
