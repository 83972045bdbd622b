---------------------------- MODULE ByteCounter ----------------------------
(***************************************************************************)
(* What the write example promises: a byte that its client takes a copy of *)
(* and then replaces by the copy plus one, around the width of the byte.   *)
(* Others may change the byte at any time, and a client may give up; what  *)
(* the client writes stands on its own copy and on nothing older.          *)
(***************************************************************************)
EXTENDS Integers

CONSTANT Modulus  \* 2^8 in the code

VARIABLES
    value,    \* the byte, or Empty
    copy,     \* what the client has read, or NoCopy
    stale     \* others have changed the byte since the copy was taken

Byte   == 0..(Modulus - 1)
Empty  == -1   \* the value of an attribute of length zero
NoCopy == -2

vars == <<value, copy, stale>>

Init == value = 0 /\ copy = NoCopy /\ stale = FALSE

Read == copy = NoCopy /\ copy' = value /\ stale' = FALSE /\ UNCHANGED value

(* An empty value is read as whatever byte lies behind it.                 *)
Guess == copy = Empty /\ copy' \in Byte /\ UNCHANGED <<value, stale>>

Write ==
    /\ copy \in Byte
    /\ value' = (copy + 1) % Modulus
    /\ copy' = NoCopy
    /\ UNCHANGED stale

GiveUp == copy' = NoCopy /\ UNCHANGED <<value, stale>>

Foreign ==
    /\ value' \in Byte \union {Empty}
    /\ stale' = TRUE
    /\ copy' \in {copy, NoCopy}

Next == Read \/ Guess \/ Write \/ GiveUp \/ Foreign

Spec == Init /\ [][Next]_vars
=============================================================================
