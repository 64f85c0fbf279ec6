----------------------------- MODULE FileStack -----------------------------
(***************************************************************************)
(* What encrypt-file and decrypt-file with one argument promise: a file is *)
(* a stack of the passwords it was encrypted with, and a command changes   *)
(* the file under its name in one step, or not at all.  FileCryptoStack    *)
(* relates the code, with its temporaries and its two system calls, to     *)
(* this.                                                                   *)
(***************************************************************************)
EXTENDS SequencesExt

CONSTANTS Files, Passwords

VARIABLE stack   \* the passwords of each file, the outermost last

Init == stack = [f \in Files |-> <<>>]

(* encrypt-file puts a password on, also on a file that has some.          *)
Encrypted(f, password) ==
  stack' = [stack EXCEPT ![f] = Append(@, password)]

(* decrypt-file takes the outermost off, given that very password.         *)
Decrypted(f, password) ==
  /\ stack[f] # <<>>
  /\ Last(stack[f]) = password
  /\ stack' = [stack EXCEPT ![f] = Front(@)]

Next ==
  \E f \in Files, password \in Passwords : Encrypted(f, password) \/ Decrypted(f, password)

Spec == Init /\ [][Next]_stack

=============================================================================
