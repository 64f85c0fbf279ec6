-------------------------- MODULE FileCryptoStack --------------------------
(***************************************************************************)
(* The refinement mapping from FileCrypto to FileStack.  Which of the      *)
(* files on disk is the user's file cannot be told from the directory when *)
(* a kill has left temporaries behind, so a history variable says it: the  *)
(* step that commits an in-place command is os.Remove of the input, or,    *)
(* where that failed, os.Rename onto it.                                   *)
(***************************************************************************)
EXTENDS FileCrypto

VARIABLE current   \* history: the inode that holds each user file

stackVars == <<vars, current>>

Commits(p, name) ==
  /\ pc[p] \in {"remove", "rename"}
  /\ job[p].input = Path(name)
  /\ dir'[Path(name)] # dir[Path(name)]

StackInit == Init /\ current = [name \in Files |-> dir[Path(name)]]

StackNext ==
  /\ Next
  /\ current' = [name \in Files |->
       IF \E p \in Procs : Commits(p, name)
       THEN dir[job[CHOOSE p \in Procs : Commits(p, name)].output]
       ELSE current[name]]

StackSpec == StackInit /\ [][StackNext]_stackVars

(* A whole file begins with one header per encryption, the last one first, *)
(* and each header's key seals all that is behind it, as chunks 0, 1, ...  *)
Whole(name, file, passwords) ==
  LET depth == Len(passwords)
      Headers(i) == IF i <= depth THEN i - 1 ELSE depth
  IN
  /\ Len(file) = depth + NumChunks
  /\ \A i \in DOMAIN file :
       /\ IF i <= depth THEN file[i].kind = "header"
          ELSE file[i].kind = "text" /\ file[i].of = <<name, i - depth>>
       /\ Len(file[i].layers) = Headers(i)
       /\ \A h \in 1 .. Headers(i) :
            file[i].layers[Headers(i) - h + 1] =
              GCM(DeriveKey(passwords[depth - h + 1], SaltOf(file[h])), i - h - 1)

(* The passwords of a file that is whole; no stack for one that is not.    *)
StackOf(name, file) ==
  LET layers == IF file = <<>> THEN <<>> ELSE Last(file).layers
      passwords == [i \in DOMAIN layers |-> layers[i].key.password]
  IN  IF Whole(name, file, passwords) THEN passwords ELSE <<NoPassword>>

Abstract ==
  INSTANCE FileStack WITH stack <- [name \in Files |-> StackOf(name, content[current[name]])]

(* encrypt-file and decrypt-file, in place, put a password on a file or    *)
(* take the outermost off, in one step or not at all, whatever is killed   *)
(* or fails on the way and whatever is left over from earlier failures;    *)
(* runs to other names leave the file alone. (handleEncryptFile,           *)
(* handleDecryptFile.)                                                     *)
ImplementsFileStack == Abstract!Spec

=============================================================================
