---------------------------- MODULE MCFileStack ----------------------------
(* The requests of MCFileCrypto, for the run that also checks that         *)
(* FileCrypto implements FileStack.                                        *)
EXTENDS MCFileCrypto, FileCryptoStack

=============================================================================
