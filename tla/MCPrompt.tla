------------------------------ MODULE MCPrompt ------------------------------
(* The lines of the Prompt runs: words, blank lines and a phrase.          *)
EXTENDS Prompt

CONSTANTS alpha, beta

WordsAndPhrases == {<<alpha>>, <<beta>>, <<>>, <<alpha, beta>>}
AllWords == {alpha, beta, Yes, No}
AllCommands == DOMAIN Questions

=============================================================================
