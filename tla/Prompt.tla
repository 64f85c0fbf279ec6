------------------------------- MODULE Prompt -------------------------------
(***************************************************************************)
(* What a command of main.go asks on standard input, and what it makes of  *)
(* the answers.  Standard input is read in three ways: the confirmation    *)
(* through a bufio.Reader of its own, the passwords by term.ReadPassword   *)
(* if it is a terminal and by fmt.Scan if it is not.  Somebody, or a       *)
(* script, writes one line per question, as fast or as slowly as it likes. *)
(*                                                                         *)
(* A line is the sequence of its words; case and surrounding blanks, which *)
(* the confirmations ignore, are left out. A write of a line is atomic.    *)
(***************************************************************************)
EXTENDS Naturals, Sequences

CONSTANTS
  Commands,    \* the commands that are run
  Words,       \* the words of the lines
  Lines,       \* the lines that may be given as passwords
  Yes, No,     \* the answers to a confirmation
  Terminals    \* may standard input be a terminal? not be one?

Asked == {"confirm", "ask", "again"}

(* The questions of each command, in order: a confirmation, a password, or *)
(* the same password again.                                                *)
Questions ==
  [encrypt             |-> <<"confirm", "ask", "again">>,
   decrypt             |-> <<"confirm", "ask">>,
   unlock              |-> <<"ask">>,
   change_password     |-> <<"ask", "ask", "again">>,
   encrypt_pro         |-> <<"confirm", "ask", "again">>,
   decrypt_pro         |-> <<"confirm", "ask">>,
   change_password_pro |-> <<"confirm", "ask", "ask", "again">>,
   encrypt_hidden      |-> <<"confirm", "ask", "again", "ask", "again">>,
   encrypt_file        |-> <<"ask", "again">>,
   decrypt_file        |-> <<"ask">>]

ASSUME PromptAssumption ==
  /\ Commands \subseteq DOMAIN Questions
  /\ Lines \subseteq Seq(Words)
  /\ Yes \in Words /\ No \in Words /\ Yes # No
  /\ Terminals \subseteq BOOLEAN

VARIABLES
  command,    \* the command that is run
  terminal,   \* term.IsTerminal
  script,     \* the lines that answer the questions
  unsent,     \* those not written yet; when there are none the writer is gone
  stdin,      \* the lines in the pipe or the terminal's queue
  todo,       \* the questions left
  answers,    \* the passwords read
  outcome,    \* what became of the command
  hungUp      \* history: the writer went away early

given == <<command, terminal, script>>
vars == <<given, unsent, stdin, todo, answers, outcome, hungUp>>

TypeOK ==
  /\ command \in Commands
  /\ terminal \in Terminals
  /\ script \in Seq(Lines \union {<<Yes>>, <<No>>})
  /\ unsent \in Seq(Seq(Words)) /\ stdin \in Seq(Seq(Words)) /\ answers \in Seq(Seq(Words))
  /\ Len(stdin) + Len(unsent) <= Len(script)
  /\ todo \in Seq(Asked)
  /\ Len(answers) + Len(todo) <= Len(script)
  /\ outcome \in {"asking", "run", "cancelled", "mismatch", "error"}
  /\ hungUp \in BOOLEAN

AnswersTo(questions) ==
  {s \in [DOMAIN questions -> Lines \union {<<Yes>>, <<No>>}] :
     \A i \in DOMAIN questions :
       IF questions[i] = "confirm" THEN s[i] \in {<<Yes>>, <<No>>} ELSE s[i] \in Lines}

Init ==
  /\ command \in Commands
  /\ terminal \in Terminals
  /\ script \in AnswersTo(Questions[command])
  /\ todo = Questions[command]
  /\ unsent = script
  /\ stdin = <<>>
  /\ answers = <<>>
  /\ outcome = "asking"
  /\ hungUp = FALSE

-----------------------------------------------------------------------------
Write ==
  /\ unsent # <<>>
  /\ stdin' = Append(stdin, Head(unsent))
  /\ unsent' = Tail(unsent)
  /\ UNCHANGED <<given, todo, answers, outcome, hungUp>>

HangUp ==
  /\ unsent # <<>>
  /\ unsent' = <<>>
  /\ hungUp' = TRUE
  /\ UNCHANGED <<given, stdin, todo, answers, outcome>>

EndOfFile == stdin = <<>> /\ unsent = <<>>

Asking(question) == outcome = "asking" /\ todo # <<>> /\ Head(todo) = question

(* The question is answered; after the last one the command runs. The      *)
(* mutant asks it again.                                                   *)
ProceedRepeating ==
  /\ UNCHANGED todo
  /\ outcome' = IF Tail(todo) = <<>> THEN "run" ELSE "asking"
Proceed ==
  /\ todo' = Tail(todo)
  /\ outcome' = IF Tail(todo) = <<>> THEN "run" ELSE "asking"

(* bufio.NewReader(os.Stdin).ReadString: a terminal gives one line, a pipe *)
(* all it holds; the reader, and what it buffered, is used for one line.   *)
(* The mutant takes what was typed ahead on a terminal, too.               *)
BufferedAll == Len(stdin)
Buffered == IF terminal THEN 1 ELSE Len(stdin)

Confirm ==
  /\ Asking("confirm")
  /\ stdin # <<>> \/ EndOfFile
  /\ stdin' = IF stdin = <<>> THEN stdin ELSE SubSeq(stdin, Buffered + 1, Len(stdin))
  /\ IF stdin # <<>> /\ Head(stdin) = <<Yes>>
     THEN Proceed
     ELSE outcome' = "cancelled" /\ UNCHANGED todo
  /\ UNCHANGED <<given, unsent, answers, hungUp>>

(* The handler compares the second entry of a password with the first.     *)
Accept(password) ==
  /\ answers' = Append(answers, password)
  /\ IF Head(todo) = "again" /\ password # answers[Len(answers)]
     THEN outcome' = "mismatch" /\ todo' = Tail(todo)
     ELSE Proceed

(* fmt.Scan: skips blank lines, takes one word and leaves what follows it. *)
Rest(line) == IF Len(line) = 1 THEN <<>> ELSE <<Tail(line)>>

Scan ==
  \E i \in DOMAIN stdin :
    /\ stdin[i] # <<>>
    /\ \A k \in 1 .. (i - 1) : stdin[k] = <<>>
    /\ stdin' = Rest(stdin[i]) \o SubSeq(stdin, i + 1, Len(stdin))
    /\ Accept(<<Head(stdin[i])>>)

(* term.ReadPassword: one line, blank or not.                              *)
ReadLine ==
  /\ stdin # <<>>
  /\ stdin' = Tail(stdin)
  /\ Accept(Head(stdin))

ReadPassword ==
  /\ Asking("ask") \/ Asking("again")
  /\ IF terminal THEN ReadLine ELSE Scan
  /\ UNCHANGED <<given, unsent, hungUp>>

(* At the end of the input, with no word left, Scan fails; so does         *)
(* term.ReadPassword, and then Scan. The mutants ask again, and take no    *)
(* answer for an empty one.                                                *)
NothingLeft == unsent = <<>> /\ \A i \in DOMAIN stdin : ~terminal /\ stdin[i] = <<>>

ReadFailsRetrying ==
  /\ Asking("ask") \/ Asking("again")
  /\ NothingLeft
  /\ UNCHANGED vars
ReadFailsIgnored ==
  /\ Asking("ask") \/ Asking("again")
  /\ NothingLeft
  /\ Accept(<<>>)
  /\ UNCHANGED <<given, unsent, stdin, hungUp>>
ReadFails ==
  /\ Asking("ask") \/ Asking("again")
  /\ NothingLeft
  /\ outcome' = "error"
  /\ UNCHANGED <<given, unsent, stdin, todo, answers, hungUp>>

Answer == Confirm \/ ReadPassword \/ ReadFails

Next == Write \/ HangUp \/ Answer

Spec == Init /\ [][Next]_vars

(* The writer writes on or goes away, and the process is scheduled.        *)
FairSpec == Spec /\ WF_vars(Write \/ HangUp) /\ WF_vars(Answer)

-----------------------------------------------------------------------------
(* The passwords that were given: the lines behind the confirmation.       *)
Confirms == Head(Questions[command]) = "confirm"
Given == IF Confirms THEN Tail(script) ELSE script

(* A command runs with the passwords that were given for it, each at its   *)
(* place, or it does not run; through a pipe this needs passwords without  *)
(* blanks in them, since fmt.Scan takes a word. (readPassword and the      *)
(* handlers' comparisons.)                                                 *)
PasswordsAsTyped ==
  (/\ outcome = "run"
   /\ terminal \/ \A i \in DOMAIN Given : Len(Given[i]) <= 1)
  => answers = Given

Agreeing ==
  /\ Confirms => Head(script) = <<Yes>>
  /\ \A i \in DOMAIN Given : i > 1 => Given[i] = Given[i - 1]

(* Somebody who answers every question, confirms, and gives the same       *)
(* password throughout is not turned away, however far ahead he writes;    *)
(* through a pipe this needs a command without a confirmation, whose       *)
(* reader would swallow the passwords. (readPassword, after the            *)
(* confirmations' bufio.Reader; main.go:1020, "works with pipes".)         *)
AnsweredRuns ==
  (/\ Agreeing
   /\ ~hungUp
   /\ terminal \/ (~Confirms /\ \A i \in DOMAIN Given : Len(Given[i]) = 1))
  => outcome \in {"asking", "run"}

(* No question is asked for ever.                                          *)
EveryCommandDecides == outcome = "asking" ~> outcome # "asking"

=============================================================================
