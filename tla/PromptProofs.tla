---------------------------- MODULE PromptProofs ----------------------------
(***************************************************************************)
(* Proofs about Prompt, for any commands and any lines.                    *)
(***************************************************************************)
EXTENDS Prompt, SequenceTheorems, TLAPS

USE PromptAssumption

-----------------------------------------------------------------------------
(* The inductive invariant.                                                *)

Asks == Questions[command]
Done == Len(Asks) - Len(todo)           \* questions answered
Skip == IF Confirms THEN 1 ELSE 0       \* lines in front of the passwords

Single(lines) == \A i \in 1 .. Len(lines) : Len(lines[i]) <= 1

(* Every question takes at least a line (if the passwords have no blanks), *)
(* so that there are never more lines than questions; through a pipe it    *)
(* may take more, and then there are fewer.                                *)
Counts ==
  /\ \A i \in 1 .. Len(todo) : todo[i] = Asks[Done + i]
  /\ Len(answers) = IF Done = 0 THEN 0 ELSE Done - Skip
  /\ outcome = "asking" => todo # <<>>
  /\ outcome = "asking" /\ (terminal \/ Single(script)) => Len(stdin) + Len(unsent) <= Len(todo)
  /\ outcome = "run" => todo = <<>>

Synced == Len(stdin) + Len(unsent) = Len(todo)

(* What is to be read are the answers to the questions that are left.      *)
Matches ==
  /\ \A i \in 1 .. Len(stdin) : stdin[i] = script[Done + i]
  /\ \A i \in 1 .. Len(unsent) : unsent[i] = script[Done + Len(stdin) + i]

AnswersMatch == \A i \in 1 .. Len(answers) : answers[i] = script[Skip + i]

(* Somebody answered everything, and agreed.                               *)
Answered ==
  /\ Agreeing
  /\ ~hungUp
  /\ terminal \/ (~Confirms /\ \A i \in DOMAIN Given : Len(Given[i]) = 1)

PromptInv ==
  /\ TypeOK
  /\ script \in AnswersTo(Asks)
  /\ Counts
  /\ hungUp => unsent = <<>>
  /\ Single(script) => Single(stdin) /\ Single(unsent)
  /\ outcome = "asking" /\ (terminal \/ (Single(script) /\ Synced)) => Matches /\ AnswersMatch
  /\ outcome = "run" /\ (terminal \/ Single(script)) => AnswersMatch
  /\ Answered => outcome \in {"asking", "run"} /\ (outcome = "asking" => Synced)

-----------------------------------------------------------------------------
(* The questions, and the lines that answer them.                          *)

(* Only the first question may be a confirmation, and a password is asked  *)
(* for again only after it was asked for.                                  *)
LEMMA QuestionsAre ==
  ASSUME NEW c \in Commands
  PROVE  /\ Questions[c] \in Seq(Asked) /\ Len(Questions[c]) \in Nat \ {0}
         /\ \A k \in 1 .. Len(Questions[c]) :
              /\ Questions[c][k] = "confirm" => k = 1 /\ Len(Questions[c]) > 1
              /\ Questions[c][k] = "again" => k > 1 /\ Questions[c][k - 1] = "ask"
<1>1. c \in {"encrypt", "decrypt", "unlock", "change_password", "encrypt_pro", "decrypt_pro",
             "change_password_pro", "encrypt_hidden", "encrypt_file", "decrypt_file"}
  BY DEF Questions
<1>2. CASE c \in {"encrypt", "encrypt_pro"}
  <2>1. Questions[c] = <<"confirm", "ask", "again">>
    BY <1>2 DEF Questions
  <2>. QED BY <2>1 DEF Asked
<1>3. CASE c \in {"decrypt", "decrypt_pro"}
  <2>1. Questions[c] = <<"confirm", "ask">>
    BY <1>3 DEF Questions
  <2>. QED BY <2>1 DEF Asked
<1>4. CASE c \in {"unlock", "decrypt_file"}
  <2>1. Questions[c] = <<"ask">>
    BY <1>4 DEF Questions
  <2>. QED BY <2>1 DEF Asked
<1>5. CASE c = "change_password"
  <2>1. Questions[c] = <<"ask", "ask", "again">>
    BY <1>5 DEF Questions
  <2>. QED BY <2>1 DEF Asked
<1>6. CASE c = "change_password_pro"
  <2>1. Questions[c] = <<"confirm", "ask", "ask", "again">>
    BY <1>6 DEF Questions
  <2>. QED BY <2>1 DEF Asked
<1>7. CASE c = "encrypt_hidden"
  <2>1. Questions[c] = <<"confirm", "ask", "again", "ask", "again">>
    BY <1>7 DEF Questions
  <2>. QED BY <2>1 DEF Asked
<1>8. CASE c = "encrypt_file"
  <2>1. Questions[c] = <<"ask", "again">>
    BY <1>8 DEF Questions
  <2>. QED BY <2>1 DEF Asked
<1>. QED BY <1>1, <1>2, <1>3, <1>4, <1>5, <1>6, <1>7, <1>8

LEMMA OneWord ==
  ASSUME NEW w \in Words
  PROVE  <<w>> \in Seq(Words) /\ Len(<<w>>) = 1
OBVIOUS

LEMMA ScriptIs ==
  ASSUME TypeOK, script \in AnswersTo(Asks)
  PROVE  /\ Asks \in Seq(Asked) /\ Len(Asks) \in Nat \ {0} /\ Len(script) = Len(Asks)
         /\ script \in Seq(Seq(Words))
         /\ Confirms => Asks[1] = "confirm" /\ Len(Asks) > 1 /\ script[1] \in {<<Yes>>, <<No>>}
         /\ ~Confirms => Asks[1] # "confirm"
         /\ \A k \in 1 .. Len(Asks) :
              /\ Asks[k] = "confirm" => k = 1
              /\ Asks[k] = "again" => k > 1 /\ Asks[k - 1] = "ask"
<1>1. command \in Commands
  BY DEF TypeOK
<1>2. /\ Asks \in Seq(Asked) /\ Len(Asks) \in Nat \ {0}
      /\ \A k \in 1 .. Len(Asks) :
           /\ Asks[k] = "confirm" => k = 1 /\ Len(Asks) > 1
           /\ Asks[k] = "again" => k > 1 /\ Asks[k - 1] = "ask"
  BY <1>1, QuestionsAre DEF Asks
<1>3. 1 \in 1 .. Len(Asks) /\ DOMAIN Asks = 1 .. Len(Asks)
  BY <1>2
<1>4. Confirms <=> Asks[1] = "confirm"
  BY <1>2, <1>3 DEF Confirms, Asks
<1>5. script \in Seq(Seq(Words))
  <2>1. Lines \union {<<Yes>>, <<No>>} \subseteq Seq(Words)
    BY OneWord
  <2>2. script \in Seq(Lines \union {<<Yes>>, <<No>>})
    BY DEF TypeOK
  <2>. QED BY <2>1, <2>2, SeqMonotonic
<1>6. /\ script \in [DOMAIN Asks -> Lines \union {<<Yes>>, <<No>>}]
      /\ \A i \in DOMAIN Asks : Asks[i] = "confirm" => script[i] \in {<<Yes>>, <<No>>}
  BY DEF AnswersTo
<1>7. Len(script) = Len(Asks)
  BY <1>2, <1>3, <1>5, <1>6
<1>. QED BY <1>2, <1>3, <1>4, <1>5, <1>6, <1>7

LEMMA GivenIs ==
  ASSUME TypeOK, script \in AnswersTo(Asks)
  PROVE  /\ Given \in Seq(Seq(Words)) /\ Len(Given) = Len(script) - Skip
         /\ \A i \in 1 .. (Len(script) - Skip) : Given[i] = script[Skip + i]
         /\ DOMAIN Given = 1 .. (Len(script) - Skip)
<1>1. script \in Seq(Seq(Words)) /\ Len(script) \in Nat /\ Len(script) >= 1 /\ script # <<>>
  BY ScriptIs
<1>2. CASE Confirms
  <2>1. Given = Tail(script) /\ Skip = 1
    BY <1>2 DEF Given, Skip
  <2>2. /\ Tail(script) \in Seq(Seq(Words)) /\ Len(Tail(script)) = Len(script) - 1
        /\ \A i \in 1 .. Len(Tail(script)) : Tail(script)[i] = script[i + 1]
    BY <1>1, HeadTailProperties
  <2>. QED BY <1>1, <2>1, <2>2
<1>3. CASE ~Confirms
  BY <1>1, <1>3 DEF Given, Skip
<1>. QED BY <1>2, <1>3

(* Passwords without blanks: then no line has any.                         *)
LEMMA GivenSingle ==
  ASSUME TypeOK, script \in AnswersTo(Asks), \A i \in DOMAIN Given : Len(Given[i]) <= 1
  PROVE  Single(script)
<1>. SUFFICES ASSUME NEW i \in 1 .. Len(script) PROVE Len(script[i]) <= 1
  BY DEF Single
<1>1. CASE Skip < i
  <2>1. i - Skip \in DOMAIN Given /\ Given[i - Skip] = script[i]
    BY <1>1, GivenIs, ScriptIs, SMTT(30) DEF Skip
  <2>. QED BY <2>1
<1>2. CASE ~(Skip < i)
  <2>1. Confirms /\ i = 1
    BY <1>2, ScriptIs DEF Skip
  <2>2. script[i] = <<Yes>> \/ script[i] = <<No>>
    BY <2>1, ScriptIs
  <2>3. CASE script[i] = <<Yes>>
    BY <2>3, OneWord
  <2>4. CASE script[i] = <<No>>
    BY <2>4, OneWord
  <2>. QED BY <2>2, <2>3, <2>4
<1>. QED BY <1>1, <1>2

(* What a step that leaves the command and the script alone leaves alone.  *)
LEMMA SameGiven ==
  ASSUME UNCHANGED given
  PROVE  /\ command' = command /\ terminal' = terminal /\ script' = script
         /\ Asks' = Asks /\ Skip' = Skip /\ Given' = Given
         /\ Agreeing' <=> Agreeing
         /\ Confirms' <=> Confirms
<1>1. command' = command /\ terminal' = terminal /\ script' = script
  BY DEF given
<1>2. Asks' = Asks /\ (Confirms' <=> Confirms)
  BY <1>1 DEF Asks, Confirms
<1>3. Given' = Given /\ Skip' = Skip
  BY <1>1, <1>2 DEF Given, Skip
<1>4. Agreeing' <=> Agreeing
  BY <1>1, <1>2, <1>3 DEF Agreeing
<1>. QED BY <1>1, <1>2, <1>3, <1>4

LEMMA SameAnswered ==
  ASSUME UNCHANGED <<given, hungUp>>
  PROVE  Answered' <=> Answered
<1>1. terminal' = terminal /\ Given' = Given /\ (Agreeing' <=> Agreeing) /\ (Confirms' <=> Confirms)
  BY SameGiven
<1>. QED BY <1>1 DEF Answered

(* While a command asks, the question is the one after those answered.     *)
LEMMA Position ==
  ASSUME PromptInv
  PROVE  /\ Done \in Nat /\ Done + Len(todo) = Len(Asks) /\ Len(script) = Len(Asks)
         /\ Len(todo) \in Nat /\ Len(stdin) \in Nat /\ Len(unsent) \in Nat /\ Len(answers) \in Nat
         /\ Skip \in {0, 1} /\ (Confirms <=> Skip = 1)
         /\ outcome = "asking" => /\ todo # <<>> /\ Len(todo) >= 1
                                  /\ Head(todo) = Asks[Done + 1] /\ Done + 1 \in 1 .. Len(Asks)
<1>1. TypeOK /\ script \in AnswersTo(Asks) /\ Counts
  BY DEF PromptInv
<1>2. /\ Len(todo) \in Nat /\ Len(stdin) \in Nat /\ Len(unsent) \in Nat /\ Len(answers) \in Nat
      /\ Len(answers) + Len(todo) <= Len(script) /\ todo \in Seq(Asked)
  BY <1>1 DEF TypeOK
<1>3. Len(script) = Len(Asks) /\ Len(Asks) \in Nat
  BY <1>1, ScriptIs
<1>4. Done \in Nat /\ Done + Len(todo) = Len(Asks)
  BY <1>2, <1>3 DEF Done
<1>5. Skip \in {0, 1} /\ (Confirms <=> Skip = 1)
  BY DEF Skip
<1>6. ASSUME outcome = "asking"
      PROVE  /\ todo # <<>> /\ Len(todo) >= 1
             /\ Head(todo) = Asks[Done + 1] /\ Done + 1 \in 1 .. Len(Asks)
  <2>1. todo # <<>>
    BY <1>1, <1>6 DEF Counts
  <2>2. Len(todo) >= 1 /\ Head(todo) = todo[1]
    BY <1>2, <2>1
  <2>3. todo[1] = Asks[Done + 1]
    BY <1>1, <1>2, <2>2 DEF Counts
  <2>. QED BY <1>2, <1>3, <1>4, <2>1, <2>2, <2>3
<1>. QED BY <1>2, <1>3, <1>4, <1>5, <1>6

-----------------------------------------------------------------------------
(* The first states, and the steps of the writer.                          *)

LEMMA InitPrompt == Init => PromptInv
<1>. SUFFICES ASSUME Init PROVE PromptInv
  OBVIOUS
<1>0. /\ command \in Commands /\ terminal \in Terminals /\ script \in AnswersTo(Asks)
      /\ todo = Asks /\ unsent = script /\ stdin = <<>> /\ answers = <<>>
      /\ outcome = "asking" /\ hungUp = FALSE
  BY DEF Init, Asks
<1>1. Asks \in Seq(Asked) /\ Len(Asks) \in Nat \ {0}
  BY <1>0, QuestionsAre DEF Asks
<1>2. script \in Seq(Lines \union {<<Yes>>, <<No>>}) /\ Len(script) = Len(Asks)
  <2>1. script \in [1 .. Len(Asks) -> Lines \union {<<Yes>>, <<No>>}]
    BY <1>0, <1>1 DEF AnswersTo
  <2>. QED BY <1>1, <2>1, SeqDef
<1>3. script \in Seq(Seq(Words))
  <2>1. Lines \union {<<Yes>>, <<No>>} \subseteq Seq(Words)
    BY OneWord
  <2>. QED BY <1>2, <2>1, SeqMonotonic
<1>4. <<>> \in Seq(Seq(Words)) /\ Len(<<>>) = 0
  OBVIOUS
<1>5. TypeOK
  <2>1. Len(stdin) + Len(unsent) <= Len(script) /\ Len(answers) + Len(todo) <= Len(script)
    BY <1>0, <1>1, <1>2, <1>4
  <2>2. stdin \in Seq(Seq(Words)) /\ unsent \in Seq(Seq(Words)) /\ answers \in Seq(Seq(Words))
    BY <1>0, <1>3, <1>4
  <2>. QED BY <1>0, <1>1, <1>2, <2>1, <2>2 DEF TypeOK
<1>6. Done = 0
  BY <1>0, <1>1 DEF Done
<1>7. Counts
  BY <1>0, <1>1, <1>2, <1>4, <1>6 DEF Counts
<1>8. Single(script) => Single(stdin) /\ Single(unsent)
  BY <1>0, <1>4 DEF Single
<1>9. Matches /\ AnswersMatch
  BY <1>0, <1>2, <1>1, <1>4, <1>6 DEF Matches, AnswersMatch
<1>10. Synced
  BY <1>0, <1>1, <1>2, <1>4 DEF Synced
<1>. QED BY <1>0, <1>5, <1>7, <1>8, <1>9, <1>10 DEF PromptInv

LEMMA WriteStep ==
  ASSUME PromptInv, Write
  PROVE  PromptInv'
<1>1. /\ unsent # <<>> /\ stdin' = Append(stdin, Head(unsent)) /\ unsent' = Tail(unsent)
      /\ UNCHANGED given /\ todo' = todo /\ answers' = answers
      /\ outcome' = outcome /\ hungUp' = hungUp
  BY DEF Write
<1>2. /\ command' = command /\ terminal' = terminal /\ script' = script
      /\ Asks' = Asks /\ Skip' = Skip
  BY <1>1, SameGiven
<1>3. Answered' <=> Answered
  BY <1>1, SameAnswered
<1>4. TypeOK /\ unsent \in Seq(Seq(Words)) /\ stdin \in Seq(Seq(Words))
  BY DEF PromptInv, TypeOK
<1>5. /\ stdin' \in Seq(Seq(Words)) /\ Len(stdin') = Len(stdin) + 1
      /\ unsent' \in Seq(Seq(Words)) /\ Len(unsent') = Len(unsent) - 1
      /\ \A i \in 1 .. Len(stdin) : stdin'[i] = stdin[i]
      /\ stdin'[Len(stdin) + 1] = unsent[1]
      /\ \A i \in 1 .. Len(unsent') : unsent'[i] = unsent[i + 1]
  BY <1>1, <1>4, HeadTailProperties, AppendProperties
<1>6. Len(stdin) \in Nat /\ Len(unsent) \in Nat /\ Len(unsent) >= 1
  BY <1>1, <1>4
<1>7. TypeOK'
  BY <1>1, <1>2, <1>4, <1>5, <1>6 DEF TypeOK
<1>8. (script \in AnswersTo(Asks))'
  BY <1>2 DEF PromptInv, AnswersTo
<1>9. Done' = Done /\ Done \in Nat
  BY <1>1, <1>2, Position DEF Done
<1>10. Single(script) => Single(stdin') /\ Single(unsent')
  <2>. SUFFICES ASSUME Single(script) PROVE Single(stdin') /\ Single(unsent')
    OBVIOUS
  <2>1. Single(stdin) /\ Single(unsent)
    BY DEF PromptInv
  <2>2. Single(stdin')
    <3>. SUFFICES ASSUME NEW i \in 1 .. Len(stdin') PROVE Len(stdin'[i]) <= 1
      BY DEF Single
    <3>1. CASE i \in 1 .. Len(stdin)
      BY <1>5, <2>1, <3>1 DEF Single
    <3>2. CASE i = Len(stdin) + 1
      BY <1>5, <1>6, <2>1, <3>2 DEF Single
    <3>. QED BY <1>5, <1>6, <3>1, <3>2
  <2>3. Single(unsent')
    <3>. SUFFICES ASSUME NEW i \in 1 .. Len(unsent') PROVE Len(unsent'[i]) <= 1
      BY DEF Single
    <3>1. i + 1 \in 1 .. Len(unsent) /\ unsent'[i] = unsent[i + 1]
      BY <1>5, <1>6
    <3>. QED BY <2>1, <3>1 DEF Single
  <2>. QED BY <2>2, <2>3
<1>11. (Single(script))' <=> Single(script)
  BY <1>2 DEF Single
<1>12. Counts'
  BY <1>1, <1>2, <1>5, <1>6, <1>9, <1>11 DEF Counts, PromptInv
<1>13. Synced' <=> Synced
  BY <1>1, <1>5, <1>6, Position DEF Synced
<1>14. Matches => Matches'
  <2>. SUFFICES ASSUME Matches PROVE Matches'
    OBVIOUS
  <2>1. ASSUME NEW i \in 1 .. Len(stdin') PROVE stdin'[i] = script[Done + i]
    <3>1. CASE i \in 1 .. Len(stdin)
      BY <1>5, <3>1 DEF Matches
    <3>2. CASE i = Len(stdin) + 1
      <4>1. unsent[1] = script[Done + Len(stdin) + 1]
        BY <1>6 DEF Matches
      <4>. QED BY <1>5, <1>6, <1>9, <3>2, <4>1
    <3>. QED BY <1>5, <1>6, <2>1, <3>1, <3>2
  <2>2. ASSUME NEW i \in 1 .. Len(unsent') PROVE unsent'[i] = script[Done + Len(stdin') + i]
    <3>1. i + 1 \in 1 .. Len(unsent) /\ unsent'[i] = unsent[i + 1]
      BY <1>5, <1>6, <2>2
    <3>2. unsent[i + 1] = script[Done + Len(stdin) + (i + 1)]
      BY <3>1 DEF Matches
    <3>. QED BY <1>5, <1>6, <1>9, <3>1, <3>2
  <2>. QED BY <1>2, <1>9, <2>1, <2>2 DEF Matches
<1>15. AnswersMatch' <=> AnswersMatch
  BY <1>1, <1>2 DEF AnswersMatch
<1>16. (hungUp => unsent = <<>>)'
  BY <1>1 DEF PromptInv
<1>. QED BY <1>1, <1>2, <1>3, <1>7, <1>8, <1>10, <1>11, <1>12, <1>13, <1>14, <1>15, <1>16
        DEF PromptInv

LEMMA HangUpStep ==
  ASSUME PromptInv, HangUp
  PROVE  PromptInv'
<1>1. /\ unsent # <<>> /\ unsent' = <<>> /\ hungUp' = TRUE
      /\ UNCHANGED given /\ stdin' = stdin /\ todo' = todo /\ answers' = answers
      /\ outcome' = outcome
  BY DEF HangUp
<1>2. /\ command' = command /\ terminal' = terminal /\ script' = script
      /\ Asks' = Asks /\ Skip' = Skip
  BY <1>1, SameGiven
<1>3. ~Answered'
  BY <1>1 DEF Answered
<1>4. TypeOK /\ unsent \in Seq(Seq(Words)) /\ Len(unsent) >= 1
  BY <1>1 DEF PromptInv, TypeOK
<1>5. unsent' \in Seq(Seq(Words)) /\ Len(unsent') = 0
  BY <1>1
<1>6. /\ Len(stdin) \in Nat /\ Len(unsent) \in Nat /\ Len(todo) \in Nat
      /\ Done \in Nat /\ Done' = Done
  BY <1>1, <1>2, Position DEF Done
<1>7. TypeOK'
  BY <1>1, <1>2, <1>4, <1>5, <1>6 DEF TypeOK
<1>8. (script \in AnswersTo(Asks))'
  BY <1>2 DEF PromptInv, AnswersTo
<1>9. (Single(script))' <=> Single(script)
  BY <1>2 DEF Single
<1>10. Counts'
  BY <1>1, <1>2, <1>4, <1>5, <1>6, <1>9 DEF Counts, PromptInv
<1>11. Single(script) => Single(stdin') /\ Single(unsent')
  BY <1>1, <1>5 DEF PromptInv, Single
<1>12. Matches => Matches'
  BY <1>1, <1>2, <1>5, <1>6 DEF Matches
<1>13. AnswersMatch' <=> AnswersMatch
  BY <1>1, <1>2 DEF AnswersMatch
<1>14. (outcome = "asking" /\ ~terminal /\ Single(script)) => ~Synced'
  BY <1>1, <1>4, <1>5, <1>6 DEF PromptInv, Counts, Synced
<1>. QED BY <1>1, <1>2, <1>3, <1>7, <1>8, <1>9, <1>10, <1>11, <1>12, <1>13, <1>14 DEF PromptInv

-----------------------------------------------------------------------------
(* The confirmation.                                                       *)

(* What is left of lines without the first k of them.                      *)
LEMMA Dropped ==
  ASSUME NEW S, NEW lines \in Seq(S), NEW k \in 0 .. Len(lines)
  PROVE  /\ SubSeq(lines, k + 1, Len(lines)) \in Seq(S)
         /\ Len(SubSeq(lines, k + 1, Len(lines))) = Len(lines) - k
         /\ \A i \in 1 .. (Len(lines) - k) : SubSeq(lines, k + 1, Len(lines))[i] = lines[k + i]
<1>1. Len(lines) \in Nat
  OBVIOUS
<1>2. \A i \in (k + 1) .. Len(lines) : lines[i] \in S
  OBVIOUS
<1>3. /\ SubSeq(lines, k + 1, Len(lines)) \in Seq(S)
      /\ Len(SubSeq(lines, k + 1, Len(lines))) = IF k + 1 <= Len(lines) THEN Len(lines) - (k + 1) + 1 ELSE 0
      /\ \A i \in 1 .. (Len(lines) - (k + 1) + 1) : SubSeq(lines, k + 1, Len(lines))[i] = lines[(k + 1) + i - 1]
  BY <1>1, <1>2, SubSeqProperties
<1>. QED BY <1>1, <1>3

LEMMA ConfirmRead ==
  ASSUME PromptInv, Confirm
  PROVE  /\ Done = 0 /\ Skip = 1 /\ Len(answers) = 0 /\ Len(Asks) > 1 /\ Confirms
         /\ stdin' \in Seq(Seq(Words)) /\ Len(stdin') <= Len(stdin)
         /\ \A i \in 1 .. Len(stdin') : i + 1 \in 1 .. Len(stdin) /\ stdin'[i] = stdin[i + 1]
         /\ stdin # <<>> => /\ Len(stdin) >= 1
                            /\ terminal => Len(stdin') = Len(stdin) - 1
                            /\ ~terminal => Len(stdin') = 0
<1>1. /\ outcome = "asking" /\ todo # <<>> /\ Head(todo) = "confirm"
      /\ stdin' = IF stdin = <<>> THEN stdin ELSE SubSeq(stdin, Buffered + 1, Len(stdin))
  BY DEF Confirm, Asking
<1>2. TypeOK /\ script \in AnswersTo(Asks) /\ Counts /\ stdin \in Seq(Seq(Words))
  BY DEF PromptInv, TypeOK
<1>3. Asks[Done + 1] = "confirm" /\ Done + 1 \in 1 .. Len(Asks)
  BY <1>1, Position
<1>4. Done = 0
  BY <1>2, <1>3, ScriptIs, Position
<1>5. Confirms /\ Skip = 1
  BY <1>2, <1>3, <1>4, ScriptIs, Position
<1>6. Len(answers) = 0 /\ Len(Asks) > 1
  BY <1>2, <1>4, <1>5, ScriptIs DEF Counts
<1>7. CASE stdin = <<>>
  <2>1. stdin' = stdin /\ Len(stdin) = 0
    BY <1>1, <1>7
  <2>. QED BY <1>2, <1>4, <1>5, <1>6, <1>7, <2>1
<1>8. CASE stdin # <<>>
  <2>0. Len(stdin) \in Nat /\ Len(stdin) >= 1
    BY <1>2, <1>8
  <2>1. Len(stdin) \in Nat /\ Len(stdin) >= 1 /\ stdin' = SubSeq(stdin, Buffered + 1, Len(stdin))
    BY <1>1, <1>8, <2>0, Zenon
  <2>2. /\ Buffered \in 1 .. Len(stdin)
        /\ terminal => Buffered = 1
        /\ ~terminal => Buffered = Len(stdin)
    BY <2>1 DEF Buffered
  <2>3. /\ stdin' \in Seq(Seq(Words)) /\ Len(stdin') = Len(stdin) - Buffered
        /\ \A i \in 1 .. Len(stdin') : stdin'[i] = stdin[Buffered + i]
    BY <1>2, <2>1, <2>2, Dropped
  <2>4. Len(stdin') <= Len(stdin) /\ (terminal => Len(stdin') = Len(stdin) - 1) /\ (~terminal => Len(stdin') = 0)
    <3>1. Len(stdin') = Len(stdin) - Buffered
      BY <2>3
    <3>. QED BY <2>0, <2>2, <3>1
  <2>5. \A i \in 1 .. Len(stdin') : i + 1 \in 1 .. Len(stdin) /\ stdin'[i] = stdin[i + 1]
    BY <2>1, <2>2, <2>3, <2>4
  <2>. QED BY <1>4, <1>5, <1>6, <2>1, <2>3, <2>4, <2>5
<1>. QED BY <1>7, <1>8

LEMMA ConfirmStep ==
  ASSUME PromptInv, Confirm
  PROVE  PromptInv'
<1>1. /\ outcome = "asking" /\ todo # <<>> /\ Head(todo) = "confirm"
      /\ stdin # <<>> \/ EndOfFile
      /\ UNCHANGED given /\ unsent' = unsent /\ answers' = answers /\ hungUp' = hungUp
  BY DEF Confirm, Asking
<1>2. /\ command' = command /\ terminal' = terminal /\ script' = script
      /\ Asks' = Asks /\ Skip' = Skip
  BY <1>1, SameGiven
<1>3. (Answered' <=> Answered) /\ ((Single(script))' <=> Single(script))
  BY <1>1, <1>2, SameAnswered DEF Single
<1>4. /\ TypeOK /\ Counts /\ todo \in Seq(Asked) /\ answers \in Seq(Seq(Words))
      /\ stdin \in Seq(Seq(Words)) /\ unsent \in Seq(Seq(Words))
  BY DEF PromptInv, TypeOK
<1>5. /\ Done = 0 /\ Skip = 1 /\ Len(answers) = 0 /\ Len(Asks) > 1 /\ Confirms
      /\ Len(stdin') <= Len(stdin)
      /\ stdin # <<>> => /\ Len(stdin) >= 1
                         /\ terminal => Len(stdin') = Len(stdin) - 1
                         /\ ~terminal => Len(stdin') = 0
  BY ConfirmRead
<1>14. stdin' \in Seq(Seq(Words))
  BY ConfirmRead
<1>13. \A i \in 1 .. Len(stdin') : i + 1 \in 1 .. Len(stdin) /\ stdin'[i] = stdin[i + 1]
  BY ConfirmRead
<1>6. /\ Len(stdin) \in Nat /\ Len(stdin') \in Nat /\ Len(unsent) \in Nat
      /\ Len(todo) \in Nat /\ Len(Asks) \in Nat /\ Len(script) = Len(Asks) /\ Len(todo) = Len(Asks)
  BY <1>4, <1>5, <1>14, Position
<1>7. (script \in AnswersTo(Asks))'
  BY <1>2 DEF PromptInv, AnswersTo
<1>8. (hungUp => unsent = <<>>)'
  BY <1>1 DEF PromptInv
<1>9. Single(script) => Single(stdin') /\ Single(unsent')
  <2>. SUFFICES ASSUME Single(script) PROVE Single(stdin') /\ Single(unsent')
    OBVIOUS
  <2>1. Single(stdin) /\ Single(unsent)
    BY DEF PromptInv
  <2>2. ASSUME NEW i \in 1 .. Len(stdin') PROVE Len(stdin'[i]) <= 1
    <3>1. i + 1 \in 1 .. Len(stdin) /\ stdin'[i] = stdin[i + 1]
      BY <1>13
    <3>. QED BY <2>1, <3>1 DEF Single
  <2>. QED BY <1>1, <2>1, <2>2 DEF Single
<1>10. AnswersMatch'
  BY <1>1, <1>5 DEF AnswersMatch
<1>11. CASE stdin # <<>> /\ Head(stdin) = <<Yes>>
  <2>0. /\ Len(stdin) >= 1
        /\ terminal => Len(stdin') = Len(stdin) - 1
        /\ ~terminal => Len(stdin') = 0
    <3>1. stdin # <<>>
      BY <1>11
    <3>. QED BY <1>5, <3>1
  <2>13. terminal \/ Single(script) => Len(stdin) + Len(unsent) <= Len(todo)
    BY <1>1, <1>4 DEF Counts
  <2>1. todo' = Tail(todo) /\ outcome' = IF Tail(todo) = <<>> THEN "run" ELSE "asking"
    BY <1>11 DEF Confirm, Proceed
  <2>2. Len(todo') = Len(todo) - 1
    BY <1>1, <1>4, <2>1, HeadTailProperties
  <2>12. todo' \in Seq(Asked)
    BY <1>1, <1>4, <2>1, HeadTailProperties
  <2>11. \A i \in 1 .. Len(todo') : todo'[i] = todo[i + 1]
    BY <1>1, <1>4, <2>1, HeadTailProperties
  <2>3. todo' # <<>> /\ outcome' = "asking"
    <3>1. Len(todo') # 0
      BY <1>5, <1>6, <2>2
    <3>2. todo' # <<>>
      BY <2>12, <3>1
    <3>. QED BY <2>1, <3>2
  <2>4. Done' = 1
    BY <1>2, <1>5, <1>6, <2>2 DEF Done
  <2>5. TypeOK'
    <3>1. Len(stdin') + Len(unsent') <= Len(script) /\ Len(answers') + Len(todo') <= Len(script)
      BY <1>1, <1>4, <1>5, <1>6, <2>2 DEF TypeOK
    <3>2. unsent' \in Seq(Seq(Words)) /\ answers' \in Seq(Seq(Words)) /\ hungUp' \in BOOLEAN
      BY <1>1, <1>4 DEF TypeOK
    <3>. QED BY <1>2, <1>4, <1>14, <2>12, <2>3, <3>1, <3>2 DEF TypeOK
  <2>6. terminal \/ Single(script) => Len(stdin') + Len(unsent') <= Len(todo')
    BY <1>1, <1>6, <2>0, <2>2, <2>13
  <2>7. \A i \in 1 .. Len(todo') : todo'[i] = Asks[1 + i]
    BY <1>4, <1>5, <1>6, <2>2, <2>11 DEF Counts
  <2>8. Counts'
    BY <1>1, <1>2, <1>3, <1>5, <2>3, <2>4, <2>6, <2>7 DEF Counts
  <2>9. ASSUME terminal \/ (Single(script) /\ Synced') PROVE Matches'
    <3>1. Matches /\ Len(stdin') = Len(stdin) - 1
      <4>1. CASE terminal
        BY <1>1, <2>0, <4>1 DEF PromptInv
      <4>2. CASE ~terminal
        <5>1. Len(stdin) + Len(unsent) <= Len(todo) /\ Len(stdin') = 0 /\ Len(unsent) >= Len(todo) - 1
          BY <1>1, <1>6, <2>0, <2>2, <2>9, <2>13, <4>2 DEF Synced
        <5>2. Len(stdin) <= 1 /\ Synced
          BY <1>6, <2>0, <5>1 DEF Synced
        <5>3. Len(stdin') = Len(stdin) - 1
          <6>1. \A m, n \in Nat : m <= 1 /\ m >= 1 /\ n = 0 => n = m - 1
            OBVIOUS
          <6>. QED BY <1>6, <2>0, <5>1, <5>2, <6>1
        <5>. QED BY <1>1, <2>9, <4>2, <5>2, <5>3 DEF PromptInv
      <4>. QED BY <4>1, <4>2
    <3>2. \A i \in 1 .. Len(stdin') : stdin'[i] = script[1 + i]
      BY <1>5, <1>6, <1>13, <3>1 DEF Matches
    <3>3. \A i \in 1 .. Len(unsent) : unsent[i] = script[1 + Len(stdin') + i]
      BY <1>5, <1>6, <3>1 DEF Matches
    <3>. QED BY <1>1, <1>2, <2>4, <3>2, <3>3 DEF Matches
  <2>10. Answered => Synced'
    <3>. SUFFICES ASSUME Answered PROVE Synced'
      OBVIOUS
    <3>1. terminal /\ Synced
      BY <1>1, <1>5 DEF PromptInv, Answered
    <3>. QED BY <1>1, <1>6, <2>0, <2>2, <3>1 DEF Synced
  <2>. QED BY <1>2, <1>3, <1>7, <1>8, <1>9, <1>10, <2>3, <2>5, <2>8, <2>9, <2>10 DEF PromptInv
<1>12. CASE ~(stdin # <<>> /\ Head(stdin) = <<Yes>>)
  <2>1. outcome' = "cancelled" /\ todo' = todo
    BY <1>12 DEF Confirm
  <2>2. Done' = Done
    BY <1>2, <2>1 DEF Done
  <2>3. TypeOK'
    <3>1. Len(stdin') + Len(unsent') <= Len(script) /\ Len(answers') + Len(todo') <= Len(script)
      BY <1>1, <1>4, <1>5, <1>6, <2>1 DEF TypeOK
    <3>2. unsent' \in Seq(Seq(Words)) /\ answers' \in Seq(Seq(Words)) /\ hungUp' \in BOOLEAN
      BY <1>1, <1>4 DEF TypeOK
    <3>. QED BY <1>2, <1>4, <1>14, <2>1, <3>1, <3>2 DEF TypeOK
  <2>4. Counts'
    BY <1>1, <1>2, <1>4, <2>1, <2>2 DEF Counts
  <2>5. ~Answered
    <3>. SUFFICES ASSUME Answered PROVE FALSE
      OBVIOUS
    <3>1. terminal /\ Synced /\ Head(script) = <<Yes>>
      BY <1>1, <1>5 DEF PromptInv, Answered, Agreeing
    <3>2. stdin # <<>>
      <4>. SUFFICES ASSUME stdin = <<>> PROVE FALSE
        OBVIOUS
      <4>1. Len(stdin) = 0 /\ Len(unsent) = 0
        BY <1>1 DEF EndOfFile
      <4>. QED BY <1>5, <1>6, <3>1, <4>1 DEF Synced
    <3>3. stdin[1] = script[1]
      BY <1>1, <1>5, <1>6, <3>1, <3>2 DEF PromptInv, Matches
    <3>4. Head(script) = script[1] /\ Head(stdin) = stdin[1]
      BY <1>4, <1>5, <1>6, <3>2 DEF TypeOK
    <3>. QED BY <1>12, <3>1, <3>2, <3>3, <3>4
  <2>. QED BY <1>2, <1>3, <1>7, <1>8, <1>9, <2>1, <2>3, <2>4, <2>5 DEF PromptInv
<1>. QED BY <1>11, <1>12

-----------------------------------------------------------------------------
(* A password.                                                             *)

(* What a read takes from the lines: a line at least, unless blanks leave  *)
(* a rest; and if it takes one, the first, and gives it.                   *)
Takes(password) ==
  /\ stdin' \in Seq(Seq(Words)) /\ Len(stdin') <= Len(stdin)
  /\ Single(script) => Single(stdin')
  /\ terminal \/ Single(script) => Len(stdin') + 1 <= Len(stdin)
  /\ (terminal \/ Single(script)) /\ Len(stdin) <= Len(stdin') + 1 =>
       /\ password = stdin[1]
       /\ \A i \in 1 .. Len(stdin') : stdin'[i] = stdin[i + 1]
  /\ terminal \/ Answered => Len(stdin) <= Len(stdin') + 1

(* Somebody who agrees with himself has given the same password before.    *)
LEMMA AgainSame ==
  ASSUME PromptInv, outcome = "asking", Head(todo) = "again", Agreeing, AnswersMatch
  PROVE  answers[Len(answers)] = script[Done + 1]
<1>1. TypeOK /\ script \in AnswersTo(Asks) /\ Counts
  BY DEF PromptInv
<1>2. /\ Asks[Done + 1] = "again" /\ Done + 1 \in 1 .. Len(Asks)
      /\ Done \in Nat /\ Len(script) = Len(Asks) /\ Skip \in {0, 1} /\ (Confirms <=> Skip = 1)
  BY Position
<1>3. Done >= 1 /\ Asks[Done] = "ask"
  BY <1>1, <1>2, ScriptIs
<1>4. Done - Skip >= 1
  BY <1>1, <1>2, <1>3, ScriptIs, SMTT(30)
<1>5. Len(answers) = Done - Skip
  BY <1>1, <1>3 DEF Counts
<1>6. answers[Len(answers)] = script[Done]
  <2>1. Len(answers) \in 1 .. Len(answers) /\ Skip + Len(answers) = Done
    BY <1>2, <1>4, <1>5
  <2>. QED BY <2>1 DEF AnswersMatch
<1>7. script[Done + 1] = script[Done]
  <2>1. /\ Done - Skip \in 1 .. (Len(script) - Skip) /\ Done - Skip + 1 \in 1 .. (Len(script) - Skip)
        /\ Skip + (Done - Skip) = Done /\ Skip + (Done - Skip + 1) = Done + 1
        /\ Done - Skip + 1 > 1 /\ (Done - Skip + 1) - 1 = Done - Skip
    BY <1>2, <1>4
  <2>2. Given[Done - Skip] = script[Done] /\ Given[Done - Skip + 1] = script[Done + 1]
    BY <1>1, <2>1, GivenIs
  <2>3. Done - Skip + 1 \in DOMAIN Given
    BY <1>1, <2>1, GivenIs
  <2>4. Given[Done - Skip + 1] = Given[Done - Skip]
    BY <2>1, <2>3 DEF Agreeing
  <2>. QED BY <2>2, <2>4
<1>. QED BY <1>6, <1>7

LEMMA AcceptStep ==
  ASSUME PromptInv, NEW password \in Seq(Words), Accept(password), Takes(password),
         Asking("ask") \/ Asking("again"), UNCHANGED <<given, unsent, hungUp>>
  PROVE  PromptInv'
<1>1. outcome = "asking" /\ todo # <<>> /\ Head(todo) \in {"ask", "again"}
  BY DEF Asking
<1>2. /\ command' = command /\ terminal' = terminal /\ script' = script
      /\ Asks' = Asks /\ Skip' = Skip /\ unsent' = unsent /\ hungUp' = hungUp
  BY SameGiven
<1>3. (Answered' <=> Answered) /\ ((Single(script))' <=> Single(script))
  BY <1>2, SameAnswered DEF Single
<1>4. /\ TypeOK /\ Counts /\ script \in AnswersTo(Asks)
      /\ todo \in Seq(Asked) /\ answers \in Seq(Seq(Words))
      /\ stdin \in Seq(Seq(Words)) /\ unsent \in Seq(Seq(Words))
  BY DEF PromptInv, TypeOK
<1>5. /\ todo' = Tail(todo) /\ answers' = Append(answers, password)
      /\ outcome' \in {"mismatch", "run", "asking"}
      /\ outcome' = "run" => Tail(todo) = <<>>
      /\ outcome' = "asking" => Tail(todo) # <<>>
      /\ outcome' = "mismatch" => Head(todo) = "again" /\ password # answers[Len(answers)]
  BY DEF Accept, Proceed
<1>6. todo' \in Seq(Asked)
  BY <1>1, <1>4, <1>5, HeadTailProperties
<1>7. Len(todo') = Len(todo) - 1
  BY <1>1, <1>4, <1>5, HeadTailProperties
<1>8. \A i \in 1 .. Len(todo') : todo'[i] = todo[i + 1]
  BY <1>1, <1>4, <1>5, HeadTailProperties
<1>9. answers' \in Seq(Seq(Words))
  BY <1>4, <1>5
<1>10. /\ Len(answers') = Len(answers) + 1
       /\ \A i \in 1 .. Len(answers) : answers'[i] = answers[i]
       /\ answers'[Len(answers) + 1] = password
  BY <1>4, <1>5, AppendProperties
<1>11. stdin' \in Seq(Seq(Words))
  BY DEF Takes
<1>12. /\ Len(stdin) \in Nat /\ Len(stdin') \in Nat /\ Len(unsent) \in Nat /\ Len(todo) \in Nat
       /\ Len(todo) >= 1 /\ Len(todo') \in Nat /\ Len(answers) \in Nat
       /\ Done \in Nat /\ Skip \in {0, 1} /\ Done + Len(todo) = Len(Asks) /\ Len(script) = Len(Asks)
       /\ Len(Asks) \in Nat
  BY <1>1, <1>4, <1>6, <1>11, Position, ScriptIs, SMTT(30)
<1>13. Done' = Done + 1
  BY <1>2, <1>7, <1>12 DEF Done
<1>14. Len(answers) = Done - Skip
  <2>1. CASE Done # 0
    BY <1>4, <2>1 DEF Counts
  <2>2. CASE Done = 0
    <3>1. Asks[1] \in {"ask", "again"}
      BY <1>1, <2>2, Position
    <3>2. Skip = 0
      BY <1>4, <3>1, ScriptIs DEF Skip
    <3>. QED BY <1>4, <2>2, <3>2 DEF Counts
  <2>. QED BY <2>1, <2>2
<1>15. TypeOK'
  <2>1. Len(stdin') <= Len(stdin) /\ Len(stdin) + Len(unsent) <= Len(script)
    BY <1>4 DEF TypeOK, Takes
  <2>2. Len(answers) + Len(todo) <= Len(script)
    BY <1>4 DEF TypeOK
  <2>3. Len(stdin') + Len(unsent') <= Len(script) /\ Len(answers') + Len(todo') <= Len(script)
    BY <1>2, <1>7, <1>10, <1>12, <2>1, <2>2
  <2>4. unsent' \in Seq(Seq(Words)) /\ hungUp' \in BOOLEAN
    BY <1>2, <1>4 DEF TypeOK
  <2>. QED BY <1>2, <1>4, <1>5, <1>6, <1>9, <1>11, <2>3, <2>4 DEF TypeOK
<1>16. (script \in AnswersTo(Asks))'
  BY <1>2 DEF PromptInv, AnswersTo
<1>17. (hungUp => unsent = <<>>)'
  BY <1>2 DEF PromptInv
<1>18. Single(script) => Single(stdin') /\ Single(unsent')
  BY <1>2 DEF PromptInv, Takes
<1>19. outcome = "asking" /\ (terminal \/ Single(script)) =>
         /\ Len(stdin) + Len(unsent) <= Len(todo)
         /\ Len(stdin') + 1 <= Len(stdin)
  BY <1>4 DEF Counts, Takes
<1>20. Counts'
  <2>1. \A i \in 1 .. Len(todo') : todo'[i] = Asks[Done + 1 + i]
    <3>. SUFFICES ASSUME NEW i \in 1 .. Len(todo') PROVE todo'[i] = Asks[Done + 1 + i]
      OBVIOUS
    <3>1. i + 1 \in 1 .. Len(todo) /\ todo'[i] = todo[i + 1]
      BY <1>7, <1>8, <1>12, SMTT(30)
    <3>2. todo[i + 1] = Asks[Done + (i + 1)] /\ Done + (i + 1) = Done + 1 + i
      BY <1>4, <1>12, <3>1 DEF Counts
    <3>. QED BY <3>1, <3>2
  <2>2. Len(answers') = Done' - Skip' /\ Done' # 0
    BY <1>2, <1>10, <1>12, <1>13, <1>14
  <2>3. terminal \/ Single(script) => Len(stdin') + Len(unsent') <= Len(todo')
    BY <1>1, <1>2, <1>7, <1>12, <1>19
  <2>. QED BY <1>2, <1>3, <1>5, <1>13, <2>1, <2>2, <2>3 DEF Counts
(* The lines were as they should be if they still are, or were the last.   *)
<1>21. ASSUME terminal \/ (Single(script) /\ (Synced' \/ todo' = <<>>))
       PROVE  /\ Matches /\ AnswersMatch
              /\ Len(stdin) <= Len(stdin') + 1 /\ Len(stdin) = Len(stdin') + 1
  <2>1. CASE terminal
    <3>1. Matches /\ AnswersMatch
      BY <1>1, <2>1 DEF PromptInv
    <3>2. Len(stdin) <= Len(stdin') + 1 /\ Len(stdin') + 1 <= Len(stdin)
      BY <2>1 DEF Takes
    <3>. QED BY <1>12, <3>1, <3>2
  <2>2. CASE ~terminal
    <3>1. /\ Len(stdin) + Len(unsent) <= Len(todo)
          /\ Len(stdin') + 1 <= Len(stdin)
      BY <1>1, <1>19, <1>21, <2>2
    <3>2. Len(stdin') + Len(unsent) >= Len(todo) - 1
      <4>1. CASE Synced'
        BY <1>2, <1>7, <1>12, <4>1 DEF Synced
      <4>2. CASE todo' = <<>>
        <5>1. Len(todo') <= 0
          BY <4>2
        <5>. QED BY <1>7, <1>12, <5>1
      <4>. QED BY <1>21, <2>2, <4>1, <4>2
    <3>3. Synced /\ Len(stdin) <= Len(stdin') + 1
      BY <1>12, <3>1, <3>2 DEF Synced
    <3>4. Matches /\ AnswersMatch
      BY <1>1, <1>21, <2>2, <3>3 DEF PromptInv
    <3>. QED BY <1>12, <3>1, <3>3, <3>4
  <2>. QED BY <2>1, <2>2
<1>22. ASSUME terminal \/ (Single(script) /\ (Synced' \/ todo' = <<>>))
       PROVE  /\ password = script[Done + 1] /\ AnswersMatch'
              /\ Matches'
  <2>1. /\ password = stdin[1]
        /\ \A i \in 1 .. Len(stdin') : stdin'[i] = stdin[i + 1]
    BY <1>21, <1>22 DEF Takes
  <2>2. password = script[Done + 1]
    <3>1. 1 \in 1 .. Len(stdin)
      BY <1>12, <1>21, <1>22
    <3>. QED BY <1>21, <1>22, <2>1, <3>1 DEF Matches
  <2>3. ASSUME NEW i \in 1 .. Len(answers') PROVE answers'[i] = script[Skip + i]
    <3>1. CASE i \in 1 .. Len(answers)
      BY <1>10, <1>21, <1>22, <3>1 DEF AnswersMatch
    <3>2. CASE i = Len(answers) + 1
      <4>1. Skip + i = Done + 1
        BY <1>12, <1>14, <3>2
      <4>. QED BY <1>10, <2>2, <3>2, <4>1
    <3>. QED BY <1>10, <1>12, <2>3, <3>1, <3>2
  <2>4. ASSUME NEW i \in 1 .. Len(stdin') PROVE stdin'[i] = script[Done + 1 + i]
    <3>1. i + 1 \in 1 .. Len(stdin) /\ Done + (i + 1) = Done + 1 + i
      BY <1>12, <1>21, <1>22, <2>4
    <3>. QED BY <1>21, <1>22, <2>1, <3>1 DEF Matches
  <2>5. ASSUME NEW i \in 1 .. Len(unsent) PROVE unsent[i] = script[Done + 1 + Len(stdin') + i]
    <3>1. Done + Len(stdin) + i = Done + 1 + Len(stdin') + i
      BY <1>12, <1>21, <1>22, <2>5, SMTT(30)
    <3>. QED BY <1>21, <1>22, <3>1 DEF Matches
  <2>6. AnswersMatch'
    BY <1>2, <2>3 DEF AnswersMatch
  <2>7. Matches'
    BY <1>2, <1>13, <2>4, <2>5 DEF Matches
  <2>. QED BY <2>2, <2>6, <2>7
<1>23. outcome' = "run" => todo' = <<>>
  BY <1>5
<1>24. ASSUME Answered
       PROVE  outcome' \in {"asking", "run"} /\ Synced'
  <2>1. Synced /\ Len(stdin) <= Len(stdin') + 1 /\ (terminal \/ Single(script))
    <3>1. Synced /\ Len(stdin) <= Len(stdin') + 1
      BY <1>1, <1>24 DEF PromptInv, Takes
    <3>2. CASE terminal
      BY <3>1, <3>2
    <3>3. CASE ~terminal
      <4>1. \A i \in DOMAIN Given : Len(Given[i]) <= 1
        <5>1. \A i \in DOMAIN Given : Len(Given[i]) = 1
          BY <1>24, <3>3 DEF Answered
        <5>2. \A m : m = 1 => m <= 1
          OBVIOUS
        <5>. QED BY <5>1, <5>2, Zenon
      <4>2. Single(script)
        BY <1>4, <4>1, GivenSingle
      <4>. QED BY <3>1, <4>2
    <3>. QED BY <3>2, <3>3
  <2>2. Synced'
    <3>1. Len(stdin') + 1 <= Len(stdin)
      BY <1>1, <1>19, <2>1
    <3>. QED BY <1>2, <1>7, <1>12, <2>1, <3>1 DEF Synced
  <2>3. Matches /\ AnswersMatch /\ password = script[Done + 1]
    BY <1>21, <1>22, <2>1, <2>2
  <2>4. outcome' # "mismatch"
    <3>. SUFFICES ASSUME outcome' = "mismatch" PROVE FALSE
      OBVIOUS
    <3>1. Head(todo) = "again" /\ password # answers[Len(answers)]
      BY <1>5
    <3>2. Agreeing
      BY <1>24 DEF Answered
    <3>3. answers[Len(answers)] = script[Done + 1]
      BY <1>1, <2>3, <3>1, <3>2, AgainSame
    <3>. QED BY <2>3, <3>1, <3>3
  <2>. QED BY <1>5, <2>2, <2>4
<1>. QED BY <1>2, <1>3, <1>15, <1>16, <1>17, <1>18, <1>20, <1>22, <1>23, <1>24 DEF PromptInv

LEMMA ReadLineTakes ==
  ASSUME PromptInv, outcome = "asking", terminal, ReadLine
  PROVE  Head(stdin) \in Seq(Words) /\ Takes(Head(stdin))
<1>1. stdin \in Seq(Seq(Words)) /\ stdin # <<>> /\ stdin' = Tail(stdin)
  BY DEF PromptInv, TypeOK, ReadLine
<1>2. Len(stdin) \in Nat /\ Len(stdin) >= 1 /\ Head(stdin) = stdin[1] /\ Head(stdin) \in Seq(Words)
  BY <1>1
<1>3. stdin' \in Seq(Seq(Words)) /\ Len(stdin') = Len(stdin) - 1
  BY <1>1, HeadTailProperties
<1>4. \A i \in 1 .. Len(stdin') : stdin'[i] = stdin[i + 1]
  BY <1>1, HeadTailProperties
<1>5. Len(stdin') \in Nat /\ Len(stdin') <= Len(stdin) /\ Len(stdin') + 1 <= Len(stdin)
      /\ Len(stdin) <= Len(stdin') + 1
  BY <1>2, <1>3
<1>6. Single(script) => Single(stdin')
  <2>. SUFFICES ASSUME Single(script), NEW i \in 1 .. Len(stdin') PROVE Len(stdin'[i]) <= 1
    BY DEF Single
  <2>1. i + 1 \in 1 .. Len(stdin) /\ stdin'[i] = stdin[i + 1]
    BY <1>2, <1>4, <1>5
  <2>. QED BY <2>1 DEF PromptInv, Single
<1>. QED BY <1>2, <1>3, <1>4, <1>5, <1>6 DEF Takes

LEMMA ScanTakes ==
  ASSUME PromptInv, outcome = "asking", ~terminal, NEW i \in DOMAIN stdin,
         stdin[i] # <<>>, \A k \in 1 .. (i - 1) : stdin[k] = <<>>,
         stdin' = Rest(stdin[i]) \o SubSeq(stdin, i + 1, Len(stdin))
  PROVE  <<Head(stdin[i])>> \in Seq(Words) /\ Takes(<<Head(stdin[i])>>)
<1>. DEFINE line == stdin[i]
            after == SubSeq(stdin, i + 1, Len(stdin))
<1>0. stdin \in Seq(Seq(Words))
  BY DEF PromptInv, TypeOK
<1>1. stdin \in Seq(Seq(Words)) /\ Len(stdin) \in Nat /\ i \in 1 .. Len(stdin)
  BY <1>0
<1>2. line \in Seq(Words) /\ Len(line) \in Nat \ {0} /\ Head(line) \in Words
  BY <1>1
<1>3. <<Head(line)>> \in Seq(Words)
  BY <1>2
<1>4. Rest(line) \in Seq(Seq(Words)) /\ Len(Rest(line)) \in Nat /\ Len(Rest(line)) <= 1
  <2>1. CASE Len(line) = 1
    BY <2>1 DEF Rest
  <2>2. CASE Len(line) # 1
    <3>1. Tail(line) \in Seq(Words)
      BY <1>2
    <3>2. Rest(line) = <<Tail(line)>>
      BY <2>2 DEF Rest
    <3>. QED BY <3>1, <3>2
  <2>. QED BY <2>1, <2>2
<1>5. /\ after \in Seq(Seq(Words)) /\ Len(after) = Len(stdin) - i
      /\ \A k \in 1 .. (Len(stdin) - i) : after[k] = stdin[i + k]
  <2>1. i \in 0 .. Len(stdin)
    BY <1>1
  <2>. QED BY <1>1, <2>1, Dropped
<1>6. stdin' = Rest(line) \o after
  OBVIOUS
<1>. HIDE DEF line, after
<1>12. \A k \in 1 .. (Len(stdin) - i) : after[k] = stdin[i + k]
  BY <1>5
<1>7. stdin' \in Seq(Seq(Words)) /\ Len(stdin') = Len(Rest(line)) + Len(after)
  BY <1>4, <1>5, <1>6, ConcatProperties, ZenonT(40)
<1>13. Len(after) = Len(stdin) - i
  BY <1>5
<1>8. Len(stdin') \in Nat /\ Len(stdin') <= Len(stdin)
  <2>1. Len(stdin') = Len(Rest(line)) + (Len(stdin) - i)
    BY <1>7, <1>13
  <2>2. Len(stdin) \in Nat /\ i \in 1 .. Len(stdin) /\ Len(Rest(line)) \in Nat /\ Len(Rest(line)) <= 1
    BY <1>1, <1>4
  <2>. QED BY <2>1, <2>2
<1>9. ASSUME Single(script)
      PROVE  /\ stdin' = after /\ Len(line) = 1
             /\ Len(stdin') + 1 <= Len(stdin)
             /\ Len(stdin) <= Len(stdin') + 1 => i = 1
             /\ Single(stdin')
  <2>1. Single(stdin)
    BY <1>9 DEF PromptInv
  <2>2. Len(line) = 1
    <3>1. Len(line) <= 1 /\ Len(line) >= 1
      BY <1>1, <1>2, <2>1 DEF Single, line
    <3>2. Len(line) \in Nat /\ \A m \in Nat : m <= 1 /\ m >= 1 => m = 1
      BY <1>2
    <3>. QED BY <3>1, <3>2, Zenon
  <2>3. stdin' = after
    <3>1. Rest(line) = <<>>
      BY <2>2 DEF Rest
    <3>. QED BY <1>5, <1>6, <3>1, ConcatEmptySeq
  <2>4. Len(stdin') = Len(stdin) - i
    BY <1>13, <2>3
  <2>5. Single(stdin')
    <3>. SUFFICES ASSUME NEW k \in 1 .. Len(stdin') PROVE Len(stdin'[k]) <= 1
      BY DEF Single
    <3>1. k \in 1 .. (Len(stdin) - i) /\ i + k \in 1 .. Len(stdin)
      <4>1. Len(stdin) \in Nat /\ i \in 1 .. Len(stdin)
        BY <1>1
      <4>. QED BY <2>4, <4>1, SMTT(30)
    <3>2. stdin'[k] = stdin[i + k]
      BY <1>12, <2>3, <3>1
    <3>. QED BY <2>1, <3>1, <3>2 DEF Single
  <2>6. Len(stdin') + 1 <= Len(stdin) /\ (Len(stdin) <= Len(stdin') + 1 => i = 1)
    <3>1. Len(stdin) \in Nat /\ i \in 1 .. Len(stdin)
      BY <1>1
    <3>. QED BY <2>4, <3>1
  <2>. QED BY <2>2, <2>3, <2>5, <2>6
<1>10. ASSUME Single(script), Len(stdin) <= Len(stdin') + 1
       PROVE  /\ <<Head(line)>> = stdin[1]
              /\ \A k \in 1 .. Len(stdin') : stdin'[k] = stdin[k + 1]
  <2>1. i = 1 /\ stdin' = after /\ Len(line) = 1
    BY <1>9, <1>10
  <2>2. <<Head(line)>> = line
    BY <1>2, <2>1
  <2>3. \A k \in 1 .. Len(stdin') : stdin'[k] = stdin[k + 1]
    BY <1>1, <1>13, <1>12, <2>1, SMTT(30)
  <2>. QED BY <2>1, <2>2, <2>3 DEF line
<1>11. ASSUME Answered
       PROVE  Len(stdin) <= Len(stdin') + 1
  <2>1. ~Confirms /\ \A k \in DOMAIN Given : Len(Given[k]) = 1
    BY <1>11 DEF Answered
  <2>2. Given = script
    BY <2>1 DEF Given
  <2>3. TypeOK /\ script \in AnswersTo(Asks) /\ Synced
    BY <1>11 DEF PromptInv
  <2>4. \A k \in DOMAIN Given : Len(Given[k]) <= 1
    <3>1. \A m : m = 1 => m <= 1
      OBVIOUS
    <3>. QED BY <2>1, <3>1, Zenon
  <2>5. Single(script)
    BY <2>3, <2>4, GivenSingle
  <2>6. i = 1
    <3>. SUFFICES ASSUME i # 1 PROVE FALSE
      OBVIOUS
    <3>1. stdin[1] = <<>> /\ 1 \in 1 .. Len(stdin)
      BY <1>1
    <3>2. stdin[1] = script[Done + 1]
      BY <2>3, <2>5, <3>1 DEF PromptInv, Matches
    <3>3. Done + 1 \in DOMAIN script
      BY <2>3, Position, ScriptIs
    <3>4. Len(<<>>) = 1
      BY <2>1, <2>2, <3>1, <3>2, <3>3
    <3>. QED BY <3>4
  <2>. QED BY <1>1, <1>5, <1>9, <2>5, <2>6
<1>. QED BY <1>3, <1>7, <1>8, <1>9, <1>10, <1>11 DEF Takes, line

LEMMA ReadPasswordStep ==
  ASSUME PromptInv, ReadPassword
  PROVE  PromptInv'
<1>1. /\ Asking("ask") \/ Asking("again")
      /\ UNCHANGED <<given, unsent, hungUp>> /\ outcome = "asking"
  BY DEF ReadPassword, Asking
<1>2. terminal \in BOOLEAN
  BY DEF PromptInv, TypeOK
<1>3. CASE terminal
  <2>1. ReadLine
    BY <1>3 DEF ReadPassword
  <2>2. Head(stdin) \in Seq(Words) /\ Takes(Head(stdin))
    BY <1>1, <1>3, <2>1, ReadLineTakes
  <2>3. Accept(Head(stdin))
    BY <2>1 DEF ReadLine
  <2>. QED BY <1>1, <2>2, <2>3, AcceptStep
<1>4. CASE ~terminal
  <2>1. PICK i \in DOMAIN stdin :
          /\ stdin[i] # <<>>
          /\ \A k \in 1 .. (i - 1) : stdin[k] = <<>>
          /\ stdin' = Rest(stdin[i]) \o SubSeq(stdin, i + 1, Len(stdin))
          /\ Accept(<<Head(stdin[i])>>)
    BY <1>4 DEF ReadPassword, Scan
  <2>2. <<Head(stdin[i])>> \in Seq(Words) /\ Takes(<<Head(stdin[i])>>)
    BY <1>1, <1>4, <2>1, ScanTakes
  <2>. QED BY <1>1, <2>1, <2>2, AcceptStep
<1>. QED BY <1>2, <1>3, <1>4

LEMMA ReadFailsStep ==
  ASSUME PromptInv, ReadFails
  PROVE  PromptInv'
<1>1. /\ NothingLeft /\ outcome = "asking" /\ outcome' = "error"
      /\ UNCHANGED given /\ unsent' = unsent /\ stdin' = stdin /\ todo' = todo
      /\ answers' = answers /\ hungUp' = hungUp
  BY DEF ReadFails, Asking
<1>2. /\ command' = command /\ terminal' = terminal /\ script' = script
      /\ Asks' = Asks /\ Skip' = Skip
  BY <1>1, SameGiven
<1>3. (Answered' <=> Answered) /\ ((Single(script))' <=> Single(script))
  BY <1>1, <1>2, SameAnswered DEF Single
<1>4. TypeOK /\ Counts /\ script \in AnswersTo(Asks)
  BY DEF PromptInv
<1>5. TypeOK'
  BY <1>1, <1>2, <1>4 DEF TypeOK
<1>6. Done' = Done
  BY <1>1, <1>2 DEF Done
<1>7. Counts'
  BY <1>1, <1>2, <1>4, <1>6 DEF Counts
<1>8. (script \in AnswersTo(Asks))'
  BY <1>2, <1>4 DEF AnswersTo
<1>9. Single(script) => Single(stdin') /\ Single(unsent')
  BY <1>1 DEF PromptInv
<1>10. ~Answered
  <2>. SUFFICES ASSUME Answered PROVE FALSE
    OBVIOUS
  <2>1. Synced /\ Len(unsent) <= 0
    BY <1>1 DEF PromptInv, NothingLeft
  <2>2. 1 \in 1 .. Len(stdin)
    <3>1. Len(stdin) \in Nat /\ Len(unsent) \in Nat /\ Len(todo) \in Nat /\ Len(todo) >= 1
      BY <1>1, Position
    <3>. QED BY <2>1, <3>1 DEF Synced
  <2>3. 1 \in DOMAIN stdin
    BY <1>4, <2>2 DEF TypeOK
  <2>4. ~terminal /\ stdin[1] = <<>>
    BY <1>1, <2>3 DEF NothingLeft
  <2>5. ~Confirms /\ \A k \in DOMAIN Given : Len(Given[k]) = 1
    BY <2>4 DEF Answered
  <2>6. Given = script
    BY <2>5 DEF Given
  <2>7. Single(script)
    <3>1. \A m : m = 1 => m <= 1
      OBVIOUS
    <3>2. \A k \in DOMAIN Given : Len(Given[k]) <= 1
      BY <2>5, <3>1, Zenon
    <3>. QED BY <1>4, <3>2, GivenSingle
  <2>8. stdin[1] = script[Done + 1]
    BY <1>1, <2>1, <2>2, <2>7 DEF PromptInv, Matches
  <2>9. Done + 1 \in DOMAIN script
    BY <1>1, <1>4, Position, ScriptIs
  <2>10. Len(<<>>) = 1
    BY <2>4, <2>5, <2>6, <2>8, <2>9
  <2>. QED BY <2>10
<1>. QED BY <1>1, <1>2, <1>3, <1>5, <1>7, <1>8, <1>9, <1>10 DEF PromptInv

-----------------------------------------------------------------------------
(* Every step, and what follows.                                           *)

LEMMA PromptStep == PromptInv /\ [Next]_vars => PromptInv'
<1>. SUFFICES ASSUME PromptInv, [Next]_vars PROVE PromptInv'
  OBVIOUS
<1>1. CASE Write
  BY <1>1, WriteStep
<1>2. CASE HangUp
  BY <1>2, HangUpStep
<1>3. CASE Confirm
  BY <1>3, ConfirmStep
<1>4. CASE ReadPassword
  BY <1>4, ReadPasswordStep
<1>5. CASE ReadFails
  BY <1>5, ReadFailsStep
<1>6. CASE UNCHANGED vars
  <2>1. /\ UNCHANGED given /\ unsent' = unsent /\ stdin' = stdin /\ todo' = todo
        /\ answers' = answers /\ outcome' = outcome /\ hungUp' = hungUp
    BY <1>6 DEF vars
  <2>2. /\ command' = command /\ terminal' = terminal /\ script' = script
        /\ Asks' = Asks /\ Skip' = Skip
    BY <2>1, SameGiven
  <2>3. (Answered' <=> Answered) /\ ((Single(script))' <=> Single(script))
    BY <2>1, <2>2, SameAnswered DEF Single
  <2>4. TypeOK'
    BY <2>1, <2>2 DEF PromptInv, TypeOK
  <2>5. (script \in AnswersTo(Asks))'
    BY <2>2 DEF PromptInv, AnswersTo
  <2>6. Done' = Done
    BY <2>1, <2>2 DEF Done
  <2>7. Counts'
    BY <2>1, <2>2, <2>3, <2>6 DEF PromptInv, Counts
  <2>8. (Matches' <=> Matches) /\ (AnswersMatch' <=> AnswersMatch) /\ (Synced' <=> Synced)
    BY <2>1, <2>2, <2>6 DEF Matches, AnswersMatch, Synced
  <2>9. (Single(stdin))' <=> Single(stdin)
    BY <2>1 DEF Single
  <2>10. (Single(unsent))' <=> Single(unsent)
    BY <2>1 DEF Single
  <2>. QED BY <2>1, <2>2, <2>3, <2>4, <2>5, <2>7, <2>8, <2>9, <2>10 DEF PromptInv
<1>. QED BY <1>1, <1>2, <1>3, <1>4, <1>5, <1>6 DEF Next, Answer

LEMMA PromptInvariant == Spec => []PromptInv
<1>. QED BY InitPrompt, PromptStep, PTL DEF Spec

(* Every line is in the queue or unwritten, never more of them than the    *)
(* script has, and never more passwords read than questions asked.         *)
THEOREM PromptTypeCorrect == Spec => []TypeOK
<1>1. PromptInv => TypeOK
  BY DEF PromptInv
<1>. QED BY <1>1, PromptInvariant, PTL

LEMMA RunsAsTyped ==
  ASSUME PromptInv
  PROVE  PasswordsAsTyped
<1>. SUFFICES ASSUME outcome = "run", terminal \/ \A i \in DOMAIN Given : Len(Given[i]) <= 1
              PROVE  answers = Given
  BY DEF PasswordsAsTyped
<1>1. TypeOK /\ script \in AnswersTo(Asks) /\ Counts
  BY DEF PromptInv
<1>2. AnswersMatch
  <2>1. CASE terminal
    BY <2>1 DEF PromptInv
  <2>2. CASE ~terminal
    BY <1>1, <2>2, GivenSingle DEF PromptInv
  <2>. QED BY <2>1, <2>2
<1>3. Len(answers) = Len(script) - Skip
  <2>1. Len(todo) <= 0
    BY <1>1 DEF Counts
  <2>2. Done = Len(script) /\ Done # 0
    BY <1>1, <2>1, Position, ScriptIs
  <2>. QED BY <1>1, <2>2 DEF Counts
<1>4. answers \in Seq(Seq(Words)) /\ Given \in Seq(Seq(Words)) /\ Len(Given) = Len(script) - Skip
  BY <1>1, GivenIs DEF TypeOK
<1>5. \A i \in 1 .. Len(answers) : answers[i] = Given[i]
  BY <1>1, <1>2, <1>3, GivenIs DEF AnswersMatch
<1>. QED BY <1>3, <1>4, <1>5, SeqEqual

(* A command that runs got the passwords that were typed for it, each at   *)
(* its place, whatever it asks and however fast the lines come: no line is *)
(* lost to the confirmation's reader and taken for a later one.            *)
THEOREM PasswordsReachCommand == Spec => []PasswordsAsTyped
BY PromptInvariant, RunsAsTyped, PTL

(* Who answers every question and agrees with himself is not turned away:  *)
(* on a terminal for every command, through a pipe for those without a     *)
(* confirmation.                                                           *)
THEOREM AnsweredAlwaysRuns == Spec => []AnsweredRuns
<1>1. PromptInv => AnsweredRuns
  BY DEF PromptInv, Answered, AnsweredRuns
<1>. QED BY <1>1, PromptInvariant, PTL

=============================================================================
