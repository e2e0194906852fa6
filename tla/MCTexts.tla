------------------------------- MODULE MCTexts -------------------------------
\* Crypto and BizzBuzz for TLC: one of the two programs runs.
EXTENDS Crypto, BizzBuzz

\* Every byte alone, and texts of three: with its final zero, with a '{', a '|' and a letter
\* that is no ASCII.
MCMessages ==
  {<<c>> : c \in Char} \cup
  {<<a, b, 0>> : a \in {101, 123, -48}, b \in {120, 124}}

MCSymbols == {" ", "nl", "tab", "0", "1", "2", "3", "5", "-", "a", "zero", "EOF"}
MCTextsOfFour == UNION {[1 .. k -> MCSymbols] : k \in 0 .. 4}

\* Behind a full last page: nothing, the rest of a word, a number and an end.
MCBehind == {<<>>, <<"5">>, <<" ", "3", "zero", "a">>}

Init ==
  \/ CryptoInit /\ file = <<>> /\ text = <<>> /\ full = FALSE /\ pc = "done" /\ str = 1 /\ out = <<>>
  \/ /\ BizzInit
     /\ message = <<>> /\ step = "done" /\ data = <<>> /\ wire = <<>> /\ copy = <<>>

Next ==
  \/ CryptoNext /\ UNCHANGED bizzVars
  \/ BizzNext /\ UNCHANGED cryptoVars

Spec == Init /\ [][Next]_<<cryptoVars, bizzVars>>

=============================================================================
