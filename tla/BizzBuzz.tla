------------------------------- MODULE BizzBuzz -------------------------------
(***************************************************************************)
(* C_3_sem/BIZZBUZZ_09/file.c: copies a text, and writes bizz for numbers  *)
(* that 3 divides, buzz for those that 5 divides and bizzbuzz for both.    *)
(*                                                                         *)
(* The text is a file mapped into memory.  Behind its end there are zeros  *)
(* up to the end of the page.  Behind a file that fills its pages there is *)
(* whatever the process has there: nothing, or foreign memory that the     *)
(* program reads as if it belonged to the text.                            *)
(***************************************************************************)
EXTENDS Integers, SequencesExt

CONSTANTS
  Texts,    \* the files
  Behind    \* what may be mapped behind a full last page, up to the first hole

Blanks == {" ", "nl", "tab"}
Digits == {"0", "1", "2", "3", "4", "5", "6", "7", "8", "9"}
Symbols == Blanks \cup Digits \cup {"-", "a", "zero", "EOF"}

ASSUME BizzAssumption == Texts \subseteq Seq(Symbols) /\ Behind \subseteq Seq(Symbols)

VARIABLES
  file,     \* the file
  text,     \* what the program reads: the file, and what is mapped behind it
  full,     \* whether it fills its pages
  pc,       \* "start", "loop", "done" or "fault"
  str,      \* the place in the text
  out       \* what was written

bizzVars == <<file, text, full, pc, str, out>>

\* An empty file is not mapped at all: the address is no address.
BizzInit ==
  /\ file \in Texts
  /\ \/ full = FALSE /\ file # <<>> /\ text = file
     \/ full = TRUE /\ file = <<>> /\ text = file
     \/ full = TRUE /\ file # <<>> /\ \E b \in Behind : text = file \o b
  /\ pc = "start" /\ str = 1 /\ out = <<>>

At(i) == IF i <= Len(text) THEN text[i] ELSE "zero"

Ends(c) == c \in {"zero", "EOF"}

\* The first place from i on where the character is not one of Run.
After(i, Run) ==
  CHOOSE j \in i .. Len(text) + 1 :
    At(j) \notin Run /\ \A k \in i .. j - 1 : At(k) \in Run

\* Reading where nothing is mapped is fatal.
Readable(i) == i <= Len(text) \/ ~full

Fault(written) == pc' = "fault" /\ out' = out \o written /\ UNCHANGED <<file, text, full, str>>

-----------------------------------------------------------------------------
\* miss_symbol, which copies blanks; the loop goes on if there is something left.
MissSymbol(i, written) ==
  LET j == After(i, Blanks)
      all == written \o SubSeq(text, i, j - 1)
  IN IF Readable(j)
       THEN /\ pc' = IF Ends(At(j)) THEN "done" ELSE "loop"
            /\ str' = j /\ out' = out \o all
            /\ UNCHANGED <<file, text, full>>
       ELSE Fault(all)

\* Where the digits of read_num begin and where they end.
DigitsFrom == IF At(str) = "-" THEN str + 1 ELSE str
DigitsTo == After(DigitsFrom, Digits)

DigitValue == [d \in Digits |->
  CHOOSE v \in 0 .. 9 : d = <<"0", "1", "2", "3", "4", "5", "6", "7", "8", "9">>[v + 1]]

\* del3 adds the digits, del5 knows the last one.
del3 == FoldLeft(LAMBDA sum, d : (sum + DigitValue[d]) % 3, 0, SubSeq(text, DigitsFrom, DigitsTo - 1))
del5 == IF DigitsTo > DigitsFrom THEN DigitValue[text[DigitsTo - 1]] % 5 ELSE 0

\* Fault: del5 adds the digits.
CompareSums ==
  LET sum == FoldLeft(LAMBDA s, d : (s + DigitValue[d]) % 5, 0, SubSeq(text, DigitsFrom, DigitsTo - 1))
  IN IF del3 = 0 /\ sum = 0 THEN "bizzbuzz" ELSE IF del3 = 0 THEN "bizz"
     ELSE IF sum = 0 THEN "buzz" ELSE "nothing"

CompareDels ==
  IF del3 = 0 /\ del5 = 0 THEN "bizzbuzz" ELSE IF del3 = 0 THEN "bizz"
  ELSE IF del5 = 0 THEN "buzz" ELSE "nothing"

\* What comes behind the digits decides whether they are a number.  A minus sign at the
\* end of the text is none, one before a blank is a number without digits.
ReadNum ==
  IF At(str) = "-" /\ At(DigitsFrom) = "zero" THEN "letters"
  ELSE IF At(DigitsTo) \in {"zero", "EOF", "nl", " "} THEN CompareDels
  ELSE "letters"

Start == pc = "start" /\ MissSymbol(1, <<>>)

\* write_word copies up to a blank or the end.
Word ==
  /\ pc = "loop" /\ Readable(DigitsTo) /\ ReadNum \in {"nothing", "letters"}
  /\ LET j == After(str, Symbols \ (Blanks \cup {"zero", "EOF"}))
         word == SubSeq(text, str, j - 1)
     IN IF Readable(j) THEN MissSymbol(j, word) ELSE Fault(word)

\* write_bizz writes the final zero of its string too.
Number ==
  /\ pc = "loop" /\ Readable(DigitsTo) /\ ReadNum \notin {"nothing", "letters"}
  /\ MissSymbol(DigitsTo, <<ReadNum, "zero">>)

ReadNumFaults == pc = "loop" /\ ~Readable(DigitsTo) /\ Fault(<<>>)

BizzNext == Start \/ Word \/ Number \/ ReadNumFaults

BizzSpec == BizzInit /\ [][BizzNext]_bizzVars

-----------------------------------------------------------------------------
(* What the translation of a text should be, from the text alone. *)

\* The text ends at the first zero or EOF.
Stop == CHOOSE i \in 1 .. Len(text) + 1 : Ends(At(i)) /\ \A j \in 1 .. i - 1 : ~Ends(At(j))
IsBlank(i) == text[i] \in Blanks

\* The word from i on, and its value.
WordEnd(i) == CHOOSE j \in i .. Stop : /\ j = Stop \/ IsBlank(j)
                                       /\ \A k \in i .. j - 1 : ~IsBlank(k)
Unsigned(i) == SubSeq(text, IF text[i] = "-" THEN i + 1 ELSE i, WordEnd(i) - 1)
Value(i) == FoldLeft(LAMBDA v, d : 10 * v + DigitValue[d], 0, Unsigned(i))

\* A number has digits only, after a minus sign or not.  Two exceptions are the program's: a
\* number before a tab is none, and a minus sign alone is one unless nothing follows.
IsNumber(i) ==
  /\ \A j \in DOMAIN Unsigned(i) : Unsigned(i)[j] \in Digits
  /\ At(WordEnd(i)) # "tab"
  /\ Unsigned(i) = <<>> => At(WordEnd(i)) # "zero"

Divisors(i) ==
  IF ~IsNumber(i) THEN <<>>
  ELSE CASE Value(i) % 15 = 0 -> <<"bizzbuzz", "zero">>
         [] Value(i) % 15 # 0 /\ Value(i) % 3 = 0 -> <<"bizz", "zero">>
         [] Value(i) % 15 # 0 /\ Value(i) % 5 = 0 -> <<"buzz", "zero">>
         [] OTHER -> <<>>

WordStart(i) == CHOOSE j \in 1 .. i : /\ j = 1 \/ IsBlank(j - 1)
                                      /\ \A k \in j .. i : ~IsBlank(k)

\* What stands for the character at i.
Piece(i) ==
  IF IsBlank(i) \/ Divisors(WordStart(i)) = <<>> THEN <<text[i]>>
  ELSE IF WordStart(i) = i THEN Divisors(i) ELSE <<>>

Translation == FlattenSeq([i \in 1 .. Stop - 1 |-> Piece(i)])

\* The file ends in itself, or in the zeros of its last page.
HasEnd == ~full \/ \E i \in DOMAIN file : Ends(file[i])

\* The program writes the translation of the file up to its first zero or EOF, with the
\* divisors of the value of each number, and ends.  Only a file that fills its pages and has
\* no such end is read further, together with what is mapped behind it: the program then
\* translates that too, and faults where nothing is mapped (file.c:125-255).
Translated ==
  /\ pc = "done" => out = Translation
  /\ HasEnd => pc # "fault" /\ Stop <= Len(file) + 1
  /\ pc = "fault" => Stop = Len(text) + 1 /\ IsPrefix(out, Translation)
=============================================================================
