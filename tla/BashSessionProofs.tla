------------------------- MODULE BashSessionProofs -------------------------
(***************************************************************************)
(* Proofs about BashSession, for any outputs, any size of the buffer and   *)
(* the terminal and any number of commands.                                *)
(*                                                                         *)
(* Rest is what the slave has still to pass on: what it has read since the *)
(* command, what is in the terminal and what the shell has still to write. *)
(* It changes at its ends only: a command lengthens it, a silence takes    *)
(* off what was read.  It is in the order of the commands, and what        *)
(* clients have got comes before it.  When the shell does not pause, it is *)
(* the output of the last command and nothing else.                        *)
(***************************************************************************)
EXTENDS BashSession, SequenceTheorems, WellFoundedInduction, TLAPS

-----------------------------------------------------------------------------
(* Cut. *)

\* A set of numbers with an upper bound has a greatest one.
LEMMA Greatest ==
  ASSUME NEW n \in Nat, NEW I \in SUBSET (1..n), I # {}
  PROVE  Max(I) \in I
<1> DEFINE T == {d \in Nat : \E i \in I : d = n - i}
<1>1. T \subseteq Nat /\ T # {}
  <2>1. PICK i \in I : TRUE
    OBVIOUS
  <2>2. n - i \in T
    BY <2>1
  <2> QED
    BY <2>2
<1>2. PICK d \in T : \A e \in T : ~(<<e, d>> \in OpToRel(<, Nat))
  <2> HIDE DEF T
  <2> QED
    BY <1>1, NatLessThanWellFounded, WFMin
<1>3. \A e \in T : ~(e < d)
  BY <1>1, <1>2 DEF OpToRel
<1>4. PICK x \in I : d = n - x
  BY <1>2
<1>5. \A y \in I : x >= y
  <2> SUFFICES ASSUME NEW y \in I PROVE x >= y
    OBVIOUS
  <2>1. n - y \in T
    OBVIOUS
  <2> QED
    BY <1>3, <1>4, <2>1
<1> QED
  BY <1>5 DEF Max

\* Cut keeps the first characters of a text.
LEMMA CutType ==
  ASSUME NEW text \in Seq(Character)
  PROVE  \E n \in 0..Len(text) : Cut(text) = SubSeq(text, 1, n)
<1> DEFINE I == {i \in 1..Len(text) : IsHash(text[i])}
<1>1. SelectLastInSeq(text, IsHash) = IF I # {} THEN Max(I) ELSE 0
  BY DEF SelectLastInSeq
<1>2. I # {} => Max(I) \in I
  <2>1. I \in SUBSET (1..Len(text)) /\ Len(text) \in Nat
    OBVIOUS
  <2> HIDE DEF I
  <2> QED
    BY <2>1, Greatest
<1>3. SelectLastInSeq(text, IsHash) \in 0..Len(text)
  <2> HIDE DEF I
  <2>1. I # {} => Max(I) \in 1..Len(text)
    BY <1>2 DEF I
  <2> QED
    BY <1>1, <2>1
<1> QED
  BY <1>3 DEF Cut

-----------------------------------------------------------------------------
(* The types. *)

\* A marked output is a text.
LEMMA MarkedType ==
  ASSUME NEW k \in Nat, NEW output \in Seq({"x", "#"})
  PROVE  /\ Marked(k, output) \in Seq(Character) /\ Len(Marked(k, output)) = Len(output)
         /\ \A i \in 1..Len(output) : /\ Marked(k, output)[i].command = k
                                      /\ Marked(k, output)[i].place = i
<1>1. \A i \in 1..Len(output) : output[i] \in {"x", "#"}
  OBVIOUS
<1>2. \A i \in 1..Len(output) :
        [command |-> k, place |-> i, is |-> output[i]] \in Character
  BY <1>1 DEF Character
<1>3. DOMAIN output = 1..Len(output) /\ Len(output) \in Nat
  OBVIOUS
<1>4. Marked(k, output) \in [1..Len(output) -> Character]
  BY <1>2, <1>3 DEF Marked
<1> QED
  BY <1>3, <1>4 DEF Marked

\* Texts put together.
LEMMA Joined ==
  \A a, b, c \in Seq(Character) : (a \o b) \o c = a \o (b \o c)
BY ConcatAssociative

\* What the slave reads fits into the buffer, and is taken out of the terminal.
LEMMA ReadText ==
  ASSUME TypeOK, Read
  PROVE  /\ buf' \in Seq(Character) /\ Len(buf') <= BufLen
         /\ tty' \in Seq(Character) /\ Len(tty') <= TtyLen
         /\ buf' \o tty' = buf \o tty
<1> DEFINE n == IF Len(tty) < BufLen - Len(buf) THEN Len(tty) ELSE BufLen - Len(buf)
<1>1. /\ tty \in Seq(Character) /\ buf \in Seq(Character)
      /\ Len(tty) <= TtyLen /\ Len(buf) < BufLen
      /\ BufLen \in Nat /\ TtyLen \in Nat /\ Len(tty) \in Nat /\ Len(buf) \in Nat
  BY ShellAssumption DEF TypeOK, Read
<1>2. n \in 0..Len(tty) /\ n <= BufLen - Len(buf)
  BY <1>1
<1>3. buf' = buf \o SubSeq(tty, 1, n) /\ tty' = SubSeq(tty, n + 1, Len(tty))
  BY DEF Read
<1> HIDE DEF n
<1>4. /\ SubSeq(tty, 1, n) \in Seq(Character) /\ Len(SubSeq(tty, 1, n)) = n
      /\ SubSeq(tty, n + 1, Len(tty)) \in Seq(Character)
      /\ Len(SubSeq(tty, n + 1, Len(tty))) = Len(tty) - n
  BY <1>1, <1>2
<1>5. SubSeq(tty, 1, n) \o SubSeq(tty, n + 1, Len(tty)) = tty
  <2>1. SubSeq(tty, 1, n) \o SubSeq(tty, n + 1, Len(tty)) = SubSeq(tty, 1, Len(tty))
    <3>1. /\ 1 \in 1..Len(tty) + 1 /\ n \in (1 - 1)..Len(tty) /\ Len(tty) \in n..Len(tty)
      BY <1>1, <1>2
    <3> QED
      BY <1>1, <3>1, ConcatAdjacentSubSeq
  <2>2. SubSeq(tty, 1, Len(tty)) = tty
    BY <1>1
  <2> QED
    BY <2>1, <2>2
<1>6. buf' \o tty' = buf \o tty
  <2>1. (buf \o SubSeq(tty, 1, n)) \o SubSeq(tty, n + 1, Len(tty))
          = buf \o (SubSeq(tty, 1, n) \o SubSeq(tty, n + 1, Len(tty)))
    BY <1>1, <1>4, Joined
  <2> QED
    BY <1>3, <1>5, <2>1
<1>7. buf' \in Seq(Character) /\ Len(buf') <= BufLen
  <2>1. buf' \in Seq(Character) /\ Len(buf') = Len(buf) + n
    BY <1>1, <1>3, <1>4
  <2> QED
    BY <1>1, <1>2, <2>1
<1>8. tty' \in Seq(Character) /\ Len(tty') <= TtyLen
  <2>1. tty' \in Seq(Character) /\ Len(tty') = Len(tty) - n
    BY <1>3, <1>4
  <2>2. Len(tty) - n <= TtyLen
    BY <1>1, <1>2
  <2> QED
    BY <2>1, <2>2
<1> QED
  BY <1>6, <1>7, <1>8

\* What the shell writes goes from pending to the terminal.
LEMMA WriteText ==
  ASSUME TypeOK, ShellWrites
  PROVE  /\ tty' \in Seq(Character) /\ Len(tty') <= TtyLen /\ pending' \in Seq(Character)
         /\ tty' \o pending' = tty \o pending
<1>1. /\ tty \in Seq(Character) /\ pending \in Seq(Character) /\ pending # <<>>
      /\ Len(tty) < TtyLen /\ TtyLen \in Nat
      /\ tty' = Append(tty, Head(pending)) /\ pending' = Tail(pending)
  BY ShellAssumption DEF TypeOK, ShellWrites
<1>2. Head(pending) \in Character /\ Tail(pending) \in Seq(Character)
  BY <1>1, HeadTailProperties
<1>3. /\ <<Head(pending)>> \in Seq(Character)
      /\ pending = <<Head(pending)>> \o Tail(pending)
  BY <1>1, <1>2
<1>4. tty' = tty \o <<Head(pending)>>
  BY <1>1, <1>2, AppendIsConcat
<1>5. tty' \o pending' = tty \o pending
  BY <1>1, <1>2, <1>3, <1>4, ConcatAssociative
<1> QED
  BY <1>1, <1>2, <1>5

\* Every step keeps the types.
LEMMA TypeStep ==
  ASSUME TypeOK, [Next]_vars
  PROVE  TypeOK'
<1>1. CASE UNCHANGED vars
  BY <1>1 DEF vars, TypeOK
<1>2. ASSUME NEW output \in Outputs, Command(output)
      PROVE  TypeOK'
  <2>1. output \in Seq({"x", "#"}) /\ Len(wrote) + 1 \in Nat
    BY ShellAssumption DEF TypeOK
  <2>2. Marked(Len(wrote) + 1, output) \in Seq(Character)
    BY <2>1, MarkedType
  <2>3. pending' \in Seq(Character) /\ wrote' \in Seq(Seq({"x", "#"}))
    BY <1>2, <2>1, <2>2 DEF Command, TypeOK
  <2>4. buf' \in Seq(Character) /\ Len(buf') <= BufLen
    BY <1>2, ShellAssumption DEF Command
  <2> QED
    BY <1>2, <2>3, <2>4 DEF Command, TypeOK
<1>3. CASE ShellWrites
  BY <1>3, WriteText DEF ShellWrites, TypeOK
<1>4. CASE Read
  BY <1>4, ReadText DEF Read, TypeOK
<1>5. CASE ReadFails
  BY <1>5 DEF ReadFails, TypeOK
<1>6. CASE Timeout
  <2>1. buf \in Seq(Character)
    BY DEF TypeOK
  <2>2. PICK n \in 0..Len(buf) : Cut(buf) = SubSeq(buf, 1, n)
    BY <2>1, CutType
  <2>3. Cut(buf) \in Seq(Character)
    BY <2>1, <2>2
  <2>4. sent' \in Seq(Seq(Character)) /\ pc' \in {"idle", "poll", "dead"}
    <3>1. sent \in Seq(Seq(Character))
      BY DEF TypeOK
    <3>2. Append(sent, Cut(buf)) \in Seq(Seq(Character))
      BY <2>3, <3>1
    <3>3. /\ sent' = sent \/ sent' = Append(sent, Cut(buf))
          /\ pc' \in {"idle", "dead"}
      BY <1>6 DEF Timeout
    <3> QED
      BY <3>1, <3>2, <3>3
  <2> QED
    BY <1>6, <2>4 DEF Timeout, TypeOK
<1> QED
  BY <1>1, <1>2, <1>3, <1>4, <1>5, <1>6 DEF Next

-----------------------------------------------------------------------------
(* The invariant. *)

Rest == IF pc = "idle" THEN tty \o pending ELSE buf \o (tty \o pending)

\* Texts by the order of their characters.
InOrder(s)    == \A i, j \in 1..Len(s) : i < j => Before(s[i], s[j])
Earlier(s, t) == \A i \in 1..Len(s), j \in 1..Len(t) : Before(s[i], t[j])
Issued(s, n)  == \A i \in 1..Len(s) : s[i].command <= n

OrderInv ==
  /\ InOrder(Rest) /\ Issued(Rest, Len(wrote))
  /\ \A m \in 1..Len(sent) :
       InOrder(sent[m]) /\ Issued(sent[m], Len(wrote)) /\ Earlier(sent[m], Rest)
  /\ \A m, n \in 1..Len(sent) : m < n => Earlier(sent[m], sent[n])

QuickInv ==
  quick =>
    /\ pc = "idle" =>
         /\ Rest = <<>>
         /\ Len(sent) = (IF Len(wrote) = 0 THEN 0 ELSE Len(wrote) - 1)
    /\ pc = "poll" =>
         /\ Len(wrote) # 0
         /\ Rest = Marked(Len(wrote), wrote[Len(wrote)])
         /\ Len(sent) = (IF Len(wrote) = 1 THEN 0 ELSE Len(wrote) - 2)
    /\ \A k \in 1..Len(sent) : sent[k] = Promised(k + 1)

-----------------------------------------------------------------------------
(* The order of texts that are put together or taken apart. *)

\* A command's output follows on to what was issued before.
LEMMA Extend ==
  ASSUME NEW s \in Seq(Character), NEW n \in Nat, Issued(s, n),
         NEW output \in Seq({"x", "#"})
  PROVE  LET t == s \o Marked(n + 1, output) IN
         /\ InOrder(s) => InOrder(t)
         /\ Issued(t, n + 1)
         /\ \A u \in Seq(Character) : Issued(u, n) /\ Earlier(u, s) => Earlier(u, t)
<1> DEFINE o == Marked(n + 1, output)
           t == s \o o
<1>1. /\ o \in Seq(Character) /\ Len(o) \in Nat /\ Len(s) \in Nat
      /\ \A i \in 1..Len(o) : o[i].command = n + 1 /\ o[i].place = i
  <2>1. n + 1 \in Nat
    OBVIOUS
  <2> QED
    BY <2>1, MarkedType
<1>2. /\ Len(t) = Len(s) + Len(o)
      /\ \A i \in 1..Len(t) :
           \/ i \in 1..Len(s) /\ t[i] = s[i]
           \/ i > Len(s) /\ i - Len(s) \in 1..Len(o) /\ t[i] = o[i - Len(s)]
  <2> HIDE DEF o
  <2>1. Len(t) = Len(s) + Len(o) /\ \A i \in 1..Len(s) + Len(o) :
          t[i] = IF i <= Len(s) THEN s[i] ELSE o[i - Len(s)]
    BY <1>1, ConcatProperties
  <2>2. \A i \in 1..Len(s) + Len(o) :
          i \in 1..Len(s) \/ (i > Len(s) /\ i - Len(s) \in 1..Len(o))
    BY <1>1
  <2> HIDE DEF t
  <2>3. \A i \in 1..Len(s) : i <= Len(s)
    BY <1>1
  <2>4. \A i \in 1..Len(s) + Len(o) : i > Len(s) => ~(i <= Len(s))
    BY <1>1
  <2>5. ASSUME NEW i \in 1..Len(s) + Len(o)
        PROVE  \/ i \in 1..Len(s) /\ t[i] = s[i]
               \/ i > Len(s) /\ i - Len(s) \in 1..Len(o) /\ t[i] = o[i - Len(s)]
    <3>1. CASE i \in 1..Len(s)
      BY <2>1, <2>3, <3>1
    <3>2. CASE i > Len(s) /\ i - Len(s) \in 1..Len(o)
      BY <2>1, <2>4, <3>2
    <3> QED
      BY <2>2, <3>1, <3>2
  <2>6. 1..Len(t) = 1..Len(s) + Len(o)
    BY <2>1
  <2> QED
    BY <2>1, <2>5, <2>6
<1>3. \A i \in 1..Len(s) : s[i].command \in Nat /\ s[i].command <= n
  <2> SUFFICES ASSUME NEW i \in 1..Len(s)
               PROVE  s[i].command \in Nat /\ s[i].command <= n
    OBVIOUS
  <2>1. s[i] \in Character
    OBVIOUS
  <2> QED
    BY <2>1 DEF Issued, Character
<1> HIDE DEF o, t
<1>4. \A i \in 1..Len(t) : \/ i \in 1..Len(s) /\ t[i] = s[i] /\ t[i].command <= n
                           \/ i > Len(s) /\ t[i].command = n + 1 /\ t[i].place = i - Len(s)
  <2> SUFFICES ASSUME NEW i \in 1..Len(t)
               PROVE  \/ i \in 1..Len(s) /\ t[i] = s[i] /\ t[i].command <= n
                      \/ i > Len(s) /\ t[i].command = n + 1 /\ t[i].place = i - Len(s)
    OBVIOUS
  <2>1. CASE i \in 1..Len(s) /\ t[i] = s[i]
    BY <1>3, <2>1
  <2>2. CASE i > Len(s) /\ i - Len(s) \in 1..Len(o) /\ t[i] = o[i - Len(s)]
    BY <1>1, <2>2
  <2> QED
    BY <1>2, <2>1, <2>2
<1>o. \A i \in 1..Len(t) : /\ i \in 1..Len(s) => t[i] = s[i] /\ t[i].command <= n
                           /\ i > Len(s) => t[i].command = n + 1
  <2>1. \A i \in 1..Len(s) : ~(i > Len(s))
    BY <1>1
  <2> QED
    BY <1>4, <2>1
<1>5. Issued(t, n + 1)
  <2> SUFFICES ASSUME NEW i \in 1..Len(t) PROVE t[i].command <= n + 1
    BY DEF Issued
  <2> QED
    BY <1>3, <1>4
<1>6. ASSUME InOrder(s) PROVE InOrder(t)
  <2> SUFFICES ASSUME NEW i \in 1..Len(t), NEW j \in 1..Len(t), i < j
               PROVE  Before(t[i], t[j])
    BY DEF InOrder
  <2>0. i \in Nat /\ j \in Nat
    BY <1>1, <1>2
  <2>1. CASE j \in 1..Len(s)
    <3>1. i \in 1..Len(s)
      BY <1>1, <2>0, <2>1
    <3>2. t[i] = s[i] /\ t[j] = s[j]
      BY <1>o, <2>1, <3>1
    <3> QED
      BY <1>6, <2>1, <3>1, <3>2 DEF InOrder
  <2>2. CASE i \in 1..Len(s) /\ j > Len(s)
    <3>1. t[i].command \in Nat /\ t[i].command <= n /\ t[j].command = n + 1
      BY <1>3, <1>o, <2>2
    <3> QED
      BY <3>1 DEF Before
  <2>3. CASE i > Len(s) /\ j > Len(s)
    <3>1. /\ t[i].command = n + 1 /\ t[i].place = i - Len(s)
          /\ t[j].command = n + 1 /\ t[j].place = j - Len(s)
      <4>1. i \notin 1..Len(s) /\ j \notin 1..Len(s)
        BY <1>1, <2>3
      <4> QED
        BY <1>4, <4>1
    <3>2. i - Len(s) < j - Len(s)
      BY <1>1, <2>0
    <3> QED
      BY <3>1, <3>2 DEF Before
  <2> QED
    BY <1>1, <2>0, <2>1, <2>2, <2>3
<1>7. ASSUME NEW u \in Seq(Character), Issued(u, n), Earlier(u, s)
      PROVE  Earlier(u, t)
  <2> SUFFICES ASSUME NEW i \in 1..Len(u), NEW j \in 1..Len(t)
               PROVE  Before(u[i], t[j])
    BY DEF Earlier
  <2>1. u[i].command \in Nat /\ u[i].command <= n
    <3>1. u[i] \in Character
      OBVIOUS
    <3> QED
      BY <1>7, <3>1 DEF Issued, Character
  <2>2. CASE j \in 1..Len(s)
    BY <1>o, <1>7, <2>2 DEF Earlier
  <2>3. CASE j \notin 1..Len(s)
    <3>1. t[j].command = n + 1
      BY <1>4, <2>3
    <3> QED
      BY <2>1, <3>1 DEF Before
  <2> QED
    BY <2>2, <2>3
<1> QED
  BY <1>5, <1>6, <1>7 DEF o, t

\* The parts of a text in order.
LEMMA Split ==
  ASSUME NEW s \in Seq(Character), NEW t \in Seq(Character), NEW n \in Nat
  PROVE  /\ InOrder(s \o t) => InOrder(s) /\ InOrder(t) /\ Earlier(s, t)
         /\ Issued(s \o t, n) => Issued(s, n) /\ Issued(t, n)
         /\ \A u : Earlier(u, s \o t) => Earlier(u, s) /\ Earlier(u, t)
<1> DEFINE r == s \o t
<1>1. /\ Len(s) \in Nat /\ Len(t) \in Nat /\ Len(r) = Len(s) + Len(t)
      /\ \A i \in 1..Len(s) : i \in 1..Len(r) /\ r[i] = s[i]
      /\ \A i \in 1..Len(t) : Len(s) + i \in 1..Len(r) /\ r[Len(s) + i] = t[i]
  OBVIOUS
<1> HIDE DEF r
<1>2. ASSUME InOrder(r) PROVE InOrder(s) /\ InOrder(t) /\ Earlier(s, t)
  <2>1. InOrder(s)
    BY <1>1, <1>2 DEF InOrder
  <2>2. InOrder(t)
    <3> SUFFICES ASSUME NEW i \in 1..Len(t), NEW j \in 1..Len(t), i < j
                 PROVE  Before(t[i], t[j])
      BY DEF InOrder
    <3>1. Len(s) + i < Len(s) + j
      BY <1>1
    <3>2. Before(r[Len(s) + i], r[Len(s) + j])
      BY <1>1, <1>2, <3>1 DEF InOrder
    <3> QED
      BY <1>1, <3>2
  <2>3. Earlier(s, t)
    <3> SUFFICES ASSUME NEW i \in 1..Len(s), NEW j \in 1..Len(t)
                 PROVE  Before(s[i], t[j])
      BY DEF Earlier
    <3>1. i < Len(s) + j
      BY <1>1
    <3>2. Before(r[i], r[Len(s) + j])
      BY <1>1, <1>2, <3>1 DEF InOrder
    <3> QED
      BY <1>1, <3>2
  <2> QED
    BY <2>1, <2>2, <2>3
<1>3. ASSUME Issued(r, n) PROVE Issued(s, n) /\ Issued(t, n)
  <2>1. Issued(s, n)
    BY <1>1, <1>3 DEF Issued
  <2>2. Issued(t, n)
    <3> SUFFICES ASSUME NEW i \in 1..Len(t) PROVE t[i].command <= n
      BY DEF Issued
    <3>1. r[Len(s) + i].command <= n
      BY <1>1, <1>3 DEF Issued
    <3> QED
      BY <1>1, <3>1
  <2> QED
    BY <2>1, <2>2
<1>4. ASSUME NEW u, Earlier(u, r) PROVE Earlier(u, s) /\ Earlier(u, t)
  <2>1. Earlier(u, s)
    BY <1>1, <1>4 DEF Earlier
  <2>2. Earlier(u, t)
    <3> SUFFICES ASSUME NEW i \in 1..Len(u), NEW j \in 1..Len(t)
                 PROVE  Before(u[i], t[j])
      BY DEF Earlier
    <3>1. Before(u[i], r[Len(s) + j])
      BY <1>1, <1>4 DEF Earlier
    <3> QED
      BY <1>1, <3>1
  <2> QED
    BY <2>1, <2>2
<1> QED
  BY <1>2, <1>3, <1>4 DEF r

\* The beginning of a text.
LEMMA Prefix ==
  ASSUME NEW s \in Seq(Character), NEW n \in 0..Len(s)
  PROVE  LET p == SubSeq(s, 1, n) IN
         /\ p \in Seq(Character)
         /\ InOrder(s) => InOrder(p)
         /\ \A k : Issued(s, k) => Issued(p, k)
         /\ \A u : (Earlier(u, s) => Earlier(u, p)) /\ (Earlier(s, u) => Earlier(p, u))
<1> DEFINE p == SubSeq(s, 1, n)
<1>1. /\ p \in Seq(Character) /\ Len(p) = n /\ Len(s) \in Nat
      /\ \A i \in 1..n : p[i] = s[i] /\ i \in 1..Len(s)
  OBVIOUS
<1> HIDE DEF p
<1>2. /\ InOrder(s) => InOrder(p)
      /\ \A k : Issued(s, k) => Issued(p, k)
      /\ \A u : (Earlier(u, s) => Earlier(u, p)) /\ (Earlier(s, u) => Earlier(p, u))
  BY <1>1 DEF InOrder, Issued, Earlier
<1> QED
  BY <1>1, <1>2 DEF p

-----------------------------------------------------------------------------
(* The steps. *)

\* What the slave has still to pass on is a text.
LEMMA RestType ==
  TypeOK => /\ Rest \in Seq(Character) /\ tty \o pending \in Seq(Character)
            /\ Len(wrote) \in Nat /\ Len(sent) \in Nat
            /\ \A m \in 1..Len(sent) : sent[m] \in Seq(Character)
<1> SUFFICES ASSUME TypeOK
             PROVE  /\ Rest \in Seq(Character) /\ tty \o pending \in Seq(Character)
                    /\ Len(wrote) \in Nat /\ Len(sent) \in Nat
                    /\ \A m \in 1..Len(sent) : sent[m] \in Seq(Character)
  OBVIOUS
<1>1. /\ buf \in Seq(Character) /\ tty \in Seq(Character) /\ pending \in Seq(Character)
      /\ sent \in Seq(Seq(Character)) /\ wrote \in Seq(Seq({"x", "#"}))
  BY DEF TypeOK
<1>2. tty \o pending \in Seq(Character)
  BY <1>1, ConcatProperties
<1>3. buf \o (tty \o pending) \in Seq(Character)
  BY <1>1, <1>2, ConcatProperties
<1> QED
  BY <1>1, <1>2, <1>3 DEF Rest

\* A command adds its output at the end.
LEMMA CommandRest ==
  ASSUME TypeOK, NEW output \in Outputs, Command(output)
  PROVE  /\ output \in Seq({"x", "#"}) /\ pc = "idle" /\ pc' = "poll"
         /\ Rest' = Rest \o Marked(Len(wrote) + 1, output)
         /\ Len(wrote') = Len(wrote) + 1 /\ wrote'[Len(wrote) + 1] = output
         /\ \A k \in 1..Len(wrote) : wrote'[k] = wrote[k]
         /\ sent' = sent /\ quick' = quick
<1>1. /\ output \in Seq({"x", "#"}) /\ wrote \in Seq(Seq({"x", "#"}))
      /\ Len(wrote) + 1 \in Nat
      /\ tty \in Seq(Character) /\ pending \in Seq(Character)
  BY ShellAssumption DEF TypeOK
<1>2. /\ pc = "idle" /\ pc' = "poll" /\ buf' = <<>> /\ tty' = tty
      /\ pending' = pending \o Marked(Len(wrote) + 1, output)
      /\ wrote' = Append(wrote, output) /\ sent' = sent /\ quick' = quick
  BY DEF Command
<1>3. Marked(Len(wrote) + 1, output) \in Seq(Character)
  BY <1>1, MarkedType
<1>4. Rest' = Rest \o Marked(Len(wrote) + 1, output)
  <2>1. tty \o (pending \o Marked(Len(wrote) + 1, output))
          = (tty \o pending) \o Marked(Len(wrote) + 1, output)
    BY <1>1, <1>3, Joined
  <2>2. tty' \o pending' \in Seq(Character)
    <3>1. pending' \in Seq(Character) /\ tty' \in Seq(Character)
      BY <1>1, <1>2, <1>3, ConcatProperties
    <3> QED
      BY <3>1, ConcatProperties
  <2>3. Rest' = tty' \o pending'
    BY <1>2, <2>2, ConcatEmptySeq DEF Rest
  <2> QED
    BY <1>2, <2>1, <2>3 DEF Rest
<1> QED
  BY <1>1, <1>2, <1>4

\* Characters on their way stay in their order.
LEMMA SameRest ==
  ASSUME TypeOK, ShellWrites \/ Read \/ ReadFails \/ (Timeout /\ pc' = "dead")
  PROVE  Rest' = Rest /\ UNCHANGED <<quick, wrote, sent>> /\ (pc' = pc \/ pc' = "dead")
<1>0. buf \in Seq(Character) /\ tty \in Seq(Character) /\ pending \in Seq(Character)
  BY DEF TypeOK
<1>1. CASE ShellWrites
  <2>1. tty' \o pending' = tty \o pending /\ buf' = buf /\ pc' = pc
    BY <1>1, WriteText DEF ShellWrites
  <2>2. Rest' = Rest
    BY <2>1 DEF Rest
  <2> QED
    BY <1>1, <2>1, <2>2 DEF ShellWrites
<1>2. CASE Read
  <2>1. /\ buf' \o tty' = buf \o tty /\ pending' = pending /\ pc = "poll" /\ pc' = "poll"
        /\ buf' \in Seq(Character) /\ tty' \in Seq(Character)
    BY <1>2, ReadText DEF Read
  <2>2. buf' \o (tty' \o pending) = buf \o (tty \o pending)
    <3>1. (buf' \o tty') \o pending = buf' \o (tty' \o pending)
      BY <1>0, <2>1, Joined
    <3>2. (buf \o tty) \o pending = buf \o (tty \o pending)
      BY <1>0, Joined
    <3> QED
      BY <2>1, <3>1, <3>2
  <2>3. Rest' = Rest
    BY <2>1, <2>2 DEF Rest
  <2> QED
    BY <1>2, <2>1, <2>3 DEF Read
<1>3. CASE ReadFails
  BY <1>3 DEF ReadFails, Rest
<1>4. CASE Timeout /\ pc' = "dead"
  BY <1>4 DEF Timeout, Rest
<1> QED
  BY <1>1, <1>2, <1>3, <1>4

\* A silence takes off what was read.
LEMMA TimeoutRest ==
  ASSUME TypeOK, Timeout, pc' # "dead"
  PROVE  /\ pc = "poll" /\ pc' = "idle" /\ tty = <<>> /\ Rest = buf \o Rest'
         /\ Rest' = pending /\ pending \in Seq(Character) /\ buf \in Seq(Character)
         /\ quick => pending = <<>>
         /\ UNCHANGED <<quick, wrote>>
         /\ sent' = IF Len(wrote) = 1 THEN sent ELSE Append(sent, Cut(buf))
<1>1. /\ pc = "poll" /\ pc' = "idle" /\ tty = <<>> /\ (quick => pending = <<>>)
      /\ UNCHANGED <<quick, wrote, pending, tty, buf>>
      /\ sent' = IF Len(wrote) = 1 THEN sent ELSE Append(sent, Cut(buf))
  BY DEF Timeout
<1>2. pending \in Seq(Character) /\ buf \in Seq(Character)
  BY DEF TypeOK
<1>3. <<>> \o pending = pending
  BY <1>2, ConcatEmptySeq
<1>4. Rest' = pending /\ Rest = buf \o pending
  BY <1>1, <1>3 DEF Rest
<1> QED
  BY <1>1, <1>2, <1>4

\* What the invariant says after a step.
LEMMA OrderNext ==
  ASSUME NEW r, r = Rest', NEW d, d = sent', NEW k, k = Len(wrote'),
         InOrder(r), Issued(r, k),
         \A m \in 1..Len(d) : InOrder(d[m]) /\ Issued(d[m], k) /\ Earlier(d[m], r),
         \A m, n \in 1..Len(d) : m < n => Earlier(d[m], d[n])
  PROVE  OrderInv'
BY DEF OrderInv, InOrder, Issued, Earlier, Before

\* The order is kept.
LEMMA OrderStep ==
  ASSUME TypeOK, OrderInv, [Next]_vars
  PROVE  OrderInv'
<1>0. /\ Rest \in Seq(Character) /\ Len(wrote) \in Nat /\ Len(sent) \in Nat
      /\ \A m \in 1..Len(sent) : sent[m] \in Seq(Character)
  BY RestType
<1>1. CASE UNCHANGED vars
  BY <1>1 DEF vars, OrderInv, Rest
<1>2. ASSUME NEW output \in Outputs, Command(output)
      PROVE  OrderInv'
  <2> DEFINE n == Len(wrote)
             t == Rest \o Marked(n + 1, output)
  <2>1. output \in Seq({"x", "#"}) /\ Rest' = t /\ Len(wrote') = n + 1 /\ sent' = sent
    BY <1>2, CommandRest
  <2>2. /\ InOrder(t) /\ Issued(t, n + 1)
        /\ \A u \in Seq(Character) : Issued(u, n) /\ Earlier(u, Rest) => Earlier(u, t)
    BY <1>0, <2>1, Extend DEF OrderInv
  <2> HIDE DEF t
  <2>3. ASSUME NEW m \in 1..Len(sent)
        PROVE  InOrder(sent[m]) /\ Issued(sent[m], n + 1) /\ Earlier(sent[m], t)
    <3>1. InOrder(sent[m]) /\ Issued(sent[m], n) /\ Earlier(sent[m], Rest)
      BY DEF OrderInv
    <3>2. sent[m] \in Seq(Character)
      BY <1>0
    <3>3. Issued(sent[m], n + 1)
      <4> SUFFICES ASSUME NEW i \in 1..Len(sent[m]) PROVE sent[m][i].command <= n + 1
        BY DEF Issued
      <4>1. sent[m][i] \in Character
        BY <3>2
      <4>2. sent[m][i].command \in Nat /\ sent[m][i].command <= n
        BY <3>1, <4>1 DEF Issued, Character
      <4> QED
        BY <1>0, <4>2
    <3> QED
      BY <2>2, <3>1, <3>2, <3>3
  <2> HIDE DEF n
  <2> QED
    BY <2>1, <2>2, <2>3 DEF OrderInv, InOrder, Issued, Earlier, Before
<1>3. CASE ShellWrites \/ Read \/ ReadFails \/ (Timeout /\ pc' = "dead")
  <2>1. Rest' = Rest /\ UNCHANGED <<wrote, sent>>
    BY <1>3, SameRest
  <2> QED
    BY <2>1, SMTT(30) DEF OrderInv, InOrder, Issued, Earlier, Before
<1>4. CASE Timeout /\ pc' # "dead"
  <2>1. /\ Rest = buf \o pending /\ Rest' = pending /\ wrote' = wrote
        /\ pending \in Seq(Character) /\ buf \in Seq(Character)
        /\ sent' = IF Len(wrote) = 1 THEN sent ELSE Append(sent, Cut(buf))
    BY <1>4, TimeoutRest
  <2>2. PICK k \in 0..Len(buf) : Cut(buf) = SubSeq(buf, 1, k)
    BY <2>1, CutType
  <2>3. PICK c : c = Cut(buf)
    OBVIOUS
  <2>4. /\ InOrder(buf) /\ InOrder(pending) /\ Earlier(buf, pending)
        /\ Issued(buf, Len(wrote)) /\ Issued(pending, Len(wrote))
        /\ \A m \in 1..Len(sent) : Earlier(sent[m], buf) /\ Earlier(sent[m], pending)
    BY <1>0, <2>1, Split DEF OrderInv
  <2>5. /\ c \in Seq(Character) /\ InOrder(c) /\ Issued(c, Len(wrote))
        /\ Earlier(c, pending)
        /\ \A m \in 1..Len(sent) : Earlier(sent[m], c)
    BY <2>1, <2>2, <2>3, <2>4, Prefix
  <2>6. CASE sent' = sent
    <3>1. /\ \A m \in 1..Len(sent) : InOrder(sent[m]) /\ Issued(sent[m], Len(wrote))
          /\ \A m, n \in 1..Len(sent) : m < n => Earlier(sent[m], sent[n])
      BY DEF OrderInv
    <3>2. pending = Rest' /\ sent = sent' /\ Len(wrote) = Len(wrote')
      BY <2>1, <2>6
    <3>3. PICK r, d, w : r = pending /\ d = sent /\ w = Len(wrote)
      OBVIOUS
    <3> QED
      BY <2>4, <3>1, <3>2, <3>3, OrderNext
  <2>7. CASE sent' = Append(sent, Cut(buf))
    <3>1. /\ Len(sent') = Len(sent) + 1 /\ sent'[Len(sent) + 1] = c
          /\ \A m \in 1..Len(sent) : sent'[m] = sent[m]
          /\ \A m \in 1..Len(sent') : m \in 1..Len(sent) \/ m = Len(sent) + 1
      <4>1. sent \in Seq(Seq(Character))
        BY DEF TypeOK
      <4>2. sent' = Append(sent, c)
        BY <2>3, <2>7
      <4> QED
        BY <2>5, <4>1, <4>2
    <3>2. PICK d : d = sent'
      OBVIOUS
    <3>3. \A m \in 1..Len(d) :
            InOrder(d[m]) /\ Issued(d[m], Len(wrote)) /\ Earlier(d[m], pending)
      BY <2>4, <2>5, <3>1, <3>2 DEF OrderInv
    <3>4. ASSUME NEW m \in 1..Len(d), NEW n \in 1..Len(d), m < n
          PROVE  Earlier(d[m], d[n])
      <4>1. m \in 1..Len(sent)
        BY <1>0, <3>1, <3>2, <3>4
      <4>2. CASE n \in 1..Len(sent)
        BY <3>1, <3>2, <3>4, <4>1, <4>2 DEF OrderInv
      <4>3. CASE n = Len(sent) + 1
        BY <2>5, <3>1, <3>2, <4>1, <4>3
      <4> QED
        BY <3>1, <3>2, <4>2, <4>3
    <3> QED
      <4>1. PICK r, w : r = pending /\ w = Len(wrote)
        OBVIOUS
      <4>2. r = Rest' /\ w = Len(wrote')
        BY <2>1, <4>1
      <4> QED
        BY <2>4, <3>2, <3>3, <3>4, <4>1, <4>2, OrderNext
  <2> QED
    BY <2>1, <2>6, <2>7
<1> QED
  BY <1>1, <1>2, <1>3, <1>4 DEF Next

\* With a shell that does not pause, replies are those of their commands.
LEMMA QuickStep ==
  ASSUME TypeOK, QuickInv, [Next]_vars
  PROVE  QuickInv'
<1>0. /\ Len(wrote) \in Nat /\ Len(sent) \in Nat /\ pc \in {"idle", "poll", "dead"}
      /\ sent \in Seq(Seq(Character))
  BY RestType DEF TypeOK
<1>1. CASE UNCHANGED vars
  BY <1>1 DEF vars, QuickInv, Rest, Promised
<1> SUFFICES ASSUME quick', Next PROVE QuickInv'
  BY <1>1 DEF QuickInv
<1>2. ASSUME NEW output \in Outputs, Command(output)
      PROVE  QuickInv'
  <2>1. /\ output \in Seq({"x", "#"}) /\ pc = "idle" /\ pc' = "poll"
        /\ Rest' = Rest \o Marked(Len(wrote) + 1, output)
        /\ Len(wrote') = Len(wrote) + 1 /\ wrote'[Len(wrote) + 1] = output
        /\ \A k \in 1..Len(wrote) : wrote'[k] = wrote[k]
        /\ sent' = sent /\ quick
    BY <1>2, CommandRest
  <2>2. /\ Rest = <<>>
        /\ Len(sent) = (IF Len(wrote) = 0 THEN 0 ELSE Len(wrote) - 1)
        /\ \A k \in 1..Len(sent) : sent[k] = Promised(k + 1)
    BY <2>1 DEF QuickInv
  <2>3. Rest' = Marked(Len(wrote'), wrote'[Len(wrote')])
    <3>1. Marked(Len(wrote) + 1, output) \in Seq(Character)
      BY <1>0, <2>1, MarkedType
    <3>2. Rest' = Marked(Len(wrote) + 1, output)
      BY <2>1, <2>2, <3>1, ConcatEmptySeq
    <3> QED
      BY <2>1, <3>2
  <2>4. Len(wrote') # 0 /\ Len(sent') = (IF Len(wrote') = 1 THEN 0 ELSE Len(wrote') - 2)
    BY <1>0, <2>1, <2>2
  <2>5. ASSUME NEW k \in 1..Len(sent')
        PROVE  sent'[k] = Promised(k + 1)'
    <3>1. k \in 1..Len(sent) /\ k + 1 \in 1..Len(wrote)
      BY <1>0, <2>1, <2>2
    <3>2. wrote'[k + 1] = wrote[k + 1]
      BY <2>1, <3>1
    <3>3. sent[k] = Cut(Marked(k + 1, wrote[k + 1]))
      BY <2>2, <3>1 DEF Promised
    <3> QED
      BY <2>1, <3>2, <3>3 DEF Promised
  <2> QED
    BY <2>1, <2>3, <2>4, <2>5 DEF QuickInv
<1>3. CASE ShellWrites \/ Read \/ ReadFails \/ (Timeout /\ pc' = "dead")
  <2>1. Rest' = Rest /\ UNCHANGED <<quick, wrote, sent>> /\ (pc' = pc \/ pc' = "dead")
    BY <1>3, SameRest
  <2> QED
    BY <2>1 DEF QuickInv, Promised
<1>4. CASE Timeout /\ pc' # "dead"
  <2>1. /\ pc = "poll" /\ pc' = "idle" /\ Rest = buf \o pending /\ Rest' = pending
        /\ pending = <<>> /\ buf \in Seq(Character) /\ wrote' = wrote /\ quick
        /\ sent' = IF Len(wrote) = 1 THEN sent ELSE Append(sent, Cut(buf))
    BY <1>4, TimeoutRest
  <2>2. /\ Len(wrote) # 0
        /\ buf = Marked(Len(wrote), wrote[Len(wrote)])
        /\ Len(sent) = (IF Len(wrote) = 1 THEN 0 ELSE Len(wrote) - 2)
        /\ \A k \in 1..Len(sent) : sent[k] = Promised(k + 1)
    <3>1. buf \o <<>> = buf
      BY <2>1, ConcatEmptySeq
    <3> QED
      BY <2>1, <3>1 DEF QuickInv
  <2>3. CASE Len(wrote) = 1
    BY <1>0, <2>1, <2>2, <2>3 DEF QuickInv, Promised
  <2>4. CASE Len(wrote) # 1
    <3>1. PICK c : c = Cut(buf)
      OBVIOUS
    <3>2. c \in Seq(Character)
      <4>1. PICK n \in 0..Len(buf) : c = SubSeq(buf, 1, n)
        BY <2>1, <3>1, CutType
      <4> QED
        BY <2>1, <4>1, Prefix
    <3>3. /\ sent' = Append(sent, c) /\ Len(sent') = Len(sent) + 1
          /\ sent'[Len(sent) + 1] = c
          /\ \A k \in 1..Len(sent) : sent'[k] = sent[k]
      BY <1>0, <2>1, <2>4, <3>1, <3>2
    <3>4. Len(sent) = Len(wrote) - 2 /\ Len(sent') = Len(wrote) - 1
      BY <1>0, <2>2, <2>4, <3>3
    <3>5. c = Promised((Len(sent) + 1) + 1)
      <4>1. (Len(sent) + 1) + 1 = Len(wrote)
        BY <1>0, <3>4
      <4> QED
        BY <2>2, <3>1, <4>1 DEF Promised
    <3>6. \A k \in 1..Len(sent') : sent'[k] = Promised(k + 1)
      <4>1. \A k \in 1..Len(sent') : k \in 1..Len(sent) \/ k = Len(sent) + 1
        BY <1>0, <3>3
      <4> QED
        BY <2>2, <3>3, <3>5, <4>1
    <3>7. \A k \in 1..Len(sent') : sent'[k] = Promised(k + 1)'
      BY <2>1, <3>6 DEF Promised
    <3> QED
      BY <2>1, <2>2, <3>4, <3>7 DEF QuickInv
  <2> QED
    BY <2>3, <2>4
<1> QED
  BY <1>2, <1>3, <1>4 DEF Next

-----------------------------------------------------------------------------
(* The theorems. *)

Inv == TypeOK /\ OrderInv /\ QuickInv

\* In the beginning nothing has been written.
LEMMA InitInv == Init => Inv
<1> SUFFICES ASSUME Init PROVE Inv
  OBVIOUS
<1>1. TypeOK
  BY ShellAssumption DEF Init, TypeOK
<1>2. Rest = <<>> /\ Len(sent) = 0 /\ Len(wrote) = 0 /\ pc = "idle"
  BY DEF Init, Rest
<1>3. Len(<<>>) = 0 /\ 1..0 = {}
  OBVIOUS
<1> QED
  BY <1>1, <1>2, <1>3 DEF Inv, OrderInv, QuickInv, InOrder, Issued, Earlier

\* The invariant of the session.
LEMMA Invariance == Spec => []Inv
<1>1. Inv /\ [Next]_vars => Inv'
  BY TypeStep, OrderStep, QuickStep DEF Inv
<1> QED
  BY <1>1, InitInv, PTL DEF Spec

\* All variables keep their types: neither the buffer nor the terminal holds more than
\* its size, whatever commands write and however slow the shell is.
THEOREM TypeCorrect == Spec => []TypeOK
BY Invariance, PTL DEF Inv

\* Clients get what the shell wrote, in its order and nothing twice, whenever a second of
\* silence is taken for the end (WriteIntoBash); from a shell that does not pause, each
\* reply is the whole output of its command up to the last prompt.
THEOREM InTurn == Spec => []Answers
<1>1. Inv => Answers
  <2> SUFFICES ASSUME Inv PROVE Answers
    OBVIOUS
  <2>1. /\ sent \in Seq(Seq(Character)) /\ DOMAIN sent = 1..Len(sent)
        /\ \A m \in DOMAIN sent : DOMAIN sent[m] = 1..Len(sent[m])
    BY DEF Inv, TypeOK
  <2>2. ASSUME NEW m \in DOMAIN sent, NEW n \in DOMAIN sent,
               NEW i \in DOMAIN sent[m], NEW j \in DOMAIN sent[n],
               m < n \/ (m = n /\ i < j)
        PROVE  Before(sent[m][i], sent[n][j])
    BY <2>1, <2>2 DEF Inv, OrderInv, InOrder, Earlier
  <2>3. quick => \A k \in DOMAIN sent : sent[k] = Promised(k + 1)
    BY <2>1 DEF Inv, QuickInv
  <2> QED
    BY <2>2, <2>3 DEF Answers
<1> QED
  BY <1>1, Invariance, PTL
=============================================================================
