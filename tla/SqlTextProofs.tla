--------------------------- MODULE SqlTextProofs ---------------------------
(***************************************************************************)
(* Proofs for SqlLexer and SqlText, for texts of every length.             *)
(*                                                                         *)
(* The argument is an induction of its own at each loop: LeastNumber gives *)
(* induction over the naturals from the library's well-foundedness of <,   *)
(* and with it the two recursive functions, Reading and LiteralEnd, are    *)
(* shown to satisfy the equations that define them.  Then, for each turn   *)
(* of tokenize's loop, the automaton is followed through the characters    *)
(* the turn passes: a run of digits, a word, a comment, a literal.         *)
(*                                                                         *)
(* The loops of parseSQL are all instances of ForEach, so that its laws    *)
(* are proved once and SeqInduct turns them into inductions over texts.    *)
(* The automaton is restated as Scan, a loop that keeps the nonblank       *)
(* characters outside comments.  A round of removeBlockComments does not   *)
(* change what Scan keeps, the pass over the lines keeps the same, and to  *)
(* leave out blanks commutes with the cut at semicolons.                   *)
(***************************************************************************)
EXTENDS SqlText, SequenceTheorems, WellFoundedInduction, TLAPS

\* Every nonempty set of natural numbers has a least element.
LEMMA LeastNumber ==
  ASSUME NEW T \in SUBSET Nat, T # {}
  PROVE  \E x \in T : \A y \in T : x <= y
<1> DEFINE R == OpToRel(<, Nat)
<1>1. IsWellFoundedOn(R, Nat)
  BY NatLessThanWellFounded, Zenon
<1>2. \A x, y \in Nat : <<y, x>> \in R <=> y < x
  BY DEF OpToRel
<1> HIDE DEF R
<1>3. PICK x \in T : \A y \in T : ~ (<<y, x>> \in R)
  BY <1>1, WFMin
<1>4. \A y \in T : ~ (y < x)
  BY <1>2, <1>3
<1> QED
  BY <1>4

\* Induction, stated with the set of the numbers that have a property.
LEMMA Induct ==
  ASSUME NEW S \in SUBSET Nat, 0 \in S, \A n \in S : n + 1 \in S
  PROVE  S = Nat
<1> SUFFICES ASSUME Nat \ S # {} PROVE FALSE
  OBVIOUS
<1>1. PICK x \in Nat \ S : \A y \in Nat \ S : x <= y
  BY LeastNumber
<1>2. x - 1 \in S
  BY <1>1
<1> QED
  BY <1>1, <1>2

\* The automaton starts in code and then reads one character after the other.
LEMMA ReadingDef ==
  ASSUME NEW s \in Seq(Chars)
  PROVE  /\ Reading(s)[0] = [mode |-> "code", words |-> <<>>]
         /\ \A n \in 1 .. Len(s) : Reading(s)[n] = Read(Reading(s)[n - 1], s[n])
         /\ DOMAIN Reading(s) = 0 .. Len(s)
<1> DEFINE start == [mode |-> "code", words |-> <<>>]
           Up(n, g) == g = [k \in 0 .. n |-> IF k = 0 THEN start ELSE Read(g[k - 1], s[k])]
           P == {n \in Nat : \E g : Up(n, g)}
<1> HIDE DEF start
<1>0. Len(s) \in Nat
  OBVIOUS
<1>1. 0 \in P
  <2>1. Up(0, [k \in 0 .. 0 |-> start])
    OBVIOUS
  <2> QED
    BY <2>1
<1>2. ASSUME NEW n \in P PROVE n + 1 \in P
  <2>1. PICK g : Up(n, g)
    BY <1>2
  <2> DEFINE h == [k \in 0 .. n + 1 |-> IF k = n + 1 THEN Read(g[n], s[n + 1]) ELSE g[k]]
  <2>2. \A k \in 0 .. n : h[k] = g[k]
    OBVIOUS
  <2>3. h[n + 1] = Read(g[n], s[n + 1])
    OBVIOUS
  <2>4. \A k \in 0 .. n + 1 : h[k] = IF k = 0 THEN start ELSE Read(h[k - 1], s[k])
    <3> SUFFICES ASSUME NEW k \in 0 .. n + 1
                 PROVE  h[k] = IF k = 0 THEN start ELSE Read(h[k - 1], s[k])
      OBVIOUS
    <3> HIDE DEF h
    <3>1. CASE k = n + 1
      BY <2>2, <2>3, <3>1
    <3>2. CASE k \in 0 .. n
      BY <2>1, <2>2, <3>2
    <3> QED
      BY <3>1, <3>2
  <2>5. Up(n + 1, h)
    BY <2>4
  <2> HIDE DEF h
  <2> QED
    BY <2>5
<1>3. Len(s) \in P
  <2> HIDE DEF P
  <2>1. P \in SUBSET Nat
    BY DEF P
  <2> QED
    BY <1>0, <1>1, <1>2, <2>1, Induct
<1>4. \E g : g = [k \in 0 .. Len(s) |-> IF k = 0 THEN start ELSE Read(g[k - 1], s[k])]
  BY <1>3
<1>5. Up(Len(s), Reading(s))
  BY <1>4, Zenon DEF Reading, start
<1> HIDE DEF Up
<1> DEFINE r == Reading(s)
<1> HIDE DEF r
<1>6. r = [k \in 0 .. Len(s) |-> IF k = 0 THEN start ELSE Read(r[k - 1], s[k])]
  BY <1>5 DEF Up, r
<1>7. r[0] = start /\ \A n \in 1 .. Len(s) : r[n] = Read(r[n - 1], s[n])
  BY <1>6, <1>0
<1>8. DOMAIN r = 0 .. Len(s)
  BY <1>6
<1> QED
  BY <1>7, <1>8 DEF r, start
-----------------------------------------------------------------------------
(* The automaton, character by character.                                  *)

\* The modes of the automaton.
Modes == {"code", "word", "dash", "slash", "line", "block", "star", "single", "closed",
          "double", "hidden", "back"}

\* A state of the automaton; one inside a word has that word.
States == {m \in [mode : Modes, words : Seq(Seq(Chars))] :
             m.mode = "word" => m.words # <<>>}

\* What a character that is no letter begins.
EnterMode(c) == CASE c = "-"  -> "dash"   [] c = "/"  -> "slash" [] c = "sq" -> "single"
                  [] c = "dq" -> "double" [] c = "bq" -> "back"  [] OTHER    -> "code"

\* From code the automaton goes to a state, and finds a word at a letter only.
LEMMA EnterType ==
  ASSUME NEW m \in States, NEW c \in Chars
  PROVE  /\ Enter(m, c) \in States
         /\ c \in Letters => Enter(m, c).mode = "word"
                             /\ Enter(m, c).words = Append(m.words, <<c>>)
         /\ c \notin Letters =>
              /\ Enter(m, c).words = m.words
              /\ Enter(m, c).mode = EnterMode(c)
<1>0. m \in [mode : Modes, words : Seq(Seq(Chars))]
  BY DEF States
<1>1. ASSUME c \in Letters
      PROVE  /\ Enter(m, c) = [mode |-> "word", words |-> Append(m.words, <<c>>)]
             /\ Append(m.words, <<c>>) \in Seq(Seq(Chars))
             /\ Append(m.words, <<c>>) # <<>>
  <2>1. <<c>> \in Seq(Chars)
    OBVIOUS
  <2>2. /\ Append(m.words, <<c>>) \in Seq(Seq(Chars))
        /\ Append(m.words, <<c>>) # <<>>
    <3>1. m.words \in Seq(Seq(Chars))
      BY <1>0
    <3> QED
      BY <3>1, <2>1, AppendProperties
  <2>3. Enter(m, c) = [mode |-> "word", words |-> Append(m.words, <<c>>)]
    BY <1>1 DEF Enter
  <2> QED
    BY <2>2, <2>3
<1>2. ASSUME c \notin Letters
      PROVE  /\ Enter(m, c) \in [mode : Modes, words : Seq(Seq(Chars))]
             /\ Enter(m, c).words = m.words
             /\ Enter(m, c).mode # "word"
             /\ Enter(m, c).mode = EnterMode(c)
  BY <1>0, <1>2 DEF Enter, Modes, EnterMode
<1>3. CASE c \in Letters
  <2> DEFINE w == Append(m.words, <<c>>)
  <2>1. Enter(m, c) = [mode |-> "word", words |-> w] /\ w \in Seq(Seq(Chars)) /\ w # <<>>
    BY <1>1, <1>3
  <2> HIDE DEF w
  <2>2. Enter(m, c) \in States /\ Enter(m, c).mode = "word" /\ Enter(m, c).words = w
    BY <2>1 DEF States, Modes
  <2> QED
    BY <1>3, <2>2 DEF w
<1>4. CASE c \notin Letters
  BY <1>2, <1>4 DEF States
<1> QED
  BY <1>3, <1>4

\* Where the automaton starts anew it reads c as it does in code.
LEMMA ReadFresh ==
  ASSUME NEW m \in States, NEW c \in Chars, Fresh(m.mode, c)
  PROVE  Read(m, c) = Enter(m, c)
BY DEF Read, Fresh

\* How the automaton goes on inside a comment or a literal.
ModeAfter(mode, c) ==
  CASE mode = "dash"   -> "line"
    [] mode = "line"   -> IF c = "nl" THEN "code" ELSE "line"
    [] mode = "slash"  -> "block"
    [] mode = "block"  -> IF c = "*" THEN "star" ELSE "block"
    [] mode = "star"   -> IF c = "/" THEN "code" ELSE IF c = "*" THEN "star" ELSE "block"
    [] mode = "single" -> IF c = "sq" THEN "closed" ELSE "single"
    [] mode = "closed" -> "single"
    [] mode = "double" -> IF c = "dq" THEN "code" ELSE IF c = "esc" THEN "hidden" ELSE "double"
    [] mode = "hidden" -> "double"
    [] mode = "back"   -> IF c = "bq" THEN "code" ELSE "back"

\* Elsewhere it stays inside what it reads, and only a word changes the words.
LEMMA ReadInside ==
  ASSUME NEW m \in States, NEW c \in Chars, ~Fresh(m.mode, c)
  PROVE  /\ Read(m, c) \in States
         /\ m.mode # "word" => /\ Read(m, c).words = m.words
                               /\ Read(m, c).mode = ModeAfter(m.mode, c)
         /\ m.mode = "word" =>
              /\ Read(m, c).mode = "word"
              /\ Read(m, c).words = [m.words EXCEPT ![Len(m.words)] = Append(@, c)]
<1>0. m \in [mode : Modes, words : Seq(Seq(Chars))] /\ m.mode \in Modes
  BY DEF States
<1>1. CASE m.mode = "word"
  <2> DEFINE n == Len(m.words)
  <2>1. n \in 1 .. Len(m.words) /\ m.words[n] \in Seq(Chars)
    BY <1>0, <1>1 DEF States
  <2>2. Append(m.words[n], c) \in Seq(Chars)
    BY <2>1
  <2> DEFINE w == [m.words EXCEPT ![n] = Append(m.words[n], c)]
  <2>3. w \in Seq(Seq(Chars)) /\ Len(w) = Len(m.words)
    BY <1>0, <2>1, <2>2, ExceptSeq
  <2>4. Read(m, c) = [m EXCEPT !.words = w]
    BY <1>0, <1>1 DEF Read, Fresh
  <2>5. w # <<>>
    BY <2>1, <2>3
  <2> HIDE DEF w
  <2>6. Read(m, c) \in States
    BY <1>0, <1>1, <2>3, <2>4, <2>5 DEF States
  <2> QED
    BY <1>0, <1>1, <2>4, <2>6 DEF w
<1>2. CASE m.mode # "word"
  <2>1. \E md \in Modes \ {"word"} : Read(m, c) = [m EXCEPT !.mode = md]
    BY <1>0, <1>2 DEF Read, Fresh, Go, Modes
  <2>2. Read(m, c) \in States /\ Read(m, c).words = m.words
    BY <1>0, <2>1 DEF States
  <2> QED
    BY <1>0, <1>2, <2>2 DEF Read, Fresh, Go, Modes, ModeAfter
<1> QED
  BY <1>1, <1>2
\* Every reading is a sequence of states.
LEMMA ReadingType ==
  ASSUME NEW s \in Seq(Chars), NEW n \in 0 .. Len(s)
  PROVE  Reading(s)[n] \in States
<1> DEFINE S == {k \in Nat : k <= Len(s) => Reading(s)[k] \in States}
<1>1. 0 \in S
  <2>1. [mode |-> "code", words |-> <<>>] \in States
    BY DEF States, Modes
  <2> QED
    BY <2>1, ReadingDef
<1>2. ASSUME NEW k \in S PROVE k + 1 \in S
  <2> SUFFICES ASSUME k + 1 <= Len(s) PROVE Reading(s)[k + 1] \in States
    OBVIOUS
  <2>1. k + 1 \in 1 .. Len(s) /\ k \in Nat /\ Reading(s)[k] \in States
    BY <1>2
  <2>2. Reading(s)[k + 1] = Read(Reading(s)[k], s[k + 1]) /\ s[k + 1] \in Chars
    BY <2>1, ReadingDef
  <2>3. CASE Fresh(Reading(s)[k].mode, s[k + 1])
    <3>1. Read(Reading(s)[k], s[k + 1]) = Enter(Reading(s)[k], s[k + 1])
      BY <2>1, <2>2, <2>3, ReadFresh
    <3>2. Enter(Reading(s)[k], s[k + 1]) \in States
      BY <2>1, <2>2, EnterType
    <3> QED
      BY <2>2, <3>1, <3>2
  <2>4. CASE ~Fresh(Reading(s)[k].mode, s[k + 1])
    BY <2>1, <2>2, <2>4, ReadInside
  <2> QED
    BY <2>3, <2>4
<1>3. S = Nat
  BY <1>1, <1>2, Induct
<1> QED
  BY <1>3

\* Induction upwards over an interval.
LEMMA InductUp ==
  ASSUME NEW a \in Nat, NEW b \in Nat, NEW S, a \in S,
         \A n \in a .. b - 1 : n \in S => n + 1 \in S
  PROVE  \A n \in a .. b : n \in S
<1> SUFFICES ASSUME {n \in a .. b : n \notin S} # {} PROVE FALSE
  OBVIOUS
<1>1. {n \in a .. b : n \notin S} \in SUBSET Nat
  OBVIOUS
<1>2. PICK x \in {n \in a .. b : n \notin S} : \A y \in {n \in a .. b : n \notin S} : x <= y
  BY <1>1, LeastNumber
<1>3. x - 1 \in a .. b - 1
  BY <1>2
<1>4. x - 1 \in S
  BY <1>2, <1>3
<1> QED
  BY <1>2, <1>3, <1>4

\* Induction downwards from b, from all the numbers above.
LEMMA InductDown ==
  ASSUME NEW b \in Nat, NEW S,
         \A n \in 1 .. b : (\A k \in n + 1 .. b : k \in S) => n \in S
  PROVE  \A n \in 1 .. b : n \in S
<1> DEFINE T == {d \in 0 .. b : ~ \A k \in b - d + 1 .. b : k \in S}
<1> SUFFICES ASSUME T # {} PROVE FALSE
  <2>1. T = {} => b \notin T
    OBVIOUS
  <2> QED
    BY <2>1
<1>1. T \in SUBSET Nat
  OBVIOUS
<1>2. PICK d \in T : \A y \in T : d <= y
  BY <1>1, LeastNumber
<1>3. d # 0
  BY <1>2
<1>4. d - 1 \in 0 .. b /\ d - 1 \notin T
  BY <1>2, <1>3
<1>5. \A k \in b - d + 2 .. b : k \in S
  BY <1>4
<1>6. b - d + 1 \in 1 .. b
  BY <1>2, <1>3
<1>7. b - d + 1 \in S
  BY <1>5, <1>6
<1> QED
  BY <1>2, <1>5, <1>7

\* LiteralEnd satisfies its recursive definition.
LEMMA LiteralEndDef ==
  ASSUME NEW s \in Seq(Chars), NEW q, NEW j \in 1 .. Len(s) + 2
  PROVE  LiteralEnd(s, q)[j] = IF j > Len(s)          THEN j
                               ELSE IF Hides(s, j, q) THEN LiteralEnd(s, q)[j + 2]
                               ELSE IF s[j] = q       THEN j + 1
                               ELSE LiteralEnd(s, q)[j + 1]
<1> DEFINE N == Len(s)
           Body(g, k) == IF k > Len(s)          THEN k
                         ELSE IF Hides(s, k, q) THEN g[k + 2]
                         ELSE IF s[k] = q       THEN k + 1
                         ELSE g[k + 1]
           Down(d, g) == g = [k \in N + 2 - d .. N + 2 |-> Body(g, k)]
           P == {d \in Nat : \E g : Down(d, g)}
<1>0. N \in Nat
  OBVIOUS
<1>b. ASSUME NEW g, NEW h, NEW k \in Int,
             \A i \in Int : i > k /\ i <= N + 2 => h[i] = g[i]
      PROVE  Body(h, k) = Body(g, k)
  BY <1>0, <1>b
<1> HIDE DEF Body, N
<1>1. 0 \in P
  <2> DEFINE g == [k \in N + 2 .. N + 2 |-> k]
  <2>1. \A k \in N + 2 .. N + 2 : Body(g, k) = k
    BY <1>0 DEF Body, N
  <2>2. Down(0, g)
    BY <1>0, <2>1
  <2> QED
    BY <2>2
<1>2. ASSUME NEW d \in P PROVE d + 1 \in P
  <2>1. PICK g : Down(d, g)
    BY <1>2
  <2>0. d \in Nat
    BY <1>2
  <2> DEFINE a == N + 2 - d
             h == [k \in a - 1 .. N + 2 |-> IF k = a - 1 THEN Body(g, k) ELSE g[k]]
  <2>a. a \in Int
    BY <1>0, <2>0
  <2>2. \A k \in a .. N + 2 : h[k] = g[k]
    BY <1>0, <2>a
  <2>3. a - 1 <= N + 2 => h[a - 1] = Body(g, a - 1)
    BY <1>0, <2>a
  <2>4. ASSUME NEW k \in a - 1 .. N + 2 PROVE h[k] = Body(h, k)
    <3> HIDE DEF h
    <3>1. Body(h, k) = Body(g, k)
      <4>1. \A i \in Int : i > k /\ i <= N + 2 => h[i] = g[i]
        BY <1>0, <2>a, <2>2
      <4> QED
        BY <4>1, <1>b, <2>a
    <3>2. CASE k = a - 1
      BY <3>1, <3>2, <2>3
    <3>3. CASE k \in a .. N + 2
      <4>1. g[k] = Body(g, k)
        BY <2>1, <3>3
      <4> QED
        BY <3>1, <4>1, <2>2, <3>3
    <3> QED
      BY <3>2, <3>3, <1>0, <2>a
  <2>5. N + 2 - (d + 1) = a - 1
    BY <1>0, <2>0
  <2>6. h = [k \in a - 1 .. N + 2 |-> Body(h, k)]
    BY <2>4
  <2>7. Down(d + 1, h)
    BY <2>5, <2>6
  <2> HIDE DEF h
  <2> QED
    BY <2>0, <2>7
<1>3. N + 1 \in P
  <2> HIDE DEF P
  <2>1. P \in SUBSET Nat
    BY DEF P
  <2> QED
    BY <1>0, <1>1, <1>2, <2>1, Induct
<1>4. PICK g : g = [k \in 1 .. N + 2 |-> Body(g, k)]
  <2>1. PICK g : Down(N + 1, g)
    BY <1>3
  <2>2. N + 2 - (N + 1) = 1
    BY <1>0
  <2> QED
    BY <2>1, <2>2
<1> DEFINE e == LiteralEnd(s, q)
<1>5. e = [k \in 1 .. N + 2 |-> Body(e, k)]
  BY <1>4, Zenon DEF LiteralEnd, Body, N
<1> HIDE DEF e
<1>6. e[j] = Body(e, j)
  BY <1>5 DEF N
<1> QED
  BY <1>6 DEF Body, e
-----------------------------------------------------------------------------
(* What the automaton makes of the spans that tokenize jumps over.         *)

\* One character further, in terms of the reading of a text.
LEMMA NextRead ==
  ASSUME NEW s \in Seq(Chars), NEW n \in 1 .. Len(s)
  PROVE  /\ Reading(s)[n - 1] \in States /\ Reading(s)[n] \in States /\ s[n] \in Chars
         /\ Reading(s)[n] = Read(Reading(s)[n - 1], s[n])
         /\ Fresh(Reading(s)[n - 1].mode, s[n])
              => Reading(s)[n] = Enter(Reading(s)[n - 1], s[n])
<1>1. n - 1 \in 0 .. Len(s) /\ n \in 0 .. Len(s)
  OBVIOUS
<1>2. Reading(s)[n - 1] \in States /\ Reading(s)[n] \in States /\ s[n] \in Chars
  BY <1>1, ReadingType
<1>3. Reading(s)[n] = Read(Reading(s)[n - 1], s[n])
  BY ReadingDef
<1> QED
  BY <1>2, <1>3, ReadFresh

\* What it does where it starts anew.
LEMMA FreshStep ==
  ASSUME NEW s \in Seq(Chars), NEW n \in 1 .. Len(s),
         Fresh(Reading(s)[n - 1].mode, s[n])
  PROVE  /\ s[n] \notin Letters => /\ Reading(s)[n].words = Reading(s)[n - 1].words
                                   /\ Reading(s)[n].mode = EnterMode(s[n])
         /\ s[n] \in Letters =>
              /\ Reading(s)[n].words = Append(Reading(s)[n - 1].words, <<s[n]>>)
              /\ Reading(s)[n].mode = "word"
<1> DEFINE m == Reading(s)[n - 1]
<1>1. m \in States /\ s[n] \in Chars /\ Reading(s)[n] = Enter(m, s[n])
  BY NextRead
<1> HIDE DEF m
<1>2. CASE s[n] \notin Letters
  <2>1. Enter(m, s[n]).words = m.words /\ Enter(m, s[n]).mode = EnterMode(s[n])
    BY <1>1, <1>2, EnterType
  <2> QED
    BY <1>1, <1>2, <2>1 DEF m
<1>3. CASE s[n] \in Letters
  <2>1. Enter(m, s[n]).words = Append(m.words, <<s[n]>>) /\ Enter(m, s[n]).mode = "word"
    BY <1>1, <1>3, EnterType
  <2> QED
    BY <1>1, <1>3, <2>1 DEF m
<1> QED
  BY <1>2, <1>3

\* The same inside a comment or a literal.
LEMMA InsideStep ==
  ASSUME NEW s \in Seq(Chars), NEW n \in 1 .. Len(s),
         ~Fresh(Reading(s)[n - 1].mode, s[n]), Reading(s)[n - 1].mode # "word"
  PROVE  /\ Reading(s)[n].words = Reading(s)[n - 1].words
         /\ Reading(s)[n].mode = ModeAfter(Reading(s)[n - 1].mode, s[n])
<1> DEFINE m == Reading(s)[n - 1]
<1>1. m \in States /\ s[n] \in Chars /\ Reading(s)[n] = Read(m, s[n])
  BY NextRead
<1> HIDE DEF m
<1>2. Read(m, s[n]).words = m.words /\ Read(m, s[n]).mode = ModeAfter(m.mode, s[n])
  BY <1>1, ReadInside DEF m
<1> QED
  BY <1>1, <1>2 DEF m

\* The mode inside a literal.
Inside(q) == IF q = "sq" THEN "single" ELSE IF q = "dq" THEN "double" ELSE "back"

\* The automaton leaves a literal where tokenize does, and finds no words.
LEMMA LiteralRead ==
  ASSUME NEW s \in Seq(Chars), NEW q \in Quotes, NEW j \in 1 .. Len(s) + 1,
         Reading(s)[j - 1].mode = Inside(q)
  PROVE  LET e == LiteralEnd(s, q)[j]
         IN /\ e \in j .. Len(s) + 2
            /\ e > Len(s) => Reading(s)[Len(s)].words = Reading(s)[j - 1].words
            /\ e <= Len(s) => /\ Reading(s)[e - 1].words = Reading(s)[j - 1].words
                              /\ Fresh(Reading(s)[e - 1].mode, s[e])
<1> DEFINE N == Len(s)
           m == Reading(s)
           e == LiteralEnd(s, q)
           Ends(i) == /\ e[i] \in i .. N + 2
                      /\ e[i] > N => m[N].words = m[i - 1].words
                      /\ e[i] <= N => /\ m[e[i] - 1].words = m[i - 1].words
                                      /\ Fresh(m[e[i] - 1].mode, s[e[i]])
           S == {i \in Nat : m[i - 1].mode = Inside(q) => Ends(i)}
<1>0. N \in Nat
  OBVIOUS
<1>q. q \in {"sq", "dq", "bq"}
  BY DEF Quotes
<1>1. ASSUME NEW i \in 1 .. N + 1, \A k \in i + 1 .. N + 1 : k \in S, m[i - 1].mode = Inside(q)
      PROVE  Ends(i)
  <2>0. e[i] = IF i > N THEN i ELSE IF Hides(s, i, q) THEN e[i + 2]
               ELSE IF s[i] = q THEN i + 1 ELSE e[i + 1]
    <3>1. i \in 1 .. Len(s) + 2
      BY <1>0
    <3> QED
      BY <3>1, LiteralEndDef
  <2> HIDE DEF e, m
  <2>1. CASE i = N + 1
    BY <1>0, <2>0, <2>1
  <2>2. CASE i \in 1 .. N
    <3>1. /\ m[i - 1] \in States /\ m[i] \in States /\ s[i] \in Chars
          /\ m[i] = Read(m[i - 1], s[i])
      BY <2>2, NextRead DEF m
    <3>2. ~Fresh(m[i - 1].mode, s[i])
      BY <1>1 DEF Fresh, Inside
    <3>3. m[i].words = m[i - 1].words /\ m[i].mode = ModeAfter(Inside(q), s[i])
      <4>1. m[i - 1].mode # "word"
        BY <1>1 DEF Inside
      <4>2. /\ Read(m[i - 1], s[i]).words = m[i - 1].words
            /\ Read(m[i - 1], s[i]).mode = ModeAfter(m[i - 1].mode, s[i])
        BY <3>1, <3>2, <4>1, ReadInside
      <4>3. m[i - 1].mode = Inside(q)
        BY <1>1
      <4> QED
        BY <3>1, <4>2, <4>3
    <3>4. CASE ~Hides(s, i, q) /\ s[i] # q
      <4>1. m[i].mode = Inside(q) /\ e[i] = e[i + 1]
        BY <1>0, <1>q, <2>0, <2>2, <3>3, <3>4 DEF Inside, Hides, ModeAfter
      <4>2. i + 1 \in i + 1 .. N + 1 /\ (i + 1) - 1 = i
        BY <1>0, <2>2
      <4>3. Ends(i + 1)
        BY <1>1, <4>1, <4>2
      <4> QED
        BY <1>0, <2>2, <3>3, <4>1, <4>2, <4>3
    <3>5. CASE ~Hides(s, i, q) /\ s[i] = q
      <4>1. e[i] = i + 1 /\ (i + 1) - 1 = i
        BY <1>0, <2>0, <2>2, <3>5
      <4>2. i + 1 <= N => Fresh(m[i].mode, s[i + 1])
        BY <1>0, <1>q, <2>2, <3>3, <3>5 DEF Hides, Pair, Fresh, ModeAfter, Inside
      <4>3. i + 1 > N => i = N
        BY <1>0, <2>2
      <4>4. e[i] \in i .. N + 2 /\ m[e[i] - 1] = m[i] /\ s[e[i]] = s[i + 1]
        BY <1>0, <2>2, <4>1
      <4> QED
        BY <3>3, <4>1, <4>2, <4>3, <4>4
    <3>6. CASE Hides(s, i, q)
      <4>1. e[i] = e[i + 2] /\ q \in {"sq", "dq"} /\ m[i].mode \in {"closed", "hidden"}
        BY <1>0, <1>q, <2>0, <2>2, <3>3, <3>6 DEF Hides, Pair, ModeAfter, Inside
      <4>2. CASE i = N
        <5>1. e[i + 2] = i + 2
          <6>1. i + 2 \in 1 .. Len(s) + 2 /\ i + 2 > Len(s)
            BY <1>0, <4>2
          <6> QED
            BY <6>1, LiteralEndDef DEF e
        <5> QED
          BY <1>0, <3>3, <4>1, <4>2, <5>1
      <4>3. CASE i + 1 \in 1 .. N
        <5>0. (i + 1) - 1 = i /\ (i + 2) - 1 = i + 1 /\ i + 2 \in i + 1 .. N + 1
          BY <1>0, <2>2, <4>3
        <5>1. /\ m[i] \in States /\ m[i + 1] \in States /\ s[i + 1] \in Chars
              /\ m[i + 1] = Read(m[i], s[i + 1])
          BY <4>3, <5>0, NextRead DEF m
        <5>2. ~Fresh(m[i].mode, s[i + 1])
          BY <1>q, <3>3, <3>6 DEF Fresh, Hides, Pair, ModeAfter, Inside
        <5>3. m[i + 1].words = m[i].words /\ m[i + 1].mode = Inside(q)
          <6>1. m[i + 1].words = m[i].words /\ m[i + 1].mode = ModeAfter(m[i].mode, s[i + 1])
            BY <4>1, <5>1, <5>2, ReadInside
          <6> QED
            BY <1>q, <3>3, <3>6, <6>1 DEF Hides, Pair, Inside, ModeAfter
        <5>4. Ends(i + 2)
          BY <1>1, <5>0, <5>3
        <5> QED
          BY <1>0, <2>2, <3>3, <4>1, <5>0, <5>3, <5>4
      <4> QED
        BY <1>0, <2>2, <4>2, <4>3
    <3> QED
      BY <3>4, <3>5, <3>6
  <2> QED
    BY <1>0, <2>1, <2>2
<1>2. \A i \in 1 .. N + 1 : i \in S
  <2>1. \A i \in 1 .. N + 1 : (\A k \in i + 1 .. N + 1 : k \in S) => i \in S
    BY <1>0, <1>1
  <2>2. N + 1 \in Nat
    BY <1>0
  <2> HIDE DEF S, N
  <2> QED
    BY <2>1, <2>2, InductDown
<1> QED
  BY <1>2
\* From the "--" at p the automaton reads a comment up to the end of the line.
LEMMA LineRead ==
  ASSUME NEW s \in Seq(Chars), NEW p \in 1 .. Len(s), Pair(s, p, "-", "-"),
         Fresh(Reading(s)[p - 1].mode, s[p]),
         NEW k \in p + 2 .. Len(s) + 1, \A i \in p + 2 .. k - 1 : s[i] # "nl"
  PROVE  /\ Reading(s)[k - 1].words = Reading(s)[p - 1].words
         /\ k <= Len(s) /\ s[k] = "nl" =>
              /\ Reading(s)[k].words = Reading(s)[p - 1].words
              /\ Reading(s)[k].mode = "code"
<1> DEFINE m == Reading(s)
           w == m[p - 1].words
           S == {i \in Nat : m[i].mode = "line" /\ m[i].words = w}
<1>0. Len(s) \in Nat /\ p + 1 \in 1 .. Len(s) /\ s[p] = "-" /\ s[p + 1] = "-"
  BY DEF Pair
<1>1. m[p].mode = "dash" /\ m[p].words = w
  <2>1. s[p] \notin Letters /\ EnterMode(s[p]) = "dash"
    BY <1>0 DEF Letters, EnterMode
  <2> QED
    BY <2>1, FreshStep
<1>s. ASSUME NEW i \in 1 .. Len(s), ~Fresh(m[i - 1].mode, s[i]), m[i - 1].mode # "word"
      PROVE  m[i].words = m[i - 1].words /\ m[i].mode = ModeAfter(m[i - 1].mode, s[i])
  BY <1>s, InsideStep
<1>2. p + 1 \in S
  <2>1. (p + 1) - 1 = p
    OBVIOUS
  <2>2. m[p + 1].words = m[p].words /\ m[p + 1].mode = ModeAfter(m[p].mode, s[p + 1])
    BY <1>0, <1>1, <1>s, <2>1 DEF Fresh
  <2> QED
    BY <1>1, <2>2 DEF ModeAfter
<1>n. ASSUME NEW i \in p + 1 .. k - 1, i \in S, i + 1 <= Len(s)
      PROVE  /\ m[i + 1].words = w
             /\ m[i + 1].mode = IF s[i + 1] = "nl" THEN "code" ELSE "line"
  <2>1. (i + 1) - 1 = i /\ i + 1 \in 1 .. Len(s)
    BY <1>0, <1>n
  <2>2. m[i + 1].words = m[i].words /\ m[i + 1].mode = ModeAfter(m[i].mode, s[i + 1])
    BY <1>n, <1>s, <2>1 DEF Fresh
  <2> QED
    BY <1>n, <2>2 DEF ModeAfter
<1>3. \A i \in p + 1 .. k - 1 : i \in S
  <2>1. \A i \in p + 1 .. (k - 1) - 1 : i \in S => i + 1 \in S
    BY <1>0, <1>n
  <2>2. p + 1 \in Nat /\ k - 1 \in Nat
    BY <1>0
  <2> HIDE DEF S
  <2> QED
    BY <1>2, <2>1, <2>2, InductUp
<1>4. k - 1 \in S /\ k - 1 \in p + 1 .. k - 1 /\ (k - 1) + 1 = k
  BY <1>0, <1>3
<1> QED
  BY <1>4, <1>n
\* From the "/*" at p it reads a comment up to the first "*/" after it.
LEMMA BlockRead ==
  ASSUME NEW s \in Seq(Chars), NEW p \in 1 .. Len(s), Pair(s, p, "/", "*"),
         Fresh(Reading(s)[p - 1].mode, s[p]),
         NEW k \in p + 2 .. Len(s) + 1,
         \A i \in p + 2 .. k - 1 : ~Pair(s, i, "*", "/")
  PROVE  /\ k = Len(s) + 1 => Reading(s)[Len(s)].words = Reading(s)[p - 1].words
         /\ Pair(s, k, "*", "/") =>
              /\ Reading(s)[k + 1].words = Reading(s)[p - 1].words
              /\ Reading(s)[k + 1].mode = "code"
<1> DEFINE m == Reading(s)
           w == m[p - 1].words
           S == {i \in Nat : /\ m[i].words = w
                             /\ m[i].mode = IF i >= p + 2 /\ s[i] = "*" THEN "star" ELSE "block"}
<1>0. Len(s) \in Nat /\ p + 1 \in 1 .. Len(s) /\ s[p] = "/" /\ s[p + 1] = "*"
  BY DEF Pair
<1>1. m[p].mode = "slash" /\ m[p].words = w
  <2>1. s[p] \notin Letters /\ EnterMode(s[p]) = "slash"
    BY <1>0 DEF Letters, EnterMode
  <2> QED
    BY <2>1, FreshStep
<1>s. ASSUME NEW i \in 1 .. Len(s), ~Fresh(m[i - 1].mode, s[i]), m[i - 1].mode # "word"
      PROVE  m[i].words = m[i - 1].words /\ m[i].mode = ModeAfter(m[i - 1].mode, s[i])
  BY <1>s, InsideStep
<1>2. p + 1 \in S
  <2>1. (p + 1) - 1 = p /\ ~(p + 1 >= p + 2)
    OBVIOUS
  <2>2. m[p + 1].words = m[p].words /\ m[p + 1].mode = ModeAfter(m[p].mode, s[p + 1])
    BY <1>0, <1>1, <1>s, <2>1 DEF Fresh
  <2> QED
    BY <1>0, <1>1, <2>1, <2>2 DEF ModeAfter
<1>n. ASSUME NEW i \in p + 1 .. Len(s), i \in S, i + 1 <= Len(s)
      PROVE  /\ m[i + 1].words = w
             /\ i >= p + 2 /\ Pair(s, i, "*", "/") => m[i + 1].mode = "code"
             /\ i = p + 1 \/ ~Pair(s, i, "*", "/") => i + 1 \in S
  <2>1. (i + 1) - 1 = i /\ i + 1 \in 1 .. Len(s) /\ i + 1 >= p + 2 /\ i + 1 \in Nat /\ i \in Nat
    BY <1>0, <1>n
  <2>2. m[i].mode \in {"star", "block"} /\ m[i].words = w
    BY <1>n
  <2>3. m[i + 1].words = w /\ m[i + 1].mode = ModeAfter(m[i].mode, s[i + 1])
    BY <1>s, <2>1, <2>2 DEF Fresh
  <2>4. i >= p + 2 /\ Pair(s, i, "*", "/") => m[i + 1].mode = "code"
    BY <1>n, <2>3 DEF ModeAfter, Pair
  <2>5. ASSUME i = p + 1 \/ ~Pair(s, i, "*", "/")
        PROVE  m[i + 1].mode = IF s[i + 1] = "*" THEN "star" ELSE "block"
    <3>1. CASE i >= p + 2 /\ s[i] = "*"
      <4>1. s[i + 1] # "/"
        BY <1>n, <2>1, <2>5, <3>1 DEF Pair
      <4> QED
        BY <1>n, <2>3, <3>1, <4>1 DEF ModeAfter
    <3>2. CASE ~(i >= p + 2 /\ s[i] = "*")
      BY <1>n, <2>3, <3>2 DEF ModeAfter
    <3> QED
      BY <3>1, <3>2
  <2> QED
    BY <2>1, <2>3, <2>4, <2>5
<1>3. \A i \in p + 1 .. k - 1 : i \in S
  <2>1. \A i \in p + 1 .. (k - 1) - 1 : i \in S => i + 1 \in S
    <3> SUFFICES ASSUME NEW i \in p + 1 .. (k - 1) - 1, i \in S PROVE i + 1 \in S
      OBVIOUS
    <3>1. i \in p + 1 .. Len(s) /\ i + 1 <= Len(s) /\ (i = p + 1 \/ i \in p + 2 .. k - 1)
      BY <1>0
    <3> HIDE DEF S
    <3> QED
      BY <1>n, <3>1
  <2>2. p + 1 \in Nat /\ k - 1 \in Nat
    BY <1>0
  <2> HIDE DEF S
  <2> QED
    BY <1>2, <2>1, <2>2, InductUp
<1>4. k - 1 \in S /\ k - 1 \in p + 1 .. k - 1 /\ (k - 1) + 1 = k
  BY <1>0, <1>3
<1>5. k = Len(s) + 1 => m[Len(s)].words = w
  <2>1. k = Len(s) + 1 => k - 1 = Len(s)
    BY <1>0
  <2> QED
    BY <1>4, <2>1
<1>6. ASSUME Pair(s, k, "*", "/") PROVE m[k + 1].words = w /\ m[k + 1].mode = "code"
  <2>1. k \in p + 1 .. Len(s) /\ k + 1 <= Len(s) /\ k >= p + 2
    BY <1>0, <1>6 DEF Pair
  <2>2. k - 1 \in p + 1 .. Len(s) /\ (k - 1 = p + 1 \/ k - 1 \in p + 2 .. k - 1)
    BY <1>0, <2>1
  <2>3. k \in S
    <3> HIDE DEF S
    <3> QED
      BY <1>n, <1>4, <2>1, <2>2
  <2> HIDE DEF S
  <2> QED
    BY <1>6, <1>n, <2>1, <2>3
<1> QED
  BY <1>5, <1>6

\* Through a number it stays in code.
LEMMA NumberRead ==
  ASSUME NEW s \in Seq(Chars), NEW p \in 1 .. Len(s), Fresh(Reading(s)[p - 1].mode, s[p]),
         NEW k \in p + 1 .. Len(s) + 1, \A i \in p .. k - 1 : s[i] \in Digits
  PROVE  /\ Reading(s)[k - 1].words = Reading(s)[p - 1].words
         /\ Reading(s)[k - 1].mode = "code"
<1> DEFINE m == Reading(s)
           w == m[p - 1].words
           S == {i \in Nat : m[i].mode = "code" /\ m[i].words = w}
<1>0. Len(s) \in Nat
  OBVIOUS
<1>d. ASSUME NEW c \in Digits PROVE c \notin Letters /\ EnterMode(c) = "code"
  BY <1>d DEF Digits, Letters, EnterMode
<1>1. p \in S
  <2>1. s[p] \in Digits
    BY <1>0
  <2>2. m[p].mode = "code" /\ m[p].words = w
    BY <1>d, <2>1, FreshStep
  <2> QED
    BY <2>2
<1>2. ASSUME NEW i \in p .. (k - 1) - 1, i \in S PROVE i + 1 \in S
  <2>1. (i + 1) - 1 = i /\ i + 1 \in 1 .. Len(s) /\ i + 1 \in p .. k - 1
    BY <1>0
  <2>2. Fresh(m[(i + 1) - 1].mode, s[i + 1])
    BY <1>2, <2>1 DEF Fresh
  <2>3. s[i + 1] \in Digits
    BY <2>1
  <2>4. m[i + 1].words = m[(i + 1) - 1].words /\ m[i + 1].mode = "code"
    BY <1>d, <2>1, <2>2, <2>3, FreshStep
  <2> QED
    BY <1>2, <2>1, <2>4
<1>3. k - 1 \in S
  <2>1. p \in Nat /\ k - 1 \in Nat /\ k - 1 \in p .. k - 1
    BY <1>0
  <2> HIDE DEF S
  <2> QED
    BY <1>1, <1>2, <2>1, InductUp
<1> QED
  BY <1>3

\* A part of one character.
LEMMA SubSeqOne ==
  ASSUME NEW s \in Seq(Chars), NEW p \in 1 .. Len(s)
  PROVE  SubSeq(s, p, p) = <<s[p]>>
<1>1. SubSeq(s, p, p) = SubSeq(s, p, p - 1) \o <<s[p]>>
  <2>1. p \in p .. Len(s)
    OBVIOUS
  <2> QED
    BY <2>1, SubSeqRecursiveSecond
<1>2. SubSeq(s, p, p - 1) = <<>>
  <2>1. p \in Int /\ p - 1 \in Int /\ p - 1 < p
    OBVIOUS
  <2> QED
    BY <2>1, SubSeqEmpty
<1>3. <<s[p]>> \in Seq(Chars)
  OBVIOUS
<1> QED
  BY <1>1, <1>2, <1>3, ConcatEmptySeq

\* Through a word it collects the word.
LEMMA WordRead ==
  ASSUME NEW s \in Seq(Chars), NEW p \in 1 .. Len(s), Fresh(Reading(s)[p - 1].mode, s[p]),
         s[p] \in Letters,
         NEW k \in p + 1 .. Len(s) + 1, \A i \in p .. k - 1 : s[i] \in Letters \cup Digits
  PROVE  /\ Reading(s)[k - 1].words
              = Append(Reading(s)[p - 1].words, SubSeq(s, p, k - 1))
         /\ Reading(s)[k - 1].mode = "word"
<1> DEFINE m == Reading(s)
           w == m[p - 1].words
           S == {i \in Nat : m[i].mode = "word" /\ m[i].words = Append(w, SubSeq(s, p, i))}
<1>0. Len(s) \in Nat /\ w \in Seq(Seq(Chars))
  <2>1. p - 1 \in 0 .. Len(s)
    OBVIOUS
  <2> QED
    BY <2>1, ReadingType DEF States
<1>1. p \in S
  <2>1. m[p].mode = "word" /\ m[p].words = Append(w, <<s[p]>>)
    BY FreshStep
  <2>2. SubSeq(s, p, p) = <<s[p]>>
    BY SubSeqOne
  <2> QED
    BY <2>1, <2>2
<1>2. ASSUME NEW i \in p .. (k - 1) - 1, i \in S PROVE i + 1 \in S
  <2>1. (i + 1) - 1 = i /\ i + 1 \in 1 .. Len(s) /\ i + 1 \in p .. k - 1 /\ i \in Nat
        /\ i + 1 \in p .. Len(s)
    BY <1>0
  <2>2. m[i].mode = "word" /\ ~Fresh(m[i].mode, s[i + 1])
    BY <1>2, <2>1 DEF Fresh
  <2>3. m[i] \in States /\ s[i + 1] \in Chars /\ m[i + 1] = Read(m[i], s[i + 1])
    BY <2>1, NextRead
  <2>4. /\ Read(m[i], s[i + 1]).mode = "word"
        /\ Read(m[i], s[i + 1]).words
             = [m[i].words EXCEPT ![Len(m[i].words)] = Append(@, s[i + 1])]
    <3> HIDE DEF m
    <3> QED
      BY <2>2, <2>3, ReadInside
  <2> DEFINE t == SubSeq(s, p, i)
             u == SubSeq(s, p, i + 1)
  <2>5. t \in Seq(Chars) /\ u \in Seq(Chars) /\ u = Append(t, s[i + 1])
    <3>1. \A j \in p .. i : s[j] \in Chars
      BY <2>1
    <3>2. t \in Seq(Chars)
      BY <2>1, <3>1, SubSeqProperties
    <3>3. u = SubSeq(s, p, (i + 1) - 1) \o <<s[i + 1]>>
      BY <2>1, SubSeqRecursiveSecond
    <3>4. Append(t, s[i + 1]) = t \o <<s[i + 1]>>
      BY <2>3, <3>2, AppendIsConcat
    <3>5. Append(t, s[i + 1]) \in Seq(Chars)
      BY <2>3, <3>2
    <3> QED
      BY <2>1, <3>2, <3>3, <3>4, <3>5
  <2>6. m[i].words = Append(w, t)
    BY <1>2
  <2> HIDE DEF m, w, t, u
  <2>7. [Append(w, t) EXCEPT ![Len(Append(w, t))] = Append(@, s[i + 1])] = Append(w, u)
    <3> DEFINE n == Len(w) + 1
               x == Append(w, t)
               y == [x EXCEPT ![n] = u]
    <3>1. /\ x \in Seq(Seq(Chars)) /\ Len(x) = n /\ x[n] = t /\ n \in Nat
          /\ \A j \in 1 .. Len(w) : x[j] = w[j]
      BY <1>0, <2>5
    <3>2. /\ Append(w, u) \in Seq(Seq(Chars)) /\ Len(Append(w, u)) = n
          /\ Append(w, u)[n] = u /\ \A j \in 1 .. Len(w) : Append(w, u)[j] = w[j]
      BY <1>0, <2>5
    <3> HIDE DEF x
    <3>3. n \in 1 .. Len(x)
      BY <1>0, <3>1
    <3>4. /\ y \in Seq(Seq(Chars)) /\ Len(y) = n
          /\ \A j \in 1 .. n : y[j] = IF j = n THEN u ELSE x[j]
      BY <2>5, <3>1, <3>3, ExceptSeq
    <3>5. [x EXCEPT ![Len(x)] = Append(@, s[i + 1])] = y
      BY <2>5, <3>1
    <3> HIDE DEF y
    <3>6. ASSUME NEW j \in 1 .. n PROVE y[j] = Append(w, u)[j]
      <4>1. CASE j = n
        BY <3>2, <3>4, <4>1
      <4>2. CASE j # n
        <5>1. j \in 1 .. Len(w)
          BY <1>0, <4>2
        <5>2. y[j] = x[j]
          BY <3>4, <4>2
        <5> QED
          BY <3>1, <3>2, <5>1, <5>2
      <4> QED
        BY <4>1, <4>2
    <3>7. y = Append(w, u)
      BY <3>2, <3>4, <3>6, SeqEqual
    <3> QED
      BY <3>5, <3>7 DEF x
  <2>8. m[i + 1].mode = "word" /\ m[i + 1].words = Append(w, u)
    BY <2>3, <2>4, <2>6, <2>7
  <2>9. i + 1 \in Nat /\ u = SubSeq(s, p, i + 1)
    BY <2>1 DEF u
  <2> QED
    BY <2>8, <2>9
<1>3. k - 1 \in S
  <2>1. p \in Nat /\ k - 1 \in Nat /\ k - 1 \in p .. k - 1
    BY <1>0
  <2> HIDE DEF S
  <2> QED
    BY <1>1, <1>2, <2>1, InductUp
<1> QED
  BY <1>3
-----------------------------------------------------------------------------
(* tokenize against the automaton.                                         *)

\* FirstOf is the least position of a set, or the end.
LEMMA FirstOfIsLeast ==
  ASSUME text \in Seq(Chars), NEW P \in SUBSET (1 .. Len(text))
  PROVE  /\ FirstOf(P) \in 1 .. Len(text) + 1
         /\ FirstOf(P) <= Len(text) => FirstOf(P) \in P
         /\ \A i \in P : FirstOf(P) <= i
<1>0. Len(text) \in Nat
  OBVIOUS
<1>1. CASE P = {}
  BY <1>0, <1>1 DEF FirstOf
<1>2. CASE P # {}
  <2>1. P \in SUBSET Nat
    OBVIOUS
  <2>2. \E k \in P : \A j \in P : k <= j
    BY <1>2, <2>1, LeastNumber
  <2>3. FirstOf(P) \in P /\ \A j \in P : FirstOf(P) <= j
    BY <1>2, <2>2 DEF FirstOf
  <2>4. FirstOf(P) \in 1 .. Len(text)
    BY <2>3
  <2> QED
    BY <1>0, <2>3, <2>4
<1> QED
  BY <1>1, <1>2

\* What StartsAnew and WordsAgree say of the next position.
LandsAt(e) ==
  /\ e \in 1 .. Len(text) + 2
  /\ e > Len(text) => Reading(text)[Len(text)].words = Reading(text)[pos - 1].words
  /\ e <= Len(text) => /\ Reading(text)[e - 1].words = Reading(text)[pos - 1].words
                       /\ Fresh(Reading(text)[e - 1].mode, text[e])

\* The inductive invariant of tokenize.
AgreeInv == TypeOK /\ WordsAgree /\ StartsAnew

\* A turn that finds no word keeps the agreement if it lands well.
LEMMA SkipAgrees ==
  ASSUME AgreeInv, More, NEW e, LandsAt(e), Skip(e)
  PROVE  AgreeInv'
<1>1. text' = text /\ words' = words /\ pos' = e
  BY DEF Skip
<1>2. words = Reading(text)[pos - 1].words
  BY DEF AgreeInv, TypeOK, WordsAgree, More
<1>3. TypeOK'
  BY <1>1 DEF AgreeInv, TypeOK, LandsAt
<1>4. WordsAgree'
  BY <1>1, <1>2 DEF WordsAgree, LandsAt, AgreeInv, TypeOK
<1>5. StartsAnew'
  BY <1>1 DEF StartsAnew, More, Here, LandsAt
<1> QED
  BY <1>3, <1>4, <1>5 DEF AgreeInv

\* A turn for one character that begins nothing.
LEMMA OneAgrees ==
  ASSUME AgreeInv, Blank \/ Other
  PROVE  AgreeInv'
<1>1. More /\ Skip(pos + 1) /\ Here \notin Letters \cup Digits \cup Quotes
  BY DEF Blank, Other, Blanks, Letters, Digits, Quotes
<1>0. text \in Seq(Chars) /\ pos \in 1 .. Len(text) /\ Len(text) \in Nat
  BY <1>1 DEF AgreeInv, TypeOK, More
<1>2. Fresh(Reading(text)[pos - 1].mode, text[pos])
  BY <1>1 DEF AgreeInv, StartsAnew, Here
<1>3. /\ Reading(text)[pos].words = Reading(text)[pos - 1].words
      /\ Reading(text)[pos].mode = EnterMode(text[pos])
  BY <1>0, <1>1, <1>2, FreshStep DEF Here
<1>4. ASSUME pos + 1 <= Len(text) PROVE Fresh(EnterMode(text[pos]), text[pos + 1])
  <2>1. ~Pair(text, pos, "-", "-") /\ ~Pair(text, pos, "/", "*")
    BY DEF Blank, Other, Here, Blanks, Pair
  <2>2. text[pos] \in Chars \ Quotes
    BY <1>0, <1>1 DEF Here
  <2> QED
    BY <1>0, <1>4, <2>1, <2>2 DEF Fresh, EnterMode, Pair, Quotes
<1>5. LandsAt(pos + 1)
  <2>1. (pos + 1) - 1 = pos /\ (pos + 1 > Len(text) => pos = Len(text))
    BY <1>0
  <2>2. pos + 1 \in 1 .. Len(text) + 2
    BY <1>0
  <2> QED
    BY <1>3, <1>4, <2>1, <2>2 DEF LandsAt
<1> QED
  BY <1>1, <1>5, SkipAgrees

\* A turn for a literal.
LEMMA QuotedAgrees ==
  ASSUME AgreeInv, More, NEW q \in Quotes, Here = q,
         Skip(LiteralEnd(text, q)[pos + 1])
  PROVE  AgreeInv'
<1>0. text \in Seq(Chars) /\ pos \in 1 .. Len(text) /\ Len(text) \in Nat /\ text[pos] = q
  BY DEF AgreeInv, TypeOK, More, Here
<1>1. Fresh(Reading(text)[pos - 1].mode, text[pos])
  BY DEF AgreeInv, StartsAnew, Here
<1>2. text[pos] \notin Letters /\ EnterMode(text[pos]) = Inside(q)
  BY <1>0 DEF Quotes, Letters, EnterMode, Inside
<1>3. /\ Reading(text)[pos].words = Reading(text)[pos - 1].words
      /\ Reading(text)[pos].mode = Inside(q)
  BY <1>0, <1>1, <1>2, FreshStep
<1> DEFINE e == LiteralEnd(text, q)[pos + 1]
<1>4. (pos + 1) - 1 = pos /\ pos + 1 \in 1 .. Len(text) + 1
  BY <1>0
<1>5. /\ e \in pos + 1 .. Len(text) + 2
      /\ e > Len(text) => Reading(text)[Len(text)].words = Reading(text)[pos].words
      /\ e <= Len(text) => /\ Reading(text)[e - 1].words = Reading(text)[pos].words
                           /\ Fresh(Reading(text)[e - 1].mode, text[e])
  BY <1>0, <1>3, <1>4, LiteralRead
<1> HIDE DEF e
<1>6. LandsAt(e)
  BY <1>0, <1>3, <1>5 DEF LandsAt
<1> QED
  BY <1>6, SkipAgrees DEF e

\* A turn for a comment up to the end of the line.
LEMMA LineAgrees ==
  ASSUME AgreeInv, LineComment
  PROVE  AgreeInv'
<1> DEFINE P == {k \in pos + 1 .. Len(text) : text[k] = "nl"}
           k == FirstOf(P)
<1>0. text \in Seq(Chars) /\ pos \in 1 .. Len(text) /\ Len(text) \in Nat /\ More
  BY DEF AgreeInv, TypeOK, More, LineComment
<1>1. Fresh(Reading(text)[pos - 1].mode, text[pos])
  BY <1>0 DEF AgreeInv, StartsAnew, Here
<1>2. Pair(text, pos, "-", "-") /\ Skip(Past(k))
  BY DEF LineComment
<1>3. P \in SUBSET (1 .. Len(text)) /\ pos + 1 \notin P
  BY <1>0, <1>2 DEF Pair
<1>4. /\ k \in 1 .. Len(text) + 1 /\ (k <= Len(text) => k \in P)
      /\ \A i \in P : k <= i
  <2> HIDE DEF P
  <2> QED
    BY <1>0, <1>3, FirstOfIsLeast
<1> HIDE DEF k
<1>5. k \in pos + 2 .. Len(text) + 1
  <2>1. pos + 2 <= Len(text) + 1
    BY <1>0, <1>2 DEF Pair
  <2> QED
    BY <1>0, <1>3, <1>4, <2>1
<1>6. \A i \in pos + 2 .. k - 1 : text[i] # "nl"
  BY <1>0, <1>4, <1>5
<1>7. /\ Reading(text)[k - 1].words = Reading(text)[pos - 1].words
      /\ k <= Len(text) /\ text[k] = "nl" =>
           /\ Reading(text)[k].words = Reading(text)[pos - 1].words
           /\ Reading(text)[k].mode = "code"
  BY <1>0, <1>1, <1>2, <1>5, <1>6, LineRead
<1>8. LandsAt(Past(k))
  <2>1. CASE k <= Len(text)
    <3>1. Past(k) = k + 1 /\ (k + 1) - 1 = k /\ text[k] = "nl"
          /\ (k + 1 > Len(text) => Len(text) = k) /\ k + 1 \in 1 .. Len(text) + 2
      BY <1>0, <1>4, <1>5, <2>1 DEF Past
    <3> QED
      BY <1>7, <2>1, <3>1 DEF LandsAt, Fresh
  <2>2. CASE k = Len(text) + 1
    <3>1. Past(k) = k /\ k - 1 = Len(text) /\ k > Len(text) /\ k \in 1 .. Len(text) + 2
      BY <1>0, <2>2 DEF Past
    <3> QED
      BY <1>7, <3>1 DEF LandsAt
  <2> QED
    BY <1>0, <1>5, <2>1, <2>2
<1> QED
  BY <1>0, <1>2, <1>8, SkipAgrees

\* A turn for a block comment.
LEMMA BlockAgrees ==
  ASSUME AgreeInv, BlockComment
  PROVE  AgreeInv'
<1> DEFINE P == {k \in pos + 2 .. Len(text) : Pair(text, k, "*", "/")}
           k == FirstOf(P)
<1>0. text \in Seq(Chars) /\ pos \in 1 .. Len(text) /\ Len(text) \in Nat /\ More
  BY DEF AgreeInv, TypeOK, More, BlockComment
<1>1. Fresh(Reading(text)[pos - 1].mode, text[pos])
  BY <1>0 DEF AgreeInv, StartsAnew, Here
<1>2. Pair(text, pos, "/", "*") /\ Skip(Past(Past(k)))
  BY DEF BlockComment
<1>3. P \in SUBSET (1 .. Len(text))
  BY <1>0
<1>4. /\ k \in 1 .. Len(text) + 1 /\ (k <= Len(text) => k \in P)
      /\ \A i \in P : k <= i
  <2> HIDE DEF P
  <2> QED
    BY <1>0, <1>3, FirstOfIsLeast
<1> HIDE DEF k
<1>5. k \in pos + 2 .. Len(text) + 1
  <2>1. pos + 2 <= Len(text) + 1
    BY <1>0, <1>2 DEF Pair
  <2> QED
    BY <1>0, <1>3, <1>4, <2>1
<1>6. \A i \in pos + 2 .. k - 1 : ~Pair(text, i, "*", "/")
  BY <1>0, <1>4, <1>5
<1>7. /\ k = Len(text) + 1 => Reading(text)[Len(text)].words = Reading(text)[pos - 1].words
      /\ Pair(text, k, "*", "/") =>
           /\ Reading(text)[k + 1].words = Reading(text)[pos - 1].words
           /\ Reading(text)[k + 1].mode = "code"
  BY <1>0, <1>1, <1>2, <1>5, <1>6, BlockRead
<1>8. LandsAt(Past(Past(k)))
  <2>1. CASE k <= Len(text)
    <3>1. Pair(text, k, "*", "/") /\ k + 1 <= Len(text)
      BY <1>4, <2>1 DEF Pair
    <3>2. Past(Past(k)) = k + 2 /\ (k + 2) - 1 = k + 1
          /\ (k + 2 > Len(text) => Len(text) = k + 1) /\ k + 2 \in 1 .. Len(text) + 2
      BY <1>0, <1>5, <2>1, <3>1 DEF Past
    <3> QED
      BY <1>7, <3>1, <3>2 DEF LandsAt, Fresh
  <2>2. CASE k = Len(text) + 1
    <3>1. Past(Past(k)) = k /\ k > Len(text) /\ k \in 1 .. Len(text) + 2
      BY <1>0, <2>2 DEF Past
    <3> QED
      BY <1>7, <2>2, <3>1 DEF LandsAt
  <2> QED
    BY <1>0, <1>5, <2>1, <2>2
<1> QED
  BY <1>0, <1>2, <1>8, SkipAgrees

\* A turn for a number.
LEMMA NumberAgrees ==
  ASSUME AgreeInv, Number
  PROVE  AgreeInv'
<1> DEFINE P == {k \in pos .. Len(text) : text[k] \notin Digits}
           k == FirstOf(P)
<1>0. text \in Seq(Chars) /\ pos \in 1 .. Len(text) /\ Len(text) \in Nat /\ More
  BY DEF AgreeInv, TypeOK, More, Number
<1>1. Fresh(Reading(text)[pos - 1].mode, text[pos])
  BY <1>0 DEF AgreeInv, StartsAnew, Here
<1>2. text[pos] \in Digits /\ Skip(k)
  BY DEF Number, Here
<1>3. P \in SUBSET (1 .. Len(text))
  BY <1>0
<1>4. /\ k \in 1 .. Len(text) + 1 /\ (k <= Len(text) => k \in P)
      /\ \A i \in P : k <= i
  <2> HIDE DEF P
  <2> QED
    BY <1>0, <1>3, FirstOfIsLeast
<1> HIDE DEF k
<1>5. k \in pos + 1 .. Len(text) + 1
  BY <1>0, <1>2, <1>4
<1>6. \A i \in pos .. k - 1 : text[i] \in Digits
  BY <1>0, <1>4, <1>5
<1>7. /\ Reading(text)[k - 1].words = Reading(text)[pos - 1].words
      /\ Reading(text)[k - 1].mode = "code"
  BY <1>0, <1>1, <1>5, <1>6, NumberRead
<1>8. k \in 1 .. Len(text) + 2 /\ (k > Len(text) => k - 1 = Len(text))
  BY <1>0, <1>5
<1>9. LandsAt(k)
  BY <1>7, <1>8 DEF LandsAt, Fresh
<1> QED
  BY <1>0, <1>2, <1>9, SkipAgrees

\* A turn for a word: tokenize appends it, the automaton has collected it.
LEMMA WordAgrees ==
  ASSUME AgreeInv, Word
  PROVE  AgreeInv'
<1> DEFINE P == {k \in pos .. Len(text) : text[k] \notin Letters \cup Digits}
           k == FirstOf(P)
<1>0. /\ text \in Seq(Chars) /\ pos \in 1 .. Len(text) /\ Len(text) \in Nat /\ More
      /\ words = Reading(text)[pos - 1].words /\ words \in Seq(Seq(Chars))
  BY DEF AgreeInv, TypeOK, More, Word, WordsAgree
<1>1. Fresh(Reading(text)[pos - 1].mode, text[pos])
  BY <1>0 DEF AgreeInv, StartsAnew, Here
<1>2. /\ text[pos] \in Letters /\ pos' = k /\ text' = text
      /\ words' = Append(words, SubSeq(text, pos, k - 1))
  BY DEF Word, Here
<1>3. P \in SUBSET (1 .. Len(text))
  BY <1>0
<1>4. /\ k \in 1 .. Len(text) + 1 /\ (k <= Len(text) => k \in P)
      /\ \A i \in P : k <= i
  <2> HIDE DEF P
  <2> QED
    BY <1>0, <1>3, FirstOfIsLeast
<1> HIDE DEF k
<1>5. k \in pos + 1 .. Len(text) + 1
  BY <1>0, <1>2, <1>4
<1>6. \A i \in pos .. k - 1 : text[i] \in Letters \cup Digits
  BY <1>0, <1>4, <1>5
<1>7. /\ Reading(text)[k - 1].words = Append(Reading(text)[pos - 1].words, SubSeq(text, pos, k - 1))
      /\ Reading(text)[k - 1].mode = "word"
  BY <1>0, <1>1, <1>2, <1>5, <1>6, WordRead
<1>8. k \in 1 .. Len(text) + 2 /\ (k > Len(text) => k - 1 = Len(text))
  <2>1. pos \in 1 .. Len(text) /\ Len(text) \in Nat
    BY <1>0
  <2> QED
    BY <1>5, <2>1
<1>9. words' = Reading(text)[k - 1].words /\ words' \in Seq(Seq(Chars))
  <2>1. k - 1 \in 0 .. Len(text)
    BY <1>0, <1>5
  <2>2. Reading(text)[k - 1].words \in Seq(Seq(Chars))
    BY <1>0, <2>1, ReadingType DEF States
  <2> QED
    BY <1>0, <1>2, <1>7, <2>2
<1>10. TypeOK'
  BY <1>0, <1>2, <1>8, <1>9 DEF TypeOK
<1>11. WordsAgree'
  BY <1>2, <1>8, <1>9 DEF WordsAgree
<1>12. StartsAnew'
  <2>1. k <= Len(text) => text[k] \notin Letters \cup Digits
    BY <1>4
  <2> QED
    BY <1>2, <1>7, <2>1 DEF StartsAnew, More, Here, Fresh
<1> QED
  BY <1>10, <1>11, <1>12 DEF AgreeInv
\* Every turn of tokenize's loop keeps the agreement.
LEMMA NextAgrees ==
  ASSUME AgreeInv, [Next]_vars
  PROVE  AgreeInv'
<1>1. ASSUME SingleQuoted \/ DoubleQuoted \/ BackQuoted PROVE AgreeInv'
  BY <1>1, QuotedAgrees DEF SingleQuoted, DoubleQuoted, BackQuoted, Quotes
<1>2. CASE UNCHANGED vars
  BY <1>2 DEF vars, AgreeInv, TypeOK, WordsAgree, StartsAnew, More, Here
<1> QED
  BY <1>1, <1>2, OneAgrees, LineAgrees, BlockAgrees, NumberAgrees, WordAgrees DEF Next

\* A text is a sequence of characters, and at its start nothing was read.
LEMMA InitAgrees == Init => AgreeInv
<1> SUFFICES ASSUME Init PROVE AgreeInv
  OBVIOUS
<1>1. PICK A \in Alphabets, n \in 0 .. MaxLen : text \in [1 .. n -> A]
  BY DEF Init
<1>2. A \subseteq Chars /\ n \in Nat
  BY TextAssumption
<1>3. text \in [1 .. n -> Chars]
  BY <1>1, <1>2
<1>4. text \in Seq(Chars)
  BY <1>2, <1>3, SeqDef
<1>5. pos = 1 /\ words = <<>> /\ Len(text) \in Nat
  BY <1>4 DEF Init
<1>6. Reading(text)[0] = [mode |-> "code", words |-> <<>>]
  BY <1>4, ReadingDef
<1>7. TypeOK
  BY <1>4, <1>5 DEF TypeOK
<1>8. Reading(text)[0].words = <<>> /\ Reading(text)[0].mode = "code"
  BY <1>6
<1>9. WordsAgree
  <2>1. (IF pos > Len(text) THEN Len(text) ELSE pos - 1) = 0
    BY <1>5
  <2> QED
    BY <1>5, <1>8, <2>1 DEF WordsAgree
<1>10. StartsAnew
  <2>1. pos - 1 = 0
    BY <1>5
  <2> QED
    BY <1>8, <2>1 DEF StartsAnew, Fresh
<1> QED
  BY <1>7, <1>9, <1>10 DEF AgreeInv

\* tokenize keeps its types, for texts of any length.
THEOREM TypeCorrect == Spec => []TypeOK
<1>1. AgreeInv => TypeOK
  BY DEF AgreeInv
<1> QED
  BY <1>1, InitAgrees, NextAgrees, PTL DEF Spec

\* For a text of any length over the characters the code tells apart,
\* tokenize has after every turn found exactly the words that an automaton
\* finds which reads one character at a time: none inside a comment or a
\* literal, and none missed after one.
THEOREM TokenizeFindsTheWords == Spec => []WordsAgree
<1>1. AgreeInv => WordsAgree
  BY DEF AgreeInv
<1> QED
  BY <1>1, InitAgrees, NextAgrees, PTL DEF Spec

-----------------------------------------------------------------------------
(* ClassifySQL and IsReadOnlySQL.                                          *)

\* Lead is where the blanks and parentheses before the statement end.
LEMMA LeadDef ==
  ASSUME NEW s \in Seq(Chars)
  PROVE  /\ Lead(s) \in 1 .. Len(s) + 1
         /\ \A j \in 1 .. Lead(s) - 1 : s[j] \in Blanks \cup {"("}
<1> DEFINE P == {k \in 1 .. Len(s) : s[k] \notin Blanks \cup {"("}}
           Q(k) == /\ \A j \in 1 .. k - 1 : s[j] \in Blanks \cup {"("}
                   /\ k <= Len(s) => s[k] \notin Blanks \cup {"("}
<1>0. Len(s) \in Nat
  OBVIOUS
<1>1. \E k \in 1 .. Len(s) + 1 : Q(k)
  <2>1. CASE P = {}
    <3>1. Len(s) + 1 \in 1 .. Len(s) + 1 /\ Q(Len(s) + 1)
      BY <1>0, <2>1
    <3> QED
      BY <3>1
  <2>2. CASE P # {}
    <3>1. P \in SUBSET Nat
      OBVIOUS
    <3>2. PICK k \in P : \A j \in P : k <= j
      BY <2>2, <3>1, LeastNumber
    <3>3. k \in 1 .. Len(s) + 1 /\ Q(k)
      BY <1>0, <3>2
    <3> QED
      BY <3>3
  <2> QED
    BY <2>1, <2>2
<1>2. Lead(s) \in 1 .. Len(s) + 1 /\ Q(Lead(s))
  BY <1>1 DEF Lead
<1> QED
  BY <1>2

\* Where ClassifySQL finds a keyword written in ASCII, it stands in the text.
LEMMA AsciiLead ==
  ASSUME text \in Seq(Chars), ClassifiedInAscii
  PROVE  /\ Lead(text) \in 1 .. Len(text) /\ text[Lead(text)] = "K"
         /\ Lead(text) < Len(text) => text[Lead(text) + 1] \in Blanks
<1>0. Lead(text) \in 1 .. Len(text) + 1 /\ Len(text) \in Nat
  BY LeadDef
<1>1. Upper(text, Lead(text)) # 0 /\ text[Lead(text)] # "fold"
  BY DEF ClassifiedInAscii, hasPrefixWord
<1>2. Lead(text) <= Len(text) /\ text[Lead(text)] = "K" /\ Upper(text, Lead(text)) = Lead(text)
  BY <1>0, <1>1 DEF Upper, Pair
<1>3. Lead(text) < Len(text) => text[Lead(text) + 1] \in {" ", "nl"}
  BY <1>2 DEF ClassifiedInAscii, hasPrefixWord
<1>4. Lead(text) < Len(text) => text[Lead(text) + 1] \in Blanks
  BY <1>3 DEF Blanks
<1>5. Lead(text) \in 1 .. Len(text)
  BY <1>0, <1>2
<1> QED
  BY <1>2, <1>4, <1>5

\* tokenize reaches the leading keyword before it finds anything else, and
\* takes it as a word of its own.
LEMMA NextLeads ==
  ASSUME TypeOK, LeadIsFound, [Next]_vars
  PROVE  LeadIsFound'
<1>0. text \in Seq(Chars) /\ Len(text) \in Nat /\ words \in Seq(Seq(Chars)) /\ pos \in Nat
      /\ pos >= 1
  BY DEF TypeOK
<1>t. text' = text
  BY DEF Next, Blank, LineComment, BlockComment, SingleQuoted, DoubleQuoted, BackQuoted,
         Word, Number, Other, Skip, vars
<1> SUFFICES ASSUME ClassifiedInAscii
             PROVE  \/ words' = <<>> /\ pos' <= Lead(text)
                    \/ \E k \in 1 .. Len(words') : words'[k] = <<"K">>
  BY <1>t DEF LeadIsFound, ClassifiedInAscii
<1> DEFINE L == Lead(text)
<1>1. /\ L \in 1 .. Len(text) /\ text[L] = "K" /\ (L < Len(text) => text[L + 1] \in Blanks)
      /\ \A j \in 1 .. L - 1 : text[j] \in Blanks \cup {"("}
  BY <1>0, LeadDef, AsciiLead
<1>2. CASE \E k \in 1 .. Len(words) : words[k] = <<"K">>
  <2>1. words' = words \/ \E w : words' = Append(words, w)
    BY DEF Next, Blank, LineComment, BlockComment, SingleQuoted, DoubleQuoted, BackQuoted,
           Word, Number, Other, Skip, vars
  <2>2. PICK k \in 1 .. Len(words) : words[k] = <<"K">>
    BY <1>2
  <2>3. k \in 1 .. Len(words') /\ words'[k] = words[k]
    BY <1>0, <2>1
  <2> QED
    BY <2>2, <2>3
<1>3. CASE words = <<>> /\ pos <= L
  <2> HIDE DEF L
  <2>1. CASE pos < L
    <3>1. pos \in 1 .. L - 1
      BY <1>0, <1>1, <2>1
    <3>2. text[pos] \in Blanks \cup {"("}
      BY <1>1, <3>1
    <3>3. Blank \/ Other \/ UNCHANGED vars
      BY <3>2 DEF Next, LineComment, BlockComment, SingleQuoted, DoubleQuoted, BackQuoted,
         Word, Number, Here, Pair, Blanks, Letters, Digits
    <3>4. words' = words /\ (pos' = pos + 1 \/ pos' = pos)
      BY <3>3 DEF Blank, Other, Skip, vars
    <3>5. pos' <= L
      BY <1>0, <1>1, <2>1, <3>4
    <3> QED
      BY <1>3, <3>4, <3>5 DEF L
  <2>2. CASE pos = L
    <3>1. Word \/ UNCHANGED vars
      BY <1>1, <2>2 DEF Next, Blank, Other, LineComment, BlockComment, SingleQuoted,
         DoubleQuoted, BackQuoted, Number, Here, Pair, Blanks, Letters, Digits
    <3>2. CASE Word
      <4> DEFINE P == {k \in pos .. Len(text) : text[k] \notin Letters \cup Digits}
      <4>1. pos' = FirstOf(P) /\ words' = Append(words, SubSeq(text, pos, pos' - 1))
        BY <3>2 DEF Word
      <4>2. P \in SUBSET (1 .. Len(text)) /\ pos \notin P
        BY <1>0, <1>1, <2>2 DEF Letters
      <4>b. Blanks \cap (Letters \cup Digits) = {}
        BY DEF Letters, Digits, Blanks
      <4>c. L + 1 <= Len(text) => L < Len(text)
        BY <1>0, <1>1
      <4>d. L + 1 <= Len(text) => text[L + 1] \notin Letters \cup Digits
        BY <1>1, <4>b, <4>c
      <4>e. L + 1 <= Len(text) => L + 1 \in pos .. Len(text)
        BY <1>0, <1>1, <2>2
      <4>3. pos + 1 <= Len(text) => pos + 1 \in P
        BY <2>2, <4>d, <4>e
      <4>a. \A i \in P : i >= pos
        BY <1>0
      <4> HIDE DEF P
      <4>4. /\ FirstOf(P) \in 1 .. Len(text) + 1 /\ (FirstOf(P) <= Len(text) => FirstOf(P) \in P)
            /\ \A i \in P : FirstOf(P) <= i
        BY <1>0, <4>2, FirstOfIsLeast
      <4>5. pos' = pos + 1
        BY <1>0, <1>1, <2>2, <4>1, <4>2, <4>3, <4>4, <4>a
      <4>6. words' = Append(<<>>, SubSeq(text, pos, pos))
        BY <1>0, <1>3, <4>1, <4>5
      <4>7. SubSeq(text, pos, pos) = <<"K">>
        BY <1>0, <1>1, <2>2, SubSeqOne
      <4>8. words' = <<<<"K">>>>
        BY <4>6, <4>7
      <4> QED
        BY <4>8
    <3>3. CASE UNCHANGED vars
      BY <1>3, <3>3 DEF vars, L
    <3> QED
      BY <3>1, <3>2, <3>3
  <2> QED
    BY <1>0, <1>1, <1>3, <2>1, <2>2
<1> QED
  BY <1>2, <1>3 DEF LeadIsFound

\* At the start tokenize stands before the leading keyword.
LEMMA InitLeads == Init => LeadIsFound
<1> SUFFICES ASSUME Init PROVE LeadIsFound
  OBVIOUS
<1>1. text \in Seq(Chars) /\ pos = 1 /\ words = <<>>
  BY InitAgrees DEF AgreeInv, TypeOK, Init
<1>2. Lead(text) \in 1 .. Len(text) + 1
  BY <1>1, LeadDef
<1> QED
  BY <1>1, <1>2 DEF LeadIsFound

\* For a text of any length: what ClassifySQL calls a write, for a keyword in
\* ASCII, contains a keyword that writes for IsReadOnlySQL too.
THEOREM WritesAreLexed == Spec => []ClassifiedIsLexed
<1>1. TypeOK /\ LeadIsFound => ClassifiedIsLexed
  <2> SUFFICES ASSUME TypeOK, LeadIsFound, ~More, ClassifiedInAscii
               PROVE  \E k \in 1 .. Len(words) : words[k] = <<"K">>
    BY DEF ClassifiedIsLexed
  <2>1. Lead(text) \in 1 .. Len(text) + 1 /\ Lead(text) <= Len(text)
    BY AsciiLead DEF TypeOK
  <2>2. pos > Len(text) /\ pos \in Nat /\ Len(text) \in Nat
    BY DEF More, TypeOK
  <2> QED
    BY <2>1, <2>2 DEF LeadIsFound
<1> QED
  BY <1>1, InitLeads, NextLeads, TypeCorrect, PTL DEF Spec

-----------------------------------------------------------------------------
(* Loops.                                                                  *)

\* f is what a loop has after each element of s.
IsRun(f, D, step, init, s) ==
  /\ f[0] = init /\ ForEach(step, init, s) = f[Len(s)]
  /\ \A n \in 1 .. Len(s) : f[n] = step[f[n - 1]][s[n]]
  /\ \A n \in 0 .. Len(s) : f[n] \in D

\* ForEach goes through the elements one after the other.
LEMMA ForEachRuns ==
  ASSUME NEW D, NEW E, NEW step \in [D -> [E -> D]], NEW init \in D, NEW s \in Seq(E)
  PROVE  \E f : IsRun(f, D, step, init, s)
<1> DEFINE Run(n, g) == \A k \in 0 .. n : /\ g[k] = IF k = 0 THEN init ELSE step[g[k - 1]][s[k]]
                                          /\ g[k] \in D
           P == {n \in Nat : n <= Len(s) => \E g : Run(n, g)}
<1>0. Len(s) \in Nat /\ \A k \in 1 .. Len(s) : s[k] \in E
  OBVIOUS
<1>1. 0 \in P
  <2>1. Run(0, [k \in 0 .. 0 |-> init])
    OBVIOUS
  <2> QED
    BY <2>1
<1>2. ASSUME NEW n \in Nat, n \in P PROVE n + 1 \in P
  <2> HIDE DEF Run
  <2> SUFFICES ASSUME n + 1 <= Len(s) PROVE \E g : Run(n + 1, g)
    OBVIOUS
  <2>1. PICK g : Run(n, g)
    BY <1>0, <1>2
  <2> DEFINE h == [k \in 0 .. n + 1 |-> IF k = n + 1 THEN step[g[n]][s[n + 1]] ELSE g[k]]
  <2>2. \A k \in 0 .. n : h[k] = g[k]
    OBVIOUS
  <2>3. h[n + 1] = step[g[n]][s[n + 1]]
    OBVIOUS
  <2> HIDE DEF h
  <2>4. g[n] \in D /\ s[n + 1] \in E
    BY <1>0, <2>1 DEF Run
  <2>5. step[g[n]][s[n + 1]] \in D
    BY <2>4
  <2>6. ASSUME NEW k \in 0 .. n + 1
        PROVE  h[k] = (IF k = 0 THEN init ELSE step[h[k - 1]][s[k]]) /\ h[k] \in D
    <3>1. CASE k = n + 1
      BY <2>2, <2>3, <2>5, <3>1
    <3>2. CASE k \in 0 .. n
      <4>1. g[k] = (IF k = 0 THEN init ELSE step[g[k - 1]][s[k]]) /\ g[k] \in D
        BY <2>1, <3>2 DEF Run
      <4>2. k # 0 => k - 1 \in 0 .. n
        BY <3>2
      <4> QED
        BY <2>2, <3>2, <4>1, <4>2
    <3> QED
      BY <3>1, <3>2
  <2>7. Run(n + 1, h)
    BY <2>6 DEF Run
  <2> QED
    BY <2>7
<1>3. \E g : Run(Len(s), g)
  <2> HIDE DEF Run
  <2>1. P \in SUBSET Nat
    OBVIOUS
  <2> HIDE DEF P
  <2>2. P = Nat
    BY <1>1, <1>2, <2>1, Induct
  <2>3. Len(s) \in P
    BY <1>0, <2>2
  <2> QED
    BY <1>0, <2>3 DEF P
<1>4. PICK g : Run(Len(s), g)
  BY <1>3
<1> DEFINE Eq(f) == f = [n \in 0 .. Len(s) |-> IF n = 0 THEN init ELSE step[f[n - 1]][s[n]]]
           r == [n \in 0 .. Len(s) |-> g[n]]
           c == CHOOSE f : Eq(f)
<1>5. Eq(r)
  <2>1. \A n \in 0 .. Len(s) : r[n] = IF n = 0 THEN init ELSE step[r[n - 1]][s[n]]
    <3> SUFFICES ASSUME NEW n \in 0 .. Len(s)
                 PROVE  r[n] = IF n = 0 THEN init ELSE step[r[n - 1]][s[n]]
      OBVIOUS
    <3>1. r[n] = g[n] /\ (n # 0 => r[n - 1] = g[n - 1])
      BY <1>0
    <3> QED
      BY <1>4, <3>1
  <2> QED
    BY <2>1
<1>6. Eq(c)
  <2> HIDE DEF Eq, r
  <2> QED
    BY <1>5
<1>7. ForEach(step, init, s) = c[Len(s)]
  BY DEF ForEach
<1>8. \A n \in 0 .. Len(s) : n \in {k \in Nat : c[k] = g[k]}
  <2> HIDE DEF c
  <2>1. 0 \in {k \in Nat : c[k] = g[k]}
    BY <1>0, <1>4, <1>6
  <2>2. ASSUME NEW n \in 0 .. Len(s) - 1, n \in {k \in Nat : c[k] = g[k]}
        PROVE  n + 1 \in {k \in Nat : c[k] = g[k]}
    <3>1. n + 1 \in 0 .. Len(s) /\ n + 1 # 0 /\ (n + 1) - 1 = n
      BY <1>0
    <3>2. g[n + 1] = step[g[n]][s[n + 1]]
      BY <1>4, <3>1
    <3>3. c[n + 1] = step[c[n]][s[n + 1]]
      BY <1>6, <3>1
    <3> QED
      BY <2>2, <3>2, <3>3
  <2> DEFINE S == {k \in Nat : c[k] = g[k]}
  <2> HIDE DEF S
  <2>3. 0 \in S /\ \A n \in 0 .. Len(s) - 1 : n \in S => n + 1 \in S
    BY <2>1, <2>2 DEF S
  <2>4. \A n \in 0 .. Len(s) : n \in S
    BY <1>0, <2>3, InductUp
  <2> QED
    BY <2>4 DEF S
<1>9. \A n \in 0 .. Len(s) : c[n] \in D
  BY <1>4, <1>8
<1>10. c[0] = init /\ \A n \in 1 .. Len(s) : c[n] = step[c[n - 1]][s[n]]
  <2> HIDE DEF c
  <2>1. ASSUME NEW n \in 0 .. Len(s)
        PROVE  c[n] = IF n = 0 THEN init ELSE step[c[n - 1]][s[n]]
    BY <1>6
  <2>2. c[0] = init
    BY <1>0, <2>1
  <2>3. ASSUME NEW n \in 1 .. Len(s) PROVE c[n] = step[c[n - 1]][s[n]]
    <3>1. n \in 0 .. Len(s) /\ n # 0
      BY <1>0
    <3> QED
      BY <2>1, <3>1
  <2> QED
    BY <2>2, <2>3
<1> HIDE DEF c, Eq
<1>11. IsRun(c, D, step, init, s)
  BY <1>7, <1>9, <1>10 DEF IsRun
<1> QED
  BY <1>11

\* A loop over a sequence of elements of E whose state is in D.
IsLoop(D, E, step, init) == step \in [D -> [E -> D]] /\ init \in D

\* A loop over nothing leaves the start, and one element more is one step more.
LEMMA ForEachLaws ==
  ASSUME NEW D, NEW E, NEW step, NEW init, IsLoop(D, E, step, init)
  PROVE  /\ ForEach(step, init, <<>>) = init
         /\ \A s \in Seq(E) : ForEach(step, init, s) \in D
         /\ \A s \in Seq(E), e \in E :
              ForEach(step, init, Append(s, e)) = step[ForEach(step, init, s)][e]
<1>0. step \in [D -> [E -> D]] /\ init \in D
  BY DEF IsLoop
<1>1. ForEach(step, init, <<>>) = init
  <2>1. <<>> \in Seq(E) /\ Len(<<>>) = 0
    OBVIOUS
  <2>2. PICK f : IsRun(f, D, step, init, <<>>)
    BY <1>0, <2>1, ForEachRuns
  <2> QED
    BY <2>1, <2>2 DEF IsRun
<1>2. ASSUME NEW s \in Seq(E) PROVE ForEach(step, init, s) \in D
  <2>1. PICK f : IsRun(f, D, step, init, s)
    BY <1>0, ForEachRuns
  <2>2. Len(s) \in 0 .. Len(s)
    OBVIOUS
  <2> QED
    BY <2>1, <2>2 DEF IsRun
<1>3. ASSUME NEW s \in Seq(E), NEW e \in E
      PROVE  ForEach(step, init, Append(s, e)) = step[ForEach(step, init, s)][e]
  <2> DEFINE t == Append(s, e)
  <2>1. /\ t \in Seq(E) /\ Len(t) = Len(s) + 1 /\ t[Len(s) + 1] = e
        /\ Len(s) \in Nat /\ \A n \in 1 .. Len(s) : t[n] = s[n]
    OBVIOUS
  <2> HIDE DEF t
  <2>2. PICK f : IsRun(f, D, step, init, s)
    BY <1>0, ForEachRuns
  <2>3. PICK g : IsRun(g, D, step, init, t)
    BY <1>0, <2>1, ForEachRuns
  <2> DEFINE S == {k \in Nat : f[k] = g[k]}
  <2>4. 0 \in S
    BY <2>2, <2>3 DEF IsRun
  <2>5. ASSUME NEW n \in 0 .. Len(s) - 1, n \in S PROVE n + 1 \in S
    <3>0. Len(t) = Len(s) + 1 /\ Len(s) \in Nat
      BY <2>1
    <3>1. n + 1 \in 1 .. Len(s) /\ n + 1 \in 1 .. Len(t) /\ n \in Nat /\ (n + 1) - 1 = n
      BY <3>0
    <3>2. f[n + 1] = step[f[n]][s[n + 1]]
      BY <2>2, <3>1 DEF IsRun
    <3>3. g[n + 1] = step[g[n]][t[n + 1]]
      BY <2>3, <3>1 DEF IsRun
    <3>4. f[n] = g[n] /\ t[n + 1] = s[n + 1]
      BY <2>1, <2>5, <3>1
    <3>5. f[n + 1] = g[n + 1] /\ n + 1 \in Nat
      BY <3>1, <3>2, <3>3, <3>4
    <3> QED
      BY <3>5
  <2> HIDE DEF S
  <2>a. 0 \in Nat /\ Len(s) \in Nat /\ \A n \in 0 .. Len(s) - 1 : n \in S => n + 1 \in S
    BY <2>1, <2>5
  <2>6. \A n \in 0 .. Len(s) : n \in S
    BY <2>4, <2>a, InductUp
  <2>7. f[Len(s)] = g[Len(s)]
    BY <2>1, <2>6 DEF S
  <2>8. Len(s) + 1 \in 1 .. Len(t) /\ (Len(s) + 1) - 1 = Len(s)
    BY <2>1
  <2>9. g[Len(t)] = step[g[Len(s)]][e]
    BY <2>1, <2>3, <2>8 DEF IsRun
  <2> QED
    BY <2>2, <2>3, <2>7, <2>9 DEF t, IsRun
<1> QED
  BY <1>1, <1>2, <1>3

\* Induction over sequences, stated with the set of those that have a property.
LEMMA SeqInduct ==
  ASSUME NEW E, NEW S, <<>> \in S,
         \A s \in Seq(E), e \in E : s \in S => Append(s, e) \in S
  PROVE  \A s \in Seq(E) : s \in S
<1> DEFINE P == {n \in Nat : \A s \in Seq(E) : Len(s) = n => s \in S}
<1>1. 0 \in P
  <2>1. ASSUME NEW s \in Seq(E), Len(s) = 0 PROVE s = <<>>
    BY <2>1, EmptySeq
  <2> QED
    BY <2>1
<1>2. ASSUME NEW n \in P PROVE n + 1 \in P
  <2> SUFFICES ASSUME NEW s \in Seq(E), Len(s) = n + 1 PROVE s \in S
    OBVIOUS
  <2>1. n \in Nat /\ s # <<>>
    OBVIOUS
  <2> DEFINE r == SubSeq(s, 1, Len(s) - 1)
             e == s[Len(s)]
  <2>2. r \in Seq(E) /\ Len(r) = n /\ e \in E
    BY <2>1
  <2>3. s = Append(r, e)
    BY <2>1, <2>2
  <2> HIDE DEF r, e
  <2>4. r \in S
    BY <1>2, <2>2
  <2> QED
    BY <2>2, <2>3, <2>4
<1>3. P \in SUBSET Nat
  OBVIOUS
<1> HIDE DEF P
<1>4. P = Nat
  BY <1>1, <1>2, <1>3, Induct
<1> QED
  BY <1>4 DEF P

\* One element more behind a concatenation.
LEMMA ConcatAppend ==
  ASSUME NEW E, NEW s \in Seq(E), NEW u \in Seq(E), NEW e \in E
  PROVE  s \o Append(u, e) = Append(s \o u, e)
<1>1. <<e>> \in Seq(E) /\ s \o u \in Seq(E)
  OBVIOUS
<1>2. Append(u, e) = u \o <<e>> /\ Append(s \o u, e) = (s \o u) \o <<e>>
  BY <1>1, AppendIsConcat
<1> QED
  BY <1>1, <1>2, ConcatAssociative

\* Sequences that end alike begin alike.
LEMMA SameEnds ==
  ASSUME NEW E, NEW s \in Seq(E), NEW t \in Seq(E), NEW e \in E, NEW f \in E,
         Append(s, e) = Append(t, f)
  PROVE  s = t /\ e = f
<1>1. /\ Len(Append(s, e)) = Len(s) + 1 /\ Append(s, e)[Len(s) + 1] = e
      /\ \A i \in 1 .. Len(s) : Append(s, e)[i] = s[i]
  BY AppendProperties
<1>2. /\ Len(Append(t, f)) = Len(t) + 1 /\ Append(t, f)[Len(t) + 1] = f
      /\ \A i \in 1 .. Len(t) : Append(t, f)[i] = t[i]
  BY AppendProperties
<1>3. Len(s) \in Nat /\ Len(t) \in Nat
  OBVIOUS
<1>4. Len(s) = Len(t)
  BY <1>1, <1>2, <1>3
<1>5. e = f /\ \A i \in 1 .. Len(s) : s[i] = t[i]
  BY <1>1, <1>2, <1>4
<1> QED
  BY <1>4, <1>5, SeqEqual

\* A loop over two sequences is a loop over the first and then the second.
LEMMA ForEachConcat ==
  ASSUME NEW D, NEW E, NEW step, NEW init, IsLoop(D, E, step, init),
         NEW s \in Seq(E), NEW t \in Seq(E)
  PROVE  ForEach(step, init, s \o t) = ForEach(step, ForEach(step, init, s), t)
<1> DEFINE mid == ForEach(step, init, s)
           S == {u \in Seq(E) : ForEach(step, init, s \o u) = ForEach(step, mid, u)}
<1>1. mid \in D
  BY ForEachLaws
<1> HIDE DEF mid
<1>m. IsLoop(D, E, step, mid)
  BY <1>1 DEF IsLoop
<1>2. /\ ForEach(step, mid, <<>>) = mid
      /\ \A u \in Seq(E), e \in E :
           ForEach(step, mid, Append(u, e)) = step[ForEach(step, mid, u)][e]
  BY <1>m, ForEachLaws
<1>3. \A u \in Seq(E), e \in E :
        ForEach(step, init, Append(u, e)) = step[ForEach(step, init, u)][e]
  BY ForEachLaws
<1>4. <<>> \in S
  <2>1. s \o <<>> = s /\ <<>> \in Seq(E)
    BY ConcatEmptySeq
  <2> QED
    BY <1>2, <2>1 DEF mid
<1>5. ASSUME NEW u \in Seq(E), NEW e \in E, u \in S PROVE Append(u, e) \in S
  <2>1. s \o Append(u, e) = Append(s \o u, e) /\ s \o u \in Seq(E) /\ Append(u, e) \in Seq(E)
    BY ConcatAppend
  <2>2. ForEach(step, init, s \o Append(u, e)) = step[ForEach(step, init, s \o u)][e]
    BY <1>3, <2>1
  <2>3. ForEach(step, mid, Append(u, e)) = step[ForEach(step, mid, u)][e]
    BY <1>2
  <2> QED
    BY <1>5, <2>1, <2>2, <2>3
<1> HIDE DEF S
<1>6. t \in S
  BY <1>4, <1>5, SeqInduct
<1> QED
  BY <1>6 DEF S, mid

-----------------------------------------------------------------------------
(* What the loops of parseSQL compute, one element at a time.              *)

\* Texts stay texts.
LEMMA Closed ==
  /\ <<>> \in Text /\ <<>> \in Texts
  /\ \A s \in Text, c \in Chars : Append(s, c) \in Text
  /\ \A P \in Texts, p \in Text : Append(P, p) \in Texts
  /\ \A s, t \in Text : s \o t \in Text
  /\ \A s : s \in Text <=> s \in Seq(Chars)
  /\ \A P : P \in Texts <=> P \in Seq(Text)
<1>1. <<>> \in Text /\ \A s \in Text, c \in Chars : Append(s, c) \in Text
  BY DEF Text
<1>2. <<>> \in Texts /\ \A P \in Texts, p \in Text : Append(P, p) \in Texts
  BY DEF Texts
<1>3. \A s, t \in Text : s \o t \in Text
  BY ConcatProperties DEF Text
<1> QED
  BY <1>1, <1>2, <1>3 DEF Text, Texts

\* Blanks are dropped, other characters kept.
LEMMA NonBlanksLaws ==
  /\ NonBlanks(<<>>) = <<>>
  /\ \A s \in Text : NonBlanks(s) \in Text
  /\ \A s \in Text, c \in Chars :
       NonBlanks(Append(s, c)) = IF c \in Blanks THEN NonBlanks(s) ELSE Append(NonBlanks(s), c)
<1> DEFINE step == [kept \in Text |-> [c \in Chars |->
                      IF c \in Blanks THEN kept ELSE Append(kept, c)]]
<1>1. step \in [Text -> [Chars -> Text]] /\ <<>> \in Text
  BY DEF Text
<1>2. \A kept \in Text, c \in Chars :
        step[kept][c] = IF c \in Blanks THEN kept ELSE Append(kept, c)
  OBVIOUS
<1>3. \A s \in Text : NonBlanks(s) = ForEach(step, <<>>, s)
  BY DEF NonBlanks
<1>4. NonBlanks(<<>>) = ForEach(step, <<>>, <<>>)
  BY DEF NonBlanks
<1> HIDE DEF step
<1>5. IsLoop(Text, Chars, step, <<>>)
  BY <1>1 DEF IsLoop
<1>6. /\ ForEach(step, <<>>, <<>>) = <<>>
      /\ \A s \in Seq(Chars) : ForEach(step, <<>>, s) \in Text
      /\ \A s \in Seq(Chars), e \in Chars :
           ForEach(step, <<>>, Append(s, e)) = step[ForEach(step, <<>>, s)][e]
  BY <1>5, ForEachLaws
<1>7. \A s \in Text, c \in Chars : Append(s, c) \in Text
  BY DEF Text
<1> QED
  BY <1>2, <1>3, <1>4, <1>6, <1>7 DEF Text

\* Split has at least one piece; its separator begins the next one, any
\* other character goes to the last one.
LEMMA SplitLaws ==
  ASSUME NEW c \in Chars
  PROVE  /\ Split(<<>>, c) = <<<<>>>>
         /\ \A s \in Text : Split(s, c) \in Texts
         /\ \A s \in Text, d \in Chars : \E F \in Texts, l \in Text :
              /\ Split(s, c) = Append(F, l)
              /\ Split(Append(s, d), c) = IF d = c THEN Append(Append(F, l), <<>>)
                                          ELSE Append(F, Append(l, d))
<1> DEFINE step == [pieces \in Texts |-> [d \in Chars |->
                      IF d = c THEN Append(pieces, <<>>)
                      ELSE [pieces EXCEPT ![Len(pieces)] = Append(@, d)]]]
           first == <<<<>>>>
<1>0. Text = Seq(Chars) /\ Texts = Seq(Text) /\ <<>> \in Text /\ first \in Texts /\ first # <<>>
  BY DEF Text, Texts
<1>1. ASSUME NEW P \in Texts, NEW d \in Chars
      PROVE  [P EXCEPT ![Len(P)] = Append(@, d)] \in Texts /\ Append(P, <<>>) \in Texts
  <2> DEFINE R == [P EXCEPT ![Len(P)] = Append(@, d)]
  <2>1. CASE P = <<>>
    <3>1. DOMAIN P = 1 .. 0
      BY <1>0, <2>1, LenProperties
    <3>2. DOMAIN R = DOMAIN P /\ R = [x \in DOMAIN R |-> R[x]]
      OBVIOUS
    <3> HIDE DEF R
    <3>3. R \in [1 .. 0 -> Text] /\ 0 \in Nat
      BY <3>1, <3>2
    <3>4. R \in Seq(Text)
      BY <3>3, SeqDef
    <3> QED
      BY <1>0, <3>4 DEF R
  <2>2. CASE P # <<>>
    <3>1. Len(P) \in 1 .. Len(P) /\ P[Len(P)] \in Text
      BY <1>0, <2>2
    <3>2. Append(P[Len(P)], d) \in Text
      BY <1>0, <3>1
    <3> QED
      BY <1>0, <3>1, <3>2, ExceptSeq
  <2> QED
    BY <2>1, <2>2
<1>2. step \in [Texts -> [Chars -> Texts]]
  BY <1>1
<1>3. ASSUME NEW F \in Texts, NEW l \in Text, NEW d \in Chars
      PROVE  step[Append(F, l)][d] = IF d = c THEN Append(Append(F, l), <<>>)
                                     ELSE Append(F, Append(l, d))
  <2> DEFINE P == Append(F, l)
             p == Append(l, d)
             Q == Append(F, p)
             R == [P EXCEPT ![Len(P)] = Append(@, d)]
  <2>0. F \in Seq(Text) /\ Len(F) \in Nat /\ p \in Text
    BY <1>0
  <2>1. /\ P \in Seq(Text) /\ Len(P) = Len(F) + 1 /\ P[Len(F) + 1] = l
        /\ \A i \in 1 .. Len(F) : P[i] = F[i]
    BY <2>0, AppendProperties
  <2>2. step[P][d] = IF d = c THEN Append(P, <<>>) ELSE R
    BY <1>0, <2>1
  <2> HIDE DEF P, p, step
  <2>3. /\ Q \in Seq(Text) /\ Len(Q) = Len(F) + 1 /\ Q[Len(F) + 1] = p
        /\ \A i \in 1 .. Len(F) : Q[i] = F[i]
    BY <2>0, AppendProperties
  <2>4. Len(P) \in 1 .. Len(P) /\ Append(P[Len(P)], d) = p
    BY <2>0, <2>1 DEF p
  <2> HIDE DEF Q
  <2>5. /\ R \in Seq(Text) /\ Len(R) = Len(P)
        /\ \A j \in 1 .. Len(P) : R[j] = IF j = Len(P) THEN p ELSE P[j]
    <3>1. Append(P[Len(P)], d) \in Text
      BY <2>0, <2>4
    <3>2. \A e \in Text : LET X == [P EXCEPT ![Len(P)] = e]
                          IN  /\ X \in Seq(Text) /\ Len(X) = Len(P)
                              /\ \A j \in 1 .. Len(P) : X[j] = IF j = Len(P) THEN e ELSE P[j]
      BY <2>1, <2>4, ExceptSeq
    <3>3. /\ R \in Seq(Text) /\ Len(R) = Len(P)
          /\ \A j \in 1 .. Len(P) : R[j] = IF j = Len(P) THEN Append(P[Len(P)], d) ELSE P[j]
      BY <3>1, <3>2
    <3> QED
      BY <2>4, <3>3
  <2> HIDE DEF R
  <2>6. ASSUME NEW i \in 1 .. Len(R) PROVE R[i] = Q[i]
    <3>1. i \in 1 .. Len(P) /\ (i # Len(P) => i \in 1 .. Len(F))
      BY <2>0, <2>1, <2>5
    <3> QED
      BY <2>1, <2>3, <2>5, <3>1
  <2>7. R = Q
    BY <2>1, <2>3, <2>5, <2>6, SeqEqual
  <2> QED
    BY <2>2, <2>7 DEF P, Q, p
<1>4. \A s : Split(s, c) = ForEach(step, first, s)
  BY DEF Split
<1> HIDE DEF step, first
<1>5. IsLoop(Texts, Chars, step, first)
  BY <1>0, <1>2 DEF IsLoop
<1>6. /\ ForEach(step, first, <<>>) = first
      /\ \A s \in Seq(Chars) : ForEach(step, first, s) \in Texts
      /\ \A s \in Seq(Chars), e \in Chars :
           ForEach(step, first, Append(s, e)) = step[ForEach(step, first, s)][e]
  BY <1>5, ForEachLaws
<1>7. /\ Split(<<>>, c) = first
      /\ \A s \in Text : Split(s, c) \in Texts
      /\ \A s \in Text, d \in Chars : Split(Append(s, d), c) = step[Split(s, c)][d]
  BY <1>0, <1>4, <1>6
<1> DEFINE S == {s \in Text : Split(s, c) # <<>>}
<1>8. ASSUME NEW s \in Text, NEW d \in Chars, Split(s, c) # <<>>
      PROVE  \E F \in Texts, l \in Text :
               /\ Split(s, c) = Append(F, l)
               /\ Split(Append(s, d), c) = IF d = c THEN Append(Append(F, l), <<>>)
                                           ELSE Append(F, Append(l, d))
  <2>1. Split(s, c) \in Seq(Text)
    BY <1>0, <1>7
  <2>2. PICK F \in Seq(Text), l \in Text : Split(s, c) = Append(F, l)
    BY <1>8, <2>1, SequenceEmptyOrAppend
  <2>3. F \in Texts
    BY <1>0
  <2>4. Split(Append(s, d), c) = step[Append(F, l)][d]
    BY <1>7, <2>2
  <2> QED
    BY <1>3, <2>2, <2>3, <2>4
<1>9. <<>> \in S
  BY <1>0, <1>7
<1>10. ASSUME NEW s \in Seq(Chars), NEW d \in Chars, s \in S PROVE Append(s, d) \in S
  <2>1. Append(s, d) \in Text /\ s \in Text /\ Split(s, c) # <<>>
    BY <1>0, <1>10
  <2>2. PICK F \in Texts, l \in Text :
          /\ Split(s, c) = Append(F, l)
          /\ Split(Append(s, d), c) = IF d = c THEN Append(Append(F, l), <<>>)
                                      ELSE Append(F, Append(l, d))
    BY <1>8, <2>1
  <2>3. /\ F \in Seq(Text) /\ Append(F, l) \in Seq(Text) /\ Append(l, d) \in Text
        /\ <<>> \in Text
    BY <1>0
  <2>4. Append(Append(F, l), <<>>) # <<>> /\ Append(F, Append(l, d)) # <<>>
    BY <2>3, AppendProperties
  <2> QED
    BY <2>1, <2>2, <2>4
<1> HIDE DEF S
<1>11. \A s \in Text : s \in S
  BY <1>0, <1>9, <1>10, SeqInduct
<1>12. \A s \in Text : Split(s, c) # <<>>
  BY <1>11 DEF S
<1> QED
  BY <1>7, <1>8, <1>12 DEF first

\* Empty pieces are dropped, other ones kept.
LEMMA NonEmptyLaws ==
  /\ NonEmpty(<<>>) = <<>>
  /\ \A P \in Texts : NonEmpty(P) \in Texts
  /\ \A P \in Texts, p \in Text :
       NonEmpty(Append(P, p)) = IF p = <<>> THEN NonEmpty(P) ELSE Append(NonEmpty(P), p)
<1> DEFINE step == [kept \in Texts |-> [p \in Text |->
                      IF p = <<>> THEN kept ELSE Append(kept, p)]]
<1>1. step \in [Texts -> [Text -> Texts]] /\ <<>> \in Texts
  BY DEF Texts
<1>2. \A kept \in Texts, p \in Text :
        step[kept][p] = IF p = <<>> THEN kept ELSE Append(kept, p)
  OBVIOUS
<1>3. \A P : NonEmpty(P) = ForEach(step, <<>>, P)
  BY DEF NonEmpty
<1> HIDE DEF step
<1>4. IsLoop(Texts, Text, step, <<>>)
  BY <1>1 DEF IsLoop
<1>5. /\ ForEach(step, <<>>, <<>>) = <<>>
      /\ \A P \in Seq(Text) : ForEach(step, <<>>, P) \in Texts
      /\ \A P \in Seq(Text), p \in Text :
           ForEach(step, <<>>, Append(P, p)) = step[ForEach(step, <<>>, P)][p]
  BY <1>4, ForEachLaws
<1> QED
  BY <1>2, <1>3, <1>5 DEF Texts

\* Lines are joined with one blank.
LEMMA JoinLaws ==
  /\ Join(<<>>) = <<>>
  /\ \A P \in Texts : Join(P) \in Text
  /\ \A P \in Texts, p \in Text :
       Join(Append(P, p)) = IF Join(P) = <<>> THEN p ELSE Join(P) \o <<" ">> \o p
<1> DEFINE step == [joined \in Text |-> [line \in Text |->
                      IF joined = <<>> THEN line ELSE joined \o <<" ">> \o line]]
<1>0. <<>> \in Text /\ \A joined, line \in Text : joined \o <<" ">> \o line \in Text
  <2>1. <<" ">> \in Seq(Chars)
    BY DEF Chars, Blanks
  <2>2. ASSUME NEW joined \in Seq(Chars), NEW line \in Seq(Chars)
        PROVE  joined \o <<" ">> \o line \in Seq(Chars)
    <3>1. joined \o <<" ">> \in Seq(Chars)
      BY <2>1, ConcatProperties
    <3> QED
      BY <3>1, ConcatProperties
  <2>3. <<>> \in Seq(Chars)
    OBVIOUS
  <2> QED
    BY <2>2, <2>3, Zenon DEF Text
<1>1. step \in [Text -> [Text -> Text]]
  BY <1>0
<1>2. \A joined, line \in Text :
        step[joined][line] = IF joined = <<>> THEN line ELSE joined \o <<" ">> \o line
  OBVIOUS
<1>3. \A P : Join(P) = ForEach(step, <<>>, P)
  BY DEF Join
<1> HIDE DEF step
<1>4. IsLoop(Text, Text, step, <<>>)
  BY <1>0, <1>1 DEF IsLoop
<1>5. /\ ForEach(step, <<>>, <<>>) = <<>>
      /\ \A P \in Seq(Text) : ForEach(step, <<>>, P) \in Text
      /\ \A P \in Seq(Text), p \in Text :
           ForEach(step, <<>>, Append(P, p)) = step[ForEach(step, <<>>, P)][p]
  BY <1>4, ForEachLaws
<1>6. /\ Join(<<>>) = <<>>
      /\ \A P \in Texts : Join(P) \in Text
      /\ \A P \in Texts, p \in Text : Join(Append(P, p)) = step[Join(P)][p]
  BY <1>3, <1>5 DEF Texts
<1> QED
  BY <1>2, <1>6

\* What is done to every piece, given as a function, is done to the last one too.
LEMMA EachPiece ==
  ASSUME NEW f \in [Text -> Text], NEW P \in Texts, NEW p \in Text
  PROVE  /\ [k \in 1 .. Len(P) |-> f[P[k]]] \in Texts
         /\ [k \in 1 .. Len(Append(P, p)) |-> f[Append(P, p)[k]]]
              = Append([k \in 1 .. Len(P) |-> f[P[k]]], f[p])
<1> DEFINE A == [k \in 1 .. Len(P) |-> f[P[k]]]
           Q == Append(P, p)
           B == [k \in 1 .. Len(Q) |-> f[Q[k]]]
           C == Append(A, f[p])
<1>0. P \in Seq(Text) /\ Len(P) \in Nat /\ f[p] \in Text
  BY DEF Texts
<1>1. /\ Q \in Seq(Text) /\ Len(Q) = Len(P) + 1 /\ Q[Len(P) + 1] = p
      /\ \A i \in 1 .. Len(P) : Q[i] = P[i]
  BY <1>0, AppendProperties
<1>2. \A i \in 1 .. Len(P) : P[i] \in Text /\ f[P[i]] \in Text
  BY <1>0
<1>3. A \in Seq(Text) /\ Len(A) = Len(P) /\ \A i \in 1 .. Len(P) : A[i] = f[P[i]]
  BY <1>0, <1>2
<1> HIDE DEF A, Q
<1>4. \A i \in 1 .. Len(Q) : Q[i] \in Text /\ f[Q[i]] \in Text
  BY <1>1
<1>5. B \in Seq(Text) /\ Len(B) = Len(P) + 1 /\ \A i \in 1 .. Len(Q) : B[i] = f[Q[i]]
  BY <1>0, <1>1, <1>4
<1>6. /\ C \in Seq(Text) /\ Len(C) = Len(A) + 1 /\ C[Len(A) + 1] = f[p]
      /\ \A i \in 1 .. Len(A) : C[i] = A[i]
  BY <1>0, <1>3, AppendProperties
<1> HIDE DEF B, C
<1>7. ASSUME NEW i \in 1 .. Len(B) PROVE B[i] = C[i]
  <2>1. i \in 1 .. Len(Q) /\ (i = Len(P) + 1 \/ i \in 1 .. Len(P))
    BY <1>0, <1>1, <1>5
  <2>2. CASE i = Len(P) + 1
    BY <1>1, <1>3, <1>5, <1>6, <2>1, <2>2
  <2>3. CASE i \in 1 .. Len(P)
    BY <1>1, <1>3, <1>5, <1>6, <2>1, <2>3
  <2> QED
    BY <2>1, <2>2, <2>3
<1>8. B = C
  BY <1>3, <1>5, <1>6, <1>7, SeqEqual
<1> QED
  BY <1>3, <1>8 DEF A, B, C, Q, Texts

-----------------------------------------------------------------------------
(* What is left of a text without its blanks.                              *)

\* The non-blanks of two texts in a row.
LEMMA NonBlanksConcat ==
  ASSUME NEW s \in Text, NEW t \in Text
  PROVE  NonBlanks(s \o t) = NonBlanks(s) \o NonBlanks(t)
<1> DEFINE S == {u \in Text : NonBlanks(s \o u) = NonBlanks(s) \o NonBlanks(u)}
<1>0. Text = Seq(Chars) /\ NonBlanks(s) \in Text
  BY NonBlanksLaws DEF Text
<1>1. <<>> \in S
  <2>1. s \o <<>> = s /\ NonBlanks(s) \o <<>> = NonBlanks(s) /\ <<>> \in Text
    BY <1>0, ConcatEmptySeq
  <2> QED
    BY <2>1, NonBlanksLaws
<1>2. ASSUME NEW u \in Seq(Chars), NEW c \in Chars, u \in S PROVE Append(u, c) \in S
  <2>1. /\ s \o Append(u, c) = Append(s \o u, c) /\ s \o u \in Text /\ Append(u, c) \in Text
        /\ u \in Text /\ NonBlanks(u) \in Text
    BY <1>0, ConcatAppend, NonBlanksLaws
  <2>2. NonBlanks(s \o u) = NonBlanks(s) \o NonBlanks(u)
    BY <1>2
  <2>3. /\ NonBlanks(Append(s \o u, c)) = IF c \in Blanks THEN NonBlanks(s \o u)
                                          ELSE Append(NonBlanks(s \o u), c)
        /\ NonBlanks(Append(u, c)) = IF c \in Blanks THEN NonBlanks(u)
                                     ELSE Append(NonBlanks(u), c)
    BY <2>1, NonBlanksLaws
  <2>4. NonBlanks(s) \o Append(NonBlanks(u), c) = Append(NonBlanks(s) \o NonBlanks(u), c)
    BY <1>0, <2>1, ConcatAppend
  <2>5. NonBlanks(s \o Append(u, c)) = NonBlanks(s) \o NonBlanks(Append(u, c))
    BY <2>1, <2>2, <2>3, <2>4
  <2> QED
    BY <2>1, <2>5
<1> HIDE DEF S
<1>3. t \in S
  BY <1>0, <1>1, <1>2, SeqInduct
<1> QED
  BY <1>3 DEF S

\* Blanks alone leave nothing.
LEMMA OnlyBlanks ==
  ASSUME NEW s \in Text, \A k \in 1 .. Len(s) : s[k] \in Blanks
  PROVE  NonBlanks(s) = <<>>
<1> DEFINE S == {u \in Text : (\A k \in 1 .. Len(u) : u[k] \in Blanks) => NonBlanks(u) = <<>>}
<1>0. Text = Seq(Chars)
  BY DEF Text
<1>1. <<>> \in S
  BY <1>0, NonBlanksLaws
<1>2. ASSUME NEW u \in Seq(Chars), NEW c \in Chars, u \in S PROVE Append(u, c) \in S
  <2>0. Append(u, c) \in Text
    BY <1>0
  <2> SUFFICES ASSUME \A k \in 1 .. Len(Append(u, c)) : Append(u, c)[k] \in Blanks
               PROVE  NonBlanks(Append(u, c)) = <<>>
    BY <2>0
  <2>1. /\ Len(u) \in Nat /\ Len(Append(u, c)) = Len(u) + 1 /\ Append(u, c)[Len(u) + 1] = c
        /\ \A k \in 1 .. Len(u) : Append(u, c)[k] = u[k]
    BY AppendProperties
  <2>2. Len(u) + 1 \in 1 .. Len(u) + 1 /\ \A k \in 1 .. Len(u) : k \in 1 .. Len(u) + 1
    BY <2>1
  <2>3. c \in Blanks /\ \A k \in 1 .. Len(u) : u[k] \in Blanks
    BY <2>1, <2>2
  <2>4. NonBlanks(u) = <<>>
    BY <1>2, <2>3
  <2> QED
    BY <1>0, <2>3, <2>4, NonBlanksLaws
<1> HIDE DEF S
<1>3. s \in S
  BY <1>0, <1>1, <1>2, SeqInduct
<1> QED
  BY <1>3 DEF S

\* A finite set of positions has a greatest one.
LEMMA GreatestNumber ==
  ASSUME NEW n \in Nat, NEW P \in SUBSET (1 .. n), P # {}
  PROVE  \E x \in P : \A y \in P : x >= y
<1> DEFINE T == {k \in Nat : \A y \in P : y <= k}
<1>1. n \in T /\ T \in SUBSET Nat
  OBVIOUS
<1>2. PICK x \in T : \A y \in T : x <= y
  BY <1>1, LeastNumber
<1>3. x \in P
  <2> SUFFICES ASSUME x \notin P PROVE FALSE
    OBVIOUS
  <2>1. \A y \in P : y <= x - 1 /\ y >= 1
    BY <1>2
  <2>2. x - 1 \in Nat
    <3>1. PICK y \in P : TRUE
      OBVIOUS
    <3> QED
      BY <1>2, <2>1, <3>1
  <2>3. x - 1 \in T
    BY <2>1, <2>2
  <2> QED
    BY <1>2, <2>3
<1> QED
  BY <1>2, <1>3

\* TrimSpace takes blanks only, and leaves nothing only of blanks.
LEMMA TrimSpaceLaws ==
  ASSUME NEW s \in Text
  PROVE  /\ TrimSpace(s) \in Text
         /\ NonBlanks(TrimSpace(s)) = NonBlanks(s)
         /\ TrimSpace(s) = <<>> <=> NonBlanks(s) = <<>>
<1> DEFINE P == {k \in 1 .. Len(s) : s[k] \notin Blanks}
<1>0. s \in Seq(Chars) /\ Len(s) \in Nat /\ Text = Seq(Chars)
  BY DEF Text
<1>1. CASE P = {}
  <2>1. TrimSpace(s) = <<>> /\ <<>> \in Text
    BY <1>0, <1>1 DEF TrimSpace
  <2>2. NonBlanks(s) = <<>>
    BY <1>1, OnlyBlanks
  <2> QED
    BY <2>1, <2>2, NonBlanksLaws
<1>2. CASE P # {}
  <2> DEFINE a == CHOOSE k \in P : \A j \in P : k <= j
             b == CHOOSE k \in P : \A j \in P : k >= j
  <2>1. P \in SUBSET Nat /\ P \in SUBSET (1 .. Len(s))
    BY <1>0
  <2>2. a \in P /\ \A j \in P : a <= j
    <3> HIDE DEF P
    <3> QED
      BY <1>2, <2>1, LeastNumber
  <2>3. b \in P /\ \A j \in P : b >= j
    <3> HIDE DEF P
    <3> QED
      BY <1>0, <1>2, <2>1, GreatestNumber
  <2>4. TrimSpace(s) = SubSeq(s, a, b)
    BY <1>2 DEF TrimSpace
  <2> HIDE DEF a, b
  <2>5. /\ a \in 1 .. Len(s) /\ b \in a .. Len(s) /\ s[b] \notin Blanks
        /\ \A j \in 1 .. a - 1 : s[j] \in Blanks
        /\ \A j \in b + 1 .. Len(s) : s[j] \in Blanks
    BY <1>0, <2>2, <2>3
  <2> DEFINE A == SubSeq(s, 1, a - 1)
             B == SubSeq(s, a, b)
             C == SubSeq(s, b + 1, Len(s))
             B0 == SubSeq(s, a, b - 1)
  <2>6. A \in Text /\ B \in Text /\ C \in Text /\ B0 \in Text
    BY <1>0, <2>5
  <2>7. s = (A \o B) \o C
    <3>1. A \o B = SubSeq(s, 1, b)
      <4>1. 1 \in 1 .. Len(s) + 1 /\ a - 1 \in 1 - 1 .. Len(s) /\ b \in a - 1 .. Len(s)
            /\ (a - 1) + 1 = a
        BY <1>0, <2>5
      <4>2. SubSeq(s, 1, a - 1) \o SubSeq(s, (a - 1) + 1, b) = SubSeq(s, 1, b)
        BY <1>0, <4>1, ConcatAdjacentSubSeq
      <4> QED
        BY <4>1, <4>2
    <3>2. SubSeq(s, 1, b) \o C = SubSeq(s, 1, Len(s))
      <4>1. 1 \in 1 .. Len(s) + 1 /\ b \in 1 - 1 .. Len(s) /\ Len(s) \in b .. Len(s)
        BY <1>0, <2>5
      <4> QED
        BY <1>0, <4>1, ConcatAdjacentSubSeq
    <3> QED
      BY <1>0, <3>1, <3>2, SubSeqFull
  <2>8. NonBlanks(A) = <<>>
    <3>1. \A k \in 1 .. Len(A) : A[k] \in Blanks
      BY <1>0, <2>5
    <3> QED
      BY <2>6, <3>1, OnlyBlanks
  <2>9. NonBlanks(C) = <<>>
    <3>1. \A k \in 1 .. Len(C) : C[k] \in Blanks
      BY <1>0, <2>5
    <3> QED
      BY <2>6, <3>1, OnlyBlanks
  <2>10. NonBlanks(B) # <<>> /\ B # <<>>
    <3>1. B = B0 \o <<s[b]>> /\ s[b] \in Chars
      BY <1>0, <2>5, SubSeqRecursiveSecond
    <3>2. B = Append(B0, s[b])
      BY <1>0, <2>6, <3>1, AppendIsConcat
    <3>3. NonBlanks(B) = Append(NonBlanks(B0), s[b]) /\ NonBlanks(B0) \in Seq(Chars)
      BY <1>0, <2>5, <2>6, <3>1, <3>2, NonBlanksLaws
    <3> QED
      BY <1>0, <2>6, <3>1, <3>2, <3>3, AppendProperties
  <2> HIDE DEF A, B, C
  <2>11. NonBlanks(s) = NonBlanks(B)
    <3>1. A \o B \in Text /\ NonBlanks(A) \in Seq(Chars) /\ NonBlanks(B) \in Seq(Chars)
      BY <1>0, <2>6, NonBlanksLaws
    <3>2. NonBlanks(s) = (NonBlanks(A) \o NonBlanks(B)) \o NonBlanks(C)
      <4>1. NonBlanks((A \o B) \o C) = NonBlanks(A \o B) \o NonBlanks(C)
        BY <2>6, <3>1, NonBlanksConcat
      <4>2. NonBlanks(A \o B) = NonBlanks(A) \o NonBlanks(B)
        BY <2>6, NonBlanksConcat
      <4> QED
        BY <2>7, <4>1, <4>2
    <3>3. <<>> \o NonBlanks(B) = NonBlanks(B) /\ NonBlanks(B) \o <<>> = NonBlanks(B)
      BY <3>1, ConcatEmptySeq
    <3> QED
      BY <2>8, <2>9, <3>2, <3>3
  <2> QED
    BY <2>4, <2>6, <2>10, <2>11 DEF B
<1> QED
  BY <1>1, <1>2

\* What NonBlanks and TrimSpace do to each piece.
LEMMA MapLaws ==
  /\ Map(<<>>, NonBlanks) = <<>> /\ Map(<<>>, TrimSpace) = <<>>
  /\ \A P \in Texts : Map(P, NonBlanks) \in Texts /\ Map(P, TrimSpace) \in Texts
  /\ \A P \in Texts, p \in Text :
       /\ Map(Append(P, p), NonBlanks) = Append(Map(P, NonBlanks), NonBlanks(p))
       /\ Map(Append(P, p), TrimSpace) = Append(Map(P, TrimSpace), TrimSpace(p))
<1> DEFINE f == [p \in Text |-> NonBlanks(p)]
           g == [p \in Text |-> TrimSpace(p)]
<1>1. f \in [Text -> Text] /\ \A p \in Text : f[p] = NonBlanks(p)
  BY NonBlanksLaws
<1>2. g \in [Text -> Text] /\ \A p \in Text : g[p] = TrimSpace(p)
  BY TrimSpaceLaws
<1> HIDE DEF f, g
<1>3. ASSUME NEW P \in Texts
      PROVE  /\ Map(P, NonBlanks) = [k \in 1 .. Len(P) |-> f[P[k]]]
             /\ Map(P, TrimSpace) = [k \in 1 .. Len(P) |-> g[P[k]]]
  <2>1. \A k \in 1 .. Len(P) : P[k] \in Text
    BY DEF Texts
  <2> QED
    BY <1>1, <1>2, <2>1 DEF Map
<1>4. ASSUME NEW P \in Texts, NEW p \in Text
      PROVE  /\ Map(P, NonBlanks) \in Texts /\ Map(P, TrimSpace) \in Texts
             /\ Map(Append(P, p), NonBlanks) = Append(Map(P, NonBlanks), NonBlanks(p))
             /\ Map(Append(P, p), TrimSpace) = Append(Map(P, TrimSpace), TrimSpace(p))
  <2>1. Append(P, p) \in Texts
    BY DEF Texts
  <2>2. /\ [k \in 1 .. Len(P) |-> f[P[k]]] \in Texts
        /\ [k \in 1 .. Len(Append(P, p)) |-> f[Append(P, p)[k]]]
             = Append([k \in 1 .. Len(P) |-> f[P[k]]], f[p])
    BY <1>1, EachPiece
  <2>3. /\ [k \in 1 .. Len(P) |-> g[P[k]]] \in Texts
        /\ [k \in 1 .. Len(Append(P, p)) |-> g[Append(P, p)[k]]]
             = Append([k \in 1 .. Len(P) |-> g[P[k]]], g[p])
    BY <1>2, EachPiece
  <2>4. f[p] = NonBlanks(p) /\ g[p] = TrimSpace(p)
    BY <1>1, <1>2
  <2>5. /\ Map(Append(P, p), NonBlanks) = [k \in 1 .. Len(Append(P, p)) |-> f[Append(P, p)[k]]]
        /\ Map(Append(P, p), TrimSpace) = [k \in 1 .. Len(Append(P, p)) |-> g[Append(P, p)[k]]]
    BY <1>3, <2>1
  <2>6. /\ Map(P, NonBlanks) = [k \in 1 .. Len(P) |-> f[P[k]]]
        /\ Map(P, TrimSpace) = [k \in 1 .. Len(P) |-> g[P[k]]]
    BY <1>3
  <2> QED
    BY <2>2, <2>3, <2>4, <2>5, <2>6, Zenon
<1>5. Map(<<>>, NonBlanks) = <<>> /\ Map(<<>>, TrimSpace) = <<>>
  BY DEF Map
<1>6. <<>> \in Text
  BY DEF Text
<1> QED
  BY <1>4, <1>5, <1>6

-----------------------------------------------------------------------------
(* Lines and their comments.                                               *)

\* Index finds the first pair from a position on, if there is one.
LEMMA IndexLaws ==
  ASSUME NEW s \in Text, NEW from \in Nat \ {0}, NEW c, NEW d
  PROVE  LET i == Index(s, from, c, d)
         IN  /\ i = 0 => \A k \in from .. Len(s) : ~Pair(s, k, c, d)
             /\ i # 0 => /\ i \in from .. Len(s) /\ i + 1 <= Len(s)
                         /\ Pair(s, i, c, d)
                         /\ \A k \in from .. i - 1 : ~Pair(s, k, c, d)
<1> DEFINE P == {k \in from .. Len(s) : Pair(s, k, c, d)}
           i == Index(s, from, c, d)
<1>0. Len(s) \in Nat
  BY DEF Text
<1>1. CASE P = {}
  <2>1. i = 0
    BY <1>1 DEF Index
  <2>2. \A k \in from .. Len(s) : ~Pair(s, k, c, d)
    BY <1>1
  <2> QED
    BY <2>1, <2>2
<1>2. CASE P # {}
  <2>1. P \in SUBSET Nat
    BY <1>0
  <2>2. \E k \in P : \A j \in P : k <= j
    <3> HIDE DEF P
    <3> QED
      BY <1>2, <2>1, LeastNumber
  <2>3. i = CHOOSE k \in P : \A j \in P : k <= j
    BY <1>2 DEF Index
  <2>4. i \in P /\ \A j \in P : i <= j
    <3> HIDE DEF P, i
    <3> QED
      BY <2>2, <2>3
  <2> HIDE DEF i
  <2>5. i \in from .. Len(s) /\ Pair(s, i, c, d) /\ i # 0
    BY <1>0, <2>4
  <2>6. ASSUME NEW k \in from .. i - 1 PROVE ~Pair(s, k, c, d)
    <3>1. k \in from .. Len(s) /\ ~(i <= k)
      BY <1>0, <2>5
    <3> QED
      BY <2>4, <3>1
  <2>7. i + 1 <= Len(s)
    BY <2>5 DEF Pair
  <2> QED
    BY <2>5, <2>6, <2>7 DEF i
<1> QED
  BY <1>1, <1>2

\* A line has a comment.
HasDashes(l) == \E k \in 1 .. Len(l) : Pair(l, k, "-", "-")

\* A line ends in a dash.
EndsIn(l, c) == l # <<>> /\ l[Len(l)] = c

\* A pair in a longer text is one of the shorter text or has the new character.
LEMMA PairAppend ==
  ASSUME NEW s \in Text, NEW e \in Chars, NEW c, NEW d, NEW k \in Nat \ {0}
  PROVE  /\ k < Len(s) => (Pair(Append(s, e), k, c, d) <=> Pair(s, k, c, d))
         /\ k = Len(s) => (Pair(Append(s, e), k, c, d) <=> s[k] = c /\ e = d)
         /\ k > Len(s) => ~Pair(Append(s, e), k, c, d)
         /\ k >= Len(s) => ~Pair(s, k, c, d)
<1>1. /\ Len(s) \in Nat /\ Len(Append(s, e)) = Len(s) + 1 /\ Append(s, e)[Len(s) + 1] = e
      /\ \A j \in 1 .. Len(s) : Append(s, e)[j] = s[j]
  BY AppendProperties DEF Text
<1>2. CASE k < Len(s)
  <2>1. k \in 1 .. Len(s) /\ k + 1 \in 1 .. Len(s) /\ ~(k >= Len(s)) /\ ~(k > Len(s)) /\ k # Len(s)
        /\ k + 1 <= Len(s) + 1 /\ k + 1 <= Len(s)
    BY <1>1, <1>2
  <2> QED
    BY <1>1, <2>1 DEF Pair
<1>3. CASE k = Len(s)
  <2>1. k \in 1 .. Len(s) /\ ~(k + 1 <= Len(s)) /\ k + 1 <= Len(s) + 1 /\ k + 1 = Len(s) + 1
        /\ ~(k < Len(s)) /\ ~(k > Len(s))
    BY <1>1, <1>3
  <2> QED
    BY <1>1, <1>3, <2>1 DEF Pair
<1>4. CASE k > Len(s)
  <2>1. ~(k + 1 <= Len(s)) /\ ~(k + 1 <= Len(s) + 1) /\ ~(k < Len(s)) /\ k # Len(s)
    BY <1>1, <1>4
  <2> QED
    BY <1>1, <2>1 DEF Pair
<1> QED
  BY <1>1, <1>2, <1>3, <1>4

\* When one more character makes or keeps a comment.
LEMMA DashesAppend ==
  ASSUME NEW l \in Text, NEW c \in Chars
  PROVE  HasDashes(Append(l, c)) <=> HasDashes(l) \/ (EndsIn(l, "-") /\ c = "-")
<1>0. Len(l) \in Nat /\ Len(Append(l, c)) = Len(l) + 1 /\ (l # <<>> <=> Len(l) # 0)
  BY AppendProperties DEF Text
<1>1. ASSUME HasDashes(Append(l, c)) PROVE HasDashes(l) \/ (EndsIn(l, "-") /\ c = "-")
  <2>1. PICK k \in 1 .. Len(l) + 1 : Pair(Append(l, c), k, "-", "-")
    BY <1>0, <1>1 DEF HasDashes
  <2>2. k \in Nat \ {0}
    BY <1>0
  <2>3. CASE k < Len(l)
    BY <1>0, <2>1, <2>2, <2>3, PairAppend DEF HasDashes
  <2>4. CASE k >= Len(l)
    BY <1>0, <2>1, <2>2, <2>4, PairAppend DEF EndsIn
  <2> QED
    BY <1>0, <2>2, <2>3, <2>4
<1>2. ASSUME HasDashes(l) PROVE HasDashes(Append(l, c))
  <2>1. PICK k \in 1 .. Len(l) : Pair(l, k, "-", "-")
    BY <1>2 DEF HasDashes
  <2>2. k \in Nat \ {0} /\ k < Len(l) /\ k \in 1 .. Len(l) + 1
    BY <1>0, <2>1 DEF Pair
  <2> QED
    BY <1>0, <2>1, <2>2, PairAppend DEF HasDashes
<1>3. ASSUME EndsIn(l, "-"), c = "-" PROVE HasDashes(Append(l, c))
  <2>1. Len(l) \in Nat \ {0} /\ Len(l) \in 1 .. Len(l) + 1 /\ l[Len(l)] = "-"
    BY <1>0, <1>3 DEF EndsIn
  <2> QED
    BY <1>0, <1>3, <2>1, PairAppend DEF HasDashes
<1> QED
  BY <1>1, <1>2, <1>3

\* A shorter text is the beginning of a longer one.
LEMMA SubSeqAppend ==
  ASSUME NEW s \in Text, NEW c \in Chars, NEW n \in 0 .. Len(s)
  PROVE  SubSeq(Append(s, c), 1, n) = SubSeq(s, 1, n) /\ SubSeq(s, 1, n) \in Text
<1>0. s \in Seq(Chars) /\ Len(s) \in Nat
  BY DEF Text
<1>1. /\ Append(s, c) \in Seq(Chars) /\ Len(Append(s, c)) = Len(s) + 1
      /\ \A j \in 1 .. Len(s) : Append(s, c)[j] = s[j]
  BY <1>0, AppendProperties
<1> DEFINE A == SubSeq(Append(s, c), 1, n)
           B == SubSeq(s, 1, n)
<1>2. \A i \in 1 .. n : i \in 1 .. Len(s) /\ s[i] \in Chars /\ Append(s, c)[i] = s[i]
  BY <1>0, <1>1
<1>3. /\ A \in Seq(Chars) /\ Len(A) = n
      /\ \A i \in 1 .. n : A[i] = s[i]
  <2>1. 1 \in Int /\ n \in Int /\ n - 1 + 1 = n
        /\ \A i \in 1 .. n : Append(s, c)[i] \in Chars /\ 1 + i - 1 = i
    BY <1>2
  <2> QED
    BY <1>2, <2>1, SubSeqProperties
<1>4. /\ B \in Seq(Chars) /\ Len(B) = n
      /\ \A i \in 1 .. n : B[i] = s[i]
  <2>1. 1 \in Int /\ n \in Int /\ n - 1 + 1 = n
        /\ \A i \in 1 .. n : s[i] \in Chars /\ 1 + i - 1 = i
    BY <1>2
  <2> QED
    BY <1>2, <2>1, SubSeqProperties
<1> HIDE DEF A, B
<1>5. A = B
  BY <1>3, <1>4, SeqEqual
<1> QED
  BY <1>4, <1>5 DEF A, B, Text

\* What one more character changes in a line without its comment.
LEMMA UpToCommentLaws ==
  ASSUME NEW l \in Text
  PROVE  /\ UpToComment(l) \in Text
         /\ ~HasDashes(l) => UpToComment(l) = l
         /\ \A c \in Chars :
              /\ HasDashes(l) => UpToComment(Append(l, c)) = UpToComment(l)
              /\ ~HasDashes(l) /\ EndsIn(l, "-") /\ c = "-"
                   => UpToComment(Append(l, c)) = SubSeq(l, 1, Len(l) - 1)
<1> DEFINE i == Index(l, 1, "-", "-")
<1>0. Len(l) \in Nat /\ l \in Seq(Chars) /\ Text = Seq(Chars)
  BY DEF Text
<1>1. /\ i = 0 => \A k \in 1 .. Len(l) : ~Pair(l, k, "-", "-")
      /\ i # 0 => /\ i \in 1 .. Len(l) /\ i + 1 <= Len(l)
                  /\ Pair(l, i, "-", "-")
                  /\ \A k \in 1 .. i - 1 : ~Pair(l, k, "-", "-")
  BY IndexLaws
<1>2. UpToComment(l) = IF i = 0 THEN l ELSE SubSeq(l, 1, i - 1)
  BY DEF UpToComment
<1> HIDE DEF i
<1>3. HasDashes(l) <=> i # 0
  BY <1>1 DEF HasDashes
<1>4. UpToComment(l) \in Text
  BY <1>0, <1>1, <1>2
<1>5. ASSUME NEW c \in Chars
      PROVE  /\ HasDashes(l) => UpToComment(Append(l, c)) = UpToComment(l)
             /\ ~HasDashes(l) /\ EndsIn(l, "-") /\ c = "-"
                  => UpToComment(Append(l, c)) = SubSeq(l, 1, Len(l) - 1)
  <2> DEFINE m == Append(l, c)
             j == Index(m, 1, "-", "-")
  <2>1. m \in Text /\ Len(m) = Len(l) + 1
    BY <1>0, AppendProperties
  <2>2. /\ j = 0 => \A k \in 1 .. Len(m) : ~Pair(m, k, "-", "-")
        /\ j # 0 => /\ j \in 1 .. Len(m) /\ j + 1 <= Len(m)
                    /\ Pair(m, j, "-", "-")
                    /\ \A k \in 1 .. j - 1 : ~Pair(m, k, "-", "-")
    <3> HIDE DEF m
    <3> QED
      BY <2>1, IndexLaws
  <2>3. UpToComment(m) = IF j = 0 THEN m ELSE SubSeq(m, 1, j - 1)
    BY DEF UpToComment
  <2> HIDE DEF j
  <2>4. ASSUME NEW k \in Nat \ {0}
        PROVE  /\ k < Len(l) => (Pair(m, k, "-", "-") <=> Pair(l, k, "-", "-"))
               /\ k = Len(l) => (Pair(m, k, "-", "-") <=> l[k] = "-" /\ c = "-")
    BY PairAppend
  <2> HIDE DEF m
  <2>5. ASSUME NEW n \in 1 .. Len(l), Pair(m, n, "-", "-"),
               \A k \in 1 .. n - 1 : ~Pair(m, k, "-", "-")
        PROVE  UpToComment(m) = SubSeq(l, 1, n - 1)
    <3>1. n \in 1 .. Len(m)
      BY <1>0, <2>1
    <3>2. j # 0
      BY <2>2, <2>5, <3>1
    <3>3. ~(j < n)
      <4> SUFFICES ASSUME j < n PROVE FALSE
        OBVIOUS
      <4>1. j \in 1 .. n - 1
        BY <1>0, <2>1, <2>2, <3>2
      <4> QED
        BY <2>2, <2>5, <3>2, <4>1
    <3>4. ~(n < j)
      <4> SUFFICES ASSUME n < j PROVE FALSE
        OBVIOUS
      <4>1. n \in 1 .. j - 1
        BY <1>0, <2>1, <2>2, <3>2
      <4> QED
        BY <2>2, <2>5, <3>2, <4>1
    <3>5. j = n /\ n - 1 \in 0 .. Len(l)
      BY <1>0, <2>1, <2>2, <3>2, <3>3, <3>4
    <3> QED
      BY <2>3, <3>2, <3>5, SubSeqAppend DEF m
  <2>6. ASSUME HasDashes(l) PROVE UpToComment(m) = UpToComment(l)
    <3>1. i # 0 /\ i \in 1 .. Len(l) /\ i < Len(l) /\ i \in Nat \ {0}
      BY <1>0, <1>1, <1>3, <2>6
    <3>2. Pair(m, i, "-", "-")
      BY <1>1, <2>4, <3>1
    <3>3. ASSUME NEW k \in 1 .. i - 1 PROVE ~Pair(m, k, "-", "-")
      <4>1. k \in Nat \ {0} /\ k < Len(l)
        BY <3>1
      <4> QED
        BY <1>1, <2>4, <3>1, <4>1
    <3> QED
      BY <1>2, <2>5, <3>1, <3>2, <3>3
  <2>7. ASSUME ~HasDashes(l), EndsIn(l, "-"), c = "-"
        PROVE  UpToComment(m) = SubSeq(l, 1, Len(l) - 1)
    <3>1. Len(l) \in 1 .. Len(l) /\ Len(l) \in Nat \ {0} /\ l[Len(l)] = "-"
      BY <1>0, <2>7 DEF EndsIn
    <3>2. Pair(m, Len(l), "-", "-")
      BY <2>4, <2>7, <3>1
    <3>3. ASSUME NEW k \in 1 .. Len(l) - 1 PROVE ~Pair(m, k, "-", "-")
      <4>1. k \in Nat \ {0} /\ k < Len(l) /\ k \in 1 .. Len(l)
        BY <3>1
      <4> QED
        BY <1>1, <1>3, <2>4, <2>7, <4>1
    <3> QED
      BY <2>5, <3>1, <3>2, <3>3
  <2> QED
    BY <2>6, <2>7 DEF m
<1> QED
  BY <1>2, <1>3, <1>4, <1>5

\* What CutLine does to each line.
LEMMA CutLineLaws ==
  /\ \A l \in Text : CutLine(l) \in Text /\ NonBlanks(CutLine(l)) = NonBlanks(UpToComment(l))
  /\ Map(<<>>, CutLine) = <<>>
  /\ \A P \in Texts : Map(P, CutLine) \in Texts
  /\ \A P \in Texts, p \in Text : Map(Append(P, p), CutLine) = Append(Map(P, CutLine), CutLine(p))
<1> DEFINE f == [p \in Text |-> CutLine(p)]
<1>1. \A l \in Text : CutLine(l) \in Text /\ NonBlanks(CutLine(l)) = NonBlanks(UpToComment(l))
  BY TrimSpaceLaws, UpToCommentLaws DEF CutLine
<1>2. f \in [Text -> Text] /\ \A p \in Text : f[p] = CutLine(p)
  BY <1>1
<1> HIDE DEF f
<1>3. ASSUME NEW P \in Texts PROVE Map(P, CutLine) = [k \in 1 .. Len(P) |-> f[P[k]]]
  <2>1. \A k \in 1 .. Len(P) : P[k] \in Text
    BY DEF Texts
  <2> QED
    BY <1>2, <2>1 DEF Map
<1>4. ASSUME NEW P \in Texts, NEW p \in Text
      PROVE  /\ Map(P, CutLine) \in Texts
             /\ Map(Append(P, p), CutLine) = Append(Map(P, CutLine), CutLine(p))
  <2>1. Append(P, p) \in Texts
    BY DEF Texts
  <2>2. /\ [k \in 1 .. Len(P) |-> f[P[k]]] \in Texts
        /\ [k \in 1 .. Len(Append(P, p)) |-> f[Append(P, p)[k]]]
             = Append([k \in 1 .. Len(P) |-> f[P[k]]], f[p])
    BY <1>2, EachPiece
  <2>3. Map(Append(P, p), CutLine) = [k \in 1 .. Len(Append(P, p)) |-> f[Append(P, p)[k]]]
    BY <1>3, <2>1
  <2>4. Map(P, CutLine) = [k \in 1 .. Len(P) |-> f[P[k]]] /\ f[p] = CutLine(p)
    BY <1>2, <1>3
  <2> QED
    BY <2>2, <2>3, <2>4, Zenon
<1>5. Map(<<>>, CutLine) = <<>>
  BY DEF Map
<1>6. <<>> \in Text
  BY DEF Text
<1> QED
  BY <1>1, <1>4, <1>5, <1>6

-----------------------------------------------------------------------------
(* Blanks do not matter to where statements end.                           *)

\* Without blanks before or after cutting at semicolons, the pieces are the same.
LEMMA SplitNonBlanks ==
  ASSUME NEW s \in Text
  PROVE  Map(Split(s, ";"), NonBlanks) = Split(NonBlanks(s), ";")
<1> DEFINE S == {t \in Text : Map(Split(t, ";"), NonBlanks) = Split(NonBlanks(t), ";")}
<1>0. ";" \in Chars /\ ";" \notin Blanks
  BY DEF Chars, Blanks
<1>s. \A t \in Text, d \in Chars : \E F \in Texts, l \in Text :
        /\ Split(t, ";") = Append(F, l)
        /\ Split(Append(t, d), ";") = IF d = ";" THEN Append(Append(F, l), <<>>)
                                      ELSE Append(F, Append(l, d))
  BY <1>0, SplitLaws
<1>1. <<>> \in S
  <2>1. <<<<>>>> = Append(<<>>, <<>>)
    OBVIOUS
  <2>2. Map(Append(<<>>, <<>>), NonBlanks) = Append(Map(<<>>, NonBlanks), NonBlanks(<<>>))
    BY Closed, MapLaws
  <2>3. Map(<<<<>>>>, NonBlanks) = <<<<>>>>
    BY <2>1, <2>2, MapLaws, NonBlanksLaws
  <2> QED
    BY <1>0, <2>3, Closed, SplitLaws, NonBlanksLaws
<1>2. ASSUME NEW t \in Seq(Chars), NEW c \in Chars, t \in S PROVE Append(t, c) \in S
  <2> DEFINE n == NonBlanks(t)
  <2>0. t \in Text /\ Append(t, c) \in Text /\ n \in Text
    BY Closed, NonBlanksLaws
  <2>1. PICK F \in Texts, l \in Text :
          /\ Split(t, ";") = Append(F, l)
          /\ Split(Append(t, c), ";") = IF c = ";" THEN Append(Append(F, l), <<>>)
                                        ELSE Append(F, Append(l, c))
    BY <1>s, <2>0
  <2>2. PICK G \in Texts, m \in Text :
          /\ Split(n, ";") = Append(G, m)
          /\ Split(Append(n, c), ";") = IF c = ";" THEN Append(Append(G, m), <<>>)
                                        ELSE Append(G, Append(m, c))
    BY <1>s, <2>0
  <2>3. /\ Map(F, NonBlanks) \in Texts /\ NonBlanks(l) \in Text
        /\ Append(F, l) \in Texts /\ Append(l, c) \in Text
    BY Closed, MapLaws, NonBlanksLaws
  <2>4. Append(G, m) = Append(Map(F, NonBlanks), NonBlanks(l))
    <3>1. Map(Split(t, ";"), NonBlanks) = Split(n, ";")
      BY <1>2
    <3> QED
      BY <2>1, <2>2, <3>1, MapLaws
  <2>5. G = Map(F, NonBlanks) /\ m = NonBlanks(l)
    <3> DEFINE H == Map(F, NonBlanks)
               x == NonBlanks(l)
    <3>1. G \in Seq(Text) /\ H \in Seq(Text) /\ m \in Text /\ x \in Text
      BY <2>3, Closed
    <3>2. Append(G, m) = Append(H, x)
      BY <2>4
    <3> HIDE DEF H, x
    <3>3. G = H /\ m = x
      BY <3>1, <3>2, SameEnds
    <3> QED
      BY <3>3 DEF H, x
  <2>6. NonBlanks(Append(t, c)) = IF c \in Blanks THEN n ELSE Append(n, c)
    BY <2>0, NonBlanksLaws
  <2>7. NonBlanks(Append(l, c)) = IF c \in Blanks THEN m ELSE Append(m, c)
    BY <2>5, NonBlanksLaws
  <2>8. Map(Append(F, Append(l, c)), NonBlanks) = Append(G, NonBlanks(Append(l, c)))
    BY <2>3, <2>5, MapLaws
  <2>9. Map(Append(Append(F, l), <<>>), NonBlanks) = Append(Append(G, m), <<>>)
    <3>1. Map(Append(Append(F, l), <<>>), NonBlanks)
            = Append(Map(Append(F, l), NonBlanks), NonBlanks(<<>>))
      BY <2>3, Closed, MapLaws
    <3>2. Map(Append(F, l), NonBlanks) = Append(G, m)
      BY <2>5, MapLaws
    <3> QED
      BY <3>1, <3>2, NonBlanksLaws
  <2> HIDE DEF n
  <2>10. Map(Split(Append(t, c), ";"), NonBlanks) = Split(NonBlanks(Append(t, c)), ";")
    <3>1. CASE c = ";"
      BY <1>0, <2>1, <2>2, <2>6, <2>9, <3>1
    <3>2. CASE c # ";" /\ c \in Blanks
      BY <2>1, <2>2, <2>6, <2>7, <2>8, <3>2
    <3>3. CASE c # ";" /\ c \notin Blanks
      BY <2>1, <2>2, <2>6, <2>7, <2>8, <3>3
    <3> QED
      BY <3>1, <3>2, <3>3
  <2> QED
    BY <2>0, <2>10
<1> HIDE DEF S
<1>3. s \in S
  BY <1>1, <1>2, Closed, SeqInduct
<1> QED
  BY <1>3 DEF S

\* Trimming the pieces and dropping the empty ones keeps what is not blank.
LEMMA TrimmedPieces ==
  ASSUME NEW P \in Texts
  PROVE  Map(NonEmpty(Map(P, TrimSpace)), NonBlanks) = NonEmpty(Map(P, NonBlanks))
<1> DEFINE S == {Q \in Texts :
                   Map(NonEmpty(Map(Q, TrimSpace)), NonBlanks) = NonEmpty(Map(Q, NonBlanks))}
<1>0. Texts = Seq(Text) /\ <<>> \in Texts
  BY DEF Texts
<1>1. <<>> \in S
  BY <1>0, MapLaws, NonEmptyLaws
<1>2. ASSUME NEW Q \in Seq(Text), NEW p \in Text, Q \in S PROVE Append(Q, p) \in S
  <2> DEFINE T == Map(Q, TrimSpace)
             N == Map(Q, NonBlanks)
             t == TrimSpace(p)
             n == NonBlanks(p)
  <2>0. Q \in Texts /\ Append(Q, p) \in Texts /\ T \in Texts /\ N \in Texts
    BY <1>0, MapLaws
  <2>1. t \in Text /\ n \in Text /\ NonBlanks(t) = n /\ (t = <<>> <=> n = <<>>)
    BY TrimSpaceLaws, NonBlanksLaws
  <2>2. Map(Append(Q, p), TrimSpace) = Append(T, t) /\ Map(Append(Q, p), NonBlanks) = Append(N, n)
    BY <2>0, MapLaws
  <2>3. Map(NonEmpty(T), NonBlanks) = NonEmpty(N)
    BY <1>2
  <2> HIDE DEF T, N, t, n
  <2>4. /\ NonEmpty(Append(T, t)) = IF t = <<>> THEN NonEmpty(T) ELSE Append(NonEmpty(T), t)
        /\ NonEmpty(Append(N, n)) = IF n = <<>> THEN NonEmpty(N) ELSE Append(NonEmpty(N), n)
        /\ NonEmpty(T) \in Texts
    BY <2>0, <2>1, NonEmptyLaws
  <2>5. Map(Append(NonEmpty(T), t), NonBlanks) = Append(NonEmpty(N), n)
    BY <2>1, <2>3, <2>4, MapLaws
  <2>6. Map(NonEmpty(Append(T, t)), NonBlanks) = NonEmpty(Append(N, n))
    BY <2>1, <2>3, <2>4, <2>5
  <2> QED
    BY <2>0, <2>2, <2>6
<1> HIDE DEF S
<1>3. P \in S
  BY <1>0, <1>1, <1>2, SeqInduct
<1> QED
  BY <1>3 DEF S

\* The non-blanks of the lines without their comments, in a row.
Flat(P) ==
  ForEach([o \in Text |-> [l \in Text |-> o \o NonBlanks(UpToComment(l))]], <<>>, P)

\* Flat goes through the lines one after the other.
LEMMA FlatLaws ==
  /\ Flat(<<>>) = <<>>
  /\ \A P \in Texts : Flat(P) \in Text
  /\ \A P \in Texts, l \in Text : Flat(Append(P, l)) = Flat(P) \o NonBlanks(UpToComment(l))
<1> DEFINE step == [o \in Text |-> [l \in Text |-> o \o NonBlanks(UpToComment(l))]]
<1>0. Text = Seq(Chars) /\ <<>> \in Text
  BY DEF Text
<1>1. ASSUME NEW o \in Text, NEW l \in Text PROVE o \o NonBlanks(UpToComment(l)) \in Text
  <2>1. NonBlanks(UpToComment(l)) \in Text
    BY UpToCommentLaws, NonBlanksLaws
  <2> QED
    BY <1>0, <2>1, ConcatProperties
<1>2. step \in [Text -> [Text -> Text]]
  BY <1>1
<1>3. \A o \in Text, l \in Text : step[o][l] = o \o NonBlanks(UpToComment(l))
  OBVIOUS
<1>4. \A P : Flat(P) = ForEach(step, <<>>, P)
  BY DEF Flat
<1> HIDE DEF step
<1>5. IsLoop(Text, Text, step, <<>>)
  BY <1>0, <1>2 DEF IsLoop
<1>6. /\ ForEach(step, <<>>, <<>>) = <<>>
      /\ \A P \in Seq(Text) : ForEach(step, <<>>, P) \in Text
      /\ \A P \in Seq(Text), p \in Text :
           ForEach(step, <<>>, Append(P, p)) = step[ForEach(step, <<>>, P)][p]
  BY <1>5, ForEachLaws
<1>7. /\ Flat(<<>>) = <<>>
      /\ \A P \in Texts : Flat(P) \in Text
      /\ \A P \in Texts, l \in Text : Flat(Append(P, l)) = step[Flat(P)][l]
  BY <1>4, <1>6 DEF Texts
<1> QED
  BY <1>3, <1>7

\* Joining the lines adds blanks only.
LEMMA JoinedLines ==
  ASSUME NEW P \in Texts
  PROVE  NonBlanks(Join(NonEmpty(Map(P, CutLine)))) = Flat(P)
<1> DEFINE L(Q) == NonEmpty(Map(Q, CutLine))
           S == {Q \in Texts : NonBlanks(Join(L(Q))) = Flat(Q)}
<1>1. <<>> \in S
  BY Closed, CutLineLaws, NonEmptyLaws, JoinLaws, FlatLaws, NonBlanksLaws
<1>2. ASSUME NEW Q \in Seq(Text), NEW p \in Text, Q \in S PROVE Append(Q, p) \in S
  <2> DEFINE c == CutLine(p)
             K == Map(Q, CutLine)
             J == Join(NonEmpty(K))
  <2>0. Q \in Texts /\ Append(Q, p) \in Texts /\ K \in Texts /\ c \in Text
    BY Closed, CutLineLaws
  <2>1. Map(Append(Q, p), CutLine) = Append(K, c)
    BY <2>0, CutLineLaws
  <2>2. NonBlanks(J) = Flat(Q)
    BY <1>2
  <2>3. Flat(Append(Q, p)) = Flat(Q) \o NonBlanks(c)
    BY <2>0, FlatLaws, CutLineLaws
  <2>4. NonEmpty(K) \in Texts /\ J \in Text
    BY <2>0, NonEmptyLaws, JoinLaws
  <2>5. NonEmpty(Append(K, c)) = IF c = <<>> THEN NonEmpty(K) ELSE Append(NonEmpty(K), c)
    BY <2>0, NonEmptyLaws
  <2>6. Join(Append(NonEmpty(K), c)) = IF J = <<>> THEN c ELSE J \o <<" ">> \o c
    BY <2>0, <2>4, JoinLaws
  <2>7. NonBlanks(J) \in Seq(Chars) /\ NonBlanks(c) \in Seq(Chars)
    BY <2>0, <2>4, Closed, NonBlanksLaws
  <2> HIDE DEF c, K, J
  <2>8. NonBlanks(J \o <<" ">> \o c) = NonBlanks(J) \o NonBlanks(c)
    <3>1. " " \in Chars /\ " " \in Blanks
      BY DEF Chars, Blanks
    <3>2. J \o <<" ">> = Append(J, " ")
      BY <2>4, <3>1, Closed, AppendIsConcat
    <3>3. J \o <<" ">> \in Text /\ NonBlanks(J \o <<" ">>) = NonBlanks(J)
      BY <2>4, <3>1, <3>2, Closed, NonBlanksLaws
    <3> QED
      BY <2>0, <3>3, NonBlanksConcat
  <2>9. NonBlanks(Join(NonEmpty(Append(K, c)))) = NonBlanks(J) \o NonBlanks(c)
    <3>1. CASE c = <<>>
      BY <2>5, <2>7, <3>1, NonBlanksLaws, ConcatEmptySeq DEF J
    <3>2. CASE c # <<>> /\ J = <<>>
      BY <2>5, <2>6, <2>7, <3>2, NonBlanksLaws, ConcatEmptySeq
    <3>3. CASE c # <<>> /\ J # <<>>
      BY <2>5, <2>6, <2>8, <3>3
    <3> QED
      BY <3>1, <3>2, <3>3
  <2> QED
    BY <2>0, <2>1, <2>2, <2>3, <2>9
<1> HIDE DEF S
<1>3. P \in S
  BY <1>1, <1>2, Closed, SeqInduct
<1> QED
  BY <1>3 DEF S

-----------------------------------------------------------------------------
(* The automaton on texts without literals.                                *)

\* A text without literals.
Plain(s) == s \in Text /\ \A k \in 1 .. Len(s) : s[k] \notin Quotes

\* The modes it meets there, words counted as code.
PlainModes == {"code", "dash", "slash", "line", "block", "star"}

\* A word is code to the splitter.
Bare(mode) == IF mode = "word" THEN "code" ELSE mode

\* c completes what begins a comment.
Opens(q, c) == (q = "dash" /\ c = "-") \/ (q = "slash" /\ c = "*")

\* How it goes from one mode to the next.
Turn(q, c) ==
  IF q = "line"  THEN IF c = "nl" THEN "code" ELSE "line"
  ELSE IF q = "block" THEN IF c = "*" THEN "star" ELSE "block"
  ELSE IF q = "star"  THEN IF c = "/" THEN "code" ELSE IF c = "*" THEN "star" ELSE "block"
  ELSE IF q = "dash" /\ c = "-" THEN "line"
  ELSE IF q = "slash" /\ c = "*" THEN "block"
  ELSE IF c = "-" THEN "dash" ELSE IF c = "/" THEN "slash" ELSE "code"

\* Turn stays among the modes, and leads into a comment only from one or by
\* opening one.
LEMMA TurnLaws ==
  ASSUME NEW q \in PlainModes, NEW c
  PROVE  /\ Turn(q, c) \in PlainModes
         /\ InComment(Turn(q, c)) => InComment(q) \/ Opens(q, c)
         /\ Opens(q, c) => InComment(Turn(q, c)) /\ q \in {"dash", "slash"}
         /\ q \in {"dash", "slash"} => ~InComment(q)
         /\ q \in {"dash", "slash"} /\ InComment(Turn(q, c)) => Opens(q, c)
         /\ ~InComment(q) /\ ~Opens(q, c) =>
              (Turn(q, c) \in {"dash", "slash"} <=> c \in {"-", "/"})
         /\ InComment(q) => Turn(q, c) \notin {"dash", "slash"}
         /\ Opens(q, c) => Turn(q, c) \notin {"dash", "slash"}
BY DEF Turn, PlainModes, InComment, Opens

\* Reading a character that is no quote.
LEMMA PlainRead ==
  ASSUME NEW m \in States, NEW c \in Chars \ Quotes, Bare(m.mode) \in PlainModes
  PROVE  Bare(Read(m, c).mode) = Turn(Bare(m.mode), c) /\ Bare(Read(m, c).mode) \in PlainModes
<1> DEFINE q == m.mode
<1>0. q \in PlainModes \cup {"word"}
  BY DEF Bare, PlainModes
<1>1. CASE Fresh(q, c)
  <2>1. Read(m, c) = Enter(m, c)
    BY <1>1, ReadFresh
  <2>2. Read(m, c).mode = IF c \in Letters THEN "word" ELSE EnterMode(c)
    BY <2>1, EnterType
  <2> DEFINE r == Read(m, c).mode
  <2> HIDE DEF q, r
  <2>3. r = IF c \in Letters THEN "word" ELSE EnterMode(c)
    BY <2>2 DEF r
  <2>4. Bare(r) = Turn(Bare(q), c) /\ Bare(r) \in PlainModes
    BY <1>0, <1>1, <2>3 DEF Bare, Turn, EnterMode, Fresh, PlainModes, Letters, Digits, Quotes
  <2> QED
    BY <2>4 DEF q, r
<1>2. CASE ~Fresh(q, c)
  <2>1. /\ q # "word" => Read(m, c).mode = ModeAfter(q, c)
        /\ q = "word" => Read(m, c).mode = "word"
    BY <1>2, ReadInside
  <2> DEFINE r == Read(m, c).mode
  <2> HIDE DEF q, r
  <2>2. (q # "word" => r = ModeAfter(q, c)) /\ (q = "word" => r = "word")
    BY <2>1 DEF r
  <2>3. Bare(r) = Turn(Bare(q), c) /\ Bare(r) \in PlainModes
    BY <1>0, <1>2, <2>2 DEF Bare, Turn, ModeAfter, Fresh, PlainModes, Letters, Digits, Quotes
  <2> QED
    BY <2>3 DEF q, r
<1> QED
  BY <1>1, <1>2

\* The mode after k characters.
At(s, k) == Bare(Reading(s)[k].mode)

\* The automaton on a text without literals makes these turns.
LEMMA PlainReading ==
  ASSUME NEW s, Plain(s)
  PROVE  /\ At(s, 0) = "code"
         /\ \A k \in 0 .. Len(s) : At(s, k) \in PlainModes
         /\ \A k \in 1 .. Len(s) : At(s, k) = Turn(At(s, k - 1), s[k])
<1>0. s \in Seq(Chars) /\ Len(s) \in Nat
  BY DEF Plain, Text
<1>1. At(s, 0) = "code"
  <2>1. Reading(s)[0] = [mode |-> "code", words |-> <<>>]
    BY <1>0, ReadingDef
  <2>2. Reading(s)[0].mode = "code"
    BY <2>1
  <2> QED
    BY <2>2 DEF At, Bare
<1>2. ASSUME NEW k \in 1 .. Len(s), At(s, k - 1) \in PlainModes
      PROVE  At(s, k) = Turn(At(s, k - 1), s[k]) /\ At(s, k) \in PlainModes
  <2>1. /\ Reading(s)[k - 1] \in States /\ s[k] \in Chars \ Quotes
        /\ Reading(s)[k] = Read(Reading(s)[k - 1], s[k])
    BY <1>0, NextRead DEF Plain
  <2> QED
    BY <1>2, <2>1, PlainRead DEF At
<1> DEFINE S == {k \in Nat : At(s, k) \in PlainModes}
<1>3. 0 \in S
  BY <1>1 DEF PlainModes
<1>4. ASSUME NEW k \in 0 .. Len(s) - 1, k \in S PROVE k + 1 \in S
  <2>1. k + 1 \in 1 .. Len(s) /\ (k + 1) - 1 = k /\ k + 1 \in Nat
    BY <1>0
  <2>2. At(s, k + 1) \in PlainModes
    BY <1>2, <1>4, <2>1
  <2> QED
    BY <2>1, <2>2
<1> HIDE DEF S
<1>5. 0 \in Nat /\ Len(s) \in Nat /\ \A k \in 0 .. Len(s) - 1 : k \in S => k + 1 \in S
  BY <1>0, <1>4
<1>6. \A k \in 0 .. Len(s) : k \in S
  BY <1>3, <1>5, InductUp
<1>7. \A k \in 0 .. Len(s) : At(s, k) \in PlainModes
  BY <1>6 DEF S
<1>8. ASSUME NEW k \in 1 .. Len(s) PROVE At(s, k) = Turn(At(s, k - 1), s[k])
  <2>1. k - 1 \in 0 .. Len(s)
    BY <1>0
  <2> QED
    BY <1>2, <1>7, <2>1
<1> QED
  BY <1>1, <1>7, <1>8

\* What comes later changes nothing in the reading of what came before.
LEMMA ReadingAppend ==
  ASSUME NEW s \in Text, NEW c \in Chars
  PROVE  \A k \in 0 .. Len(s) : Reading(Append(s, c))[k] = Reading(s)[k]
<1> DEFINE t == Append(s, c)
           S == {k \in Nat : Reading(t)[k] = Reading(s)[k]}
<1>0. /\ s \in Seq(Chars) /\ t \in Seq(Chars) /\ Len(s) \in Nat /\ Len(t) = Len(s) + 1
      /\ \A k \in 1 .. Len(s) : t[k] = s[k]
  BY AppendProperties DEF Text
<1> HIDE DEF t
<1>1. 0 \in S
  BY <1>0, ReadingDef
<1>2. ASSUME NEW k \in 0 .. Len(s) - 1, k \in S PROVE k + 1 \in S
  <2>0. Len(t) = Len(s) + 1 /\ Len(s) \in Nat
    BY <1>0
  <2>1. k + 1 \in 1 .. Len(s) /\ k + 1 \in 1 .. Len(t) /\ (k + 1) - 1 = k /\ k + 1 \in Nat
    BY <2>0
  <2>2. /\ Reading(s)[k + 1] = Read(Reading(s)[k], s[k + 1])
        /\ Reading(t)[k + 1] = Read(Reading(t)[k], t[k + 1])
    BY <1>0, <2>1, ReadingDef
  <2>3. Reading(t)[k] = Reading(s)[k] /\ t[k + 1] = s[k + 1]
    BY <1>0, <1>2, <2>1
  <2> QED
    BY <2>1, <2>2, <2>3
<1> HIDE DEF S
<1>3. 0 \in Nat /\ Len(s) \in Nat /\ \A k \in 0 .. Len(s) - 1 : k \in S => k + 1 \in S
  BY <1>0, <1>2
<1>4. \A k \in 0 .. Len(s) : k \in S
  BY <1>1, <1>3, InductUp
<1> QED
  BY <1>4 DEF S, t

-----------------------------------------------------------------------------
(* What the automaton leaves of a text, one character at a time.           *)

\* A name for the blank, which the solver meets inside tuples.
Space == " "

\* Whether the last character may turn out to begin a comment.
Pending(s) == At(s, Len(s)) \in {"dash", "slash"}

\* Character k of s belongs to a comment.
Hidden(s, k) == Commented(Reading(s), k)

\* The text with its comments blank, and its last character too while that
\* is pending.
Settled(s) ==
  [k \in 1 .. Len(s) |-> IF Hidden(s, k) \/ (k = Len(s) /\ Pending(s)) THEN Space ELSE s[k]]

\* What a comment is, in terms of At.
LEMMA HiddenAt ==
  ASSUME NEW s, Plain(s), NEW k \in 1 .. Len(s)
  PROVE  Hidden(s, k) <=>
           \/ k + 1 <= Len(s) /\ At(s, k) \in {"dash", "slash"} /\ InComment(At(s, k + 1))
           \/ InComment(At(s, k))
           \/ InComment(At(s, k - 1))
<1>0. Len(s) \in Nat /\ DOMAIN Reading(s) = 0 .. Len(s)
  BY ReadingDef DEF Plain, Text
<1>1. k + 1 \in DOMAIN Reading(s) <=> k + 1 <= Len(s)
  BY <1>0
<1>2. ASSUME NEW j
      PROVE  /\ InComment(At(s, j)) <=> InComment(Reading(s)[j].mode)
             /\ At(s, j) \in {"dash", "slash"} <=> Reading(s)[j].mode \in {"dash", "slash"}
  BY DEF At, Bare, InComment
<1> QED
  BY <1>1, <1>2 DEF Hidden, Commented

\* Both texts have the length of s, and characters.
LEMMA SettledType ==
  ASSUME NEW s, Plain(s)
  PROVE  /\ Uncommented(s) \in Text /\ Len(Uncommented(s)) = Len(s)
         /\ \A k \in 1 .. Len(s) : Uncommented(s)[k] = IF Hidden(s, k) THEN Space ELSE s[k]
         /\ Settled(s) \in Text /\ Len(Settled(s)) = Len(s)
         /\ \A k \in 1 .. Len(s) :
              Settled(s)[k] = IF Hidden(s, k) \/ (k = Len(s) /\ Pending(s)) THEN Space ELSE s[k]
<1>0. s \in Seq(Chars) /\ Len(s) \in Nat
  BY DEF Plain, Text
<1>1. Space \in Chars
  BY DEF Space, Chars, Blanks
<1>2. Uncommented(s) = [k \in 1 .. Len(s) |-> IF Hidden(s, k) THEN Space ELSE s[k]]
  BY Zenon DEF Uncommented, Hidden, Space
<1>3. \A k \in 1 .. Len(s) : s[k] \in Chars
  BY <1>0
<1>4. /\ Uncommented(s) \in Seq(Chars) /\ Len(Uncommented(s)) = Len(s)
      /\ \A k \in 1 .. Len(s) : Uncommented(s)[k] = IF Hidden(s, k) THEN Space ELSE s[k]
  BY <1>0, <1>1, <1>2, <1>3
<1>5. /\ Settled(s) \in Seq(Chars) /\ Len(Settled(s)) = Len(s)
      /\ \A k \in 1 .. Len(s) :
           Settled(s)[k] = IF Hidden(s, k) \/ (k = Len(s) /\ Pending(s)) THEN Space ELSE s[k]
  BY <1>0, <1>1, <1>3 DEF Settled
<1> QED
  BY <1>4, <1>5 DEF Text

\* What one more character does to the comments.
LEMMA HiddenAppend ==
  ASSUME NEW s, NEW c \in Chars, Plain(s), Plain(Append(s, c))
  PROVE  LET q == At(s, Len(s))
             t == Append(s, c)
             n == Len(s)
         IN  /\ At(t, n + 1) = Turn(q, c)
             /\ \A k \in 1 .. n : Hidden(t, k) <=> Hidden(s, k) \/ (k = n /\ Opens(q, c))
             /\ Hidden(t, n + 1) <=> InComment(q) \/ Opens(q, c)
<1> DEFINE q == At(s, Len(s))
           t == Append(s, c)
           n == Len(s)
<1>0. s \in Text /\ n \in Nat /\ Len(t) = n + 1 /\ t[n + 1] = c
  BY AppendProperties DEF Plain, Text
<1>1. \A k \in 0 .. n : At(t, k) = At(s, k)
  BY <1>0, ReadingAppend DEF At
<1> HIDE DEF t
<1>2. At(t, n + 1) = Turn(q, c)
  <2>1. n + 1 \in 1 .. Len(t) /\ (n + 1) - 1 = n /\ n \in 0 .. n
    BY <1>0
  <2> QED
    BY <1>0, <1>1, <2>1, PlainReading DEF t
<1>3. q \in PlainModes
  <2>1. n \in 0 .. n
    BY <1>0
  <2> QED
    BY <2>1, PlainReading
<1>4. ASSUME NEW k \in 1 .. n
      PROVE  Hidden(t, k) <=> Hidden(s, k) \/ (k = n /\ Opens(q, c))
  <2>1. k \in 1 .. Len(t) /\ k - 1 \in 0 .. n /\ k \in 0 .. n /\ k + 1 <= Len(t)
        /\ (k # n <=> k + 1 <= n) /\ (k # n => k + 1 \in 0 .. n)
    BY <1>0
  <2>2. /\ Hidden(t, k) <=>
             \/ At(t, k) \in {"dash", "slash"} /\ InComment(At(t, k + 1))
             \/ InComment(At(t, k)) \/ InComment(At(t, k - 1))
        /\ Hidden(s, k) <=>
             \/ k # n /\ At(s, k) \in {"dash", "slash"} /\ InComment(At(s, k + 1))
             \/ InComment(At(s, k)) \/ InComment(At(s, k - 1))
    BY <2>1, HiddenAt DEF t
  <2>3. At(t, k) = At(s, k) /\ At(t, k - 1) = At(s, k - 1) /\ (k # n => At(t, k + 1) = At(s, k + 1))
    BY <1>1, <2>1
  <2>4. CASE k # n
    BY <2>2, <2>3, <2>4
  <2>5. CASE k = n
    <3>1. Opens(q, c) <=> q \in {"dash", "slash"} /\ InComment(Turn(q, c))
      BY <1>3, TurnLaws
    <3>2. At(t, k + 1) = Turn(q, c) /\ At(t, k) = q
      BY <1>2, <2>3, <2>5
    <3> QED
      BY <2>2, <2>3, <2>5, <3>1, <3>2
  <2> QED
    BY <2>4, <2>5
<1>5. Hidden(t, n + 1) <=> InComment(q) \/ Opens(q, c)
  <2>1. n + 1 \in 1 .. Len(t) /\ ~((n + 1) + 1 <= Len(t)) /\ (n + 1) - 1 = n /\ n \in 0 .. n
    BY <1>0
  <2>2. Hidden(t, n + 1) <=> InComment(At(t, n + 1)) \/ InComment(At(t, n))
    BY <2>1, HiddenAt DEF t
  <2>3. At(t, n) = q
    BY <1>1, <2>1
  <2>4. InComment(Turn(q, c)) => InComment(q) \/ Opens(q, c)
    BY <1>3, TurnLaws
  <2>5. Opens(q, c) => InComment(Turn(q, c))
    BY <1>3, TurnLaws
  <2> QED
    BY <1>2, <2>2, <2>3, <2>4, <2>5
<1> QED
  BY <1>2, <1>4, <1>5 DEF t

\* A text that agrees with another one and has one character more.
LEMMA OneMore ==
  ASSUME NEW A \in Text, NEW B \in Text, NEW e \in Chars, Len(B) = Len(A) + 1,
         \A k \in 1 .. Len(A) : B[k] = A[k], B[Len(A) + 1] = e
  PROVE  B = Append(A, e)
<1>0. A \in Seq(Chars) /\ B \in Seq(Chars) /\ Len(A) \in Nat
  BY DEF Text
<1>1. /\ Append(A, e) \in Seq(Chars) /\ Len(Append(A, e)) = Len(A) + 1
      /\ Append(A, e)[Len(A) + 1] = e /\ \A k \in 1 .. Len(A) : Append(A, e)[k] = A[k]
  BY <1>0, AppendProperties
<1>2. ASSUME NEW k \in 1 .. Len(B) PROVE B[k] = Append(A, e)[k]
  <2>1. k \in 1 .. Len(A) \/ k = Len(A) + 1
    BY <1>0
  <2> QED
    BY <1>1, <2>1
<1> QED
  BY <1>0, <1>1, <1>2, SeqEqual

\* What one more character does to the two texts.
LEMMA SettledAppend ==
  ASSUME NEW s, NEW c \in Chars, Plain(s), Plain(Append(s, c))
  PROVE  LET q == At(s, Len(s))
             t == Append(s, c)
         IN  /\ Opens(q, c) => /\ Uncommented(t) = Append(Settled(s), Space)
                               /\ Settled(t) = Append(Settled(s), Space)
             /\ InComment(q) => /\ Uncommented(t) = Append(Uncommented(s), Space)
                                /\ Settled(t) = Append(Uncommented(s), Space)
             /\ ~Opens(q, c) /\ ~InComment(q) =>
                  /\ Uncommented(t) = Append(Uncommented(s), c)
                  /\ Settled(t) = Append(Uncommented(s), IF c \in {"-", "/"} THEN Space ELSE c)
<1> DEFINE q == At(s, Len(s))
           t == Append(s, c)
           n == Len(s)
<1>0. n \in Nat /\ Len(t) = n + 1 /\ t[n + 1] = c /\ \A k \in 1 .. n : t[k] = s[k]
  BY AppendProperties DEF Plain, Text
<1>1. /\ At(t, n + 1) = Turn(q, c)
      /\ \A k \in 1 .. n : Hidden(t, k) <=> Hidden(s, k) \/ (k = n /\ Opens(q, c))
      /\ Hidden(t, n + 1) <=> InComment(q) \/ Opens(q, c)
  BY HiddenAppend
<1>2. q \in PlainModes
  <2>1. n \in 0 .. n
    BY <1>0
  <2> QED
    BY <2>1, PlainReading
<1>3. Space \in Chars
  BY DEF Space, Chars, Blanks
<1>4. Plain(t)
  OBVIOUS
<1> HIDE DEF t
<1>5. Pending(s) <=> q \in {"dash", "slash"}
  BY DEF Pending
<1>6. Pending(t) <=> Turn(q, c) \in {"dash", "slash"}
  BY <1>0, <1>1 DEF Pending
<1> HIDE DEF q
<1>u. /\ Uncommented(s) \in Text /\ Len(Uncommented(s)) = n
      /\ \A k \in 1 .. n : Uncommented(s)[k] = IF Hidden(s, k) THEN Space ELSE s[k]
      /\ Settled(s) \in Text /\ Len(Settled(s)) = n
      /\ \A k \in 1 .. n :
           Settled(s)[k] = IF Hidden(s, k) \/ (k = n /\ Pending(s)) THEN Space ELSE s[k]
  BY SettledType
<1>v. /\ Uncommented(t) \in Text /\ Len(Uncommented(t)) = n + 1
      /\ \A k \in 1 .. n + 1 : Uncommented(t)[k] = IF Hidden(t, k) THEN Space ELSE t[k]
      /\ Settled(t) \in Text /\ Len(Settled(t)) = n + 1
      /\ \A k \in 1 .. n + 1 :
           Settled(t)[k] = IF Hidden(t, k) \/ (k = n + 1 /\ Pending(t)) THEN Space ELSE t[k]
  BY <1>0, <1>4, SettledType
<1>w. /\ \A k \in 1 .. n : k \in 1 .. n + 1 /\ k # n + 1
      /\ n + 1 \in 1 .. n + 1
  BY <1>0
<1>7. ASSUME Opens(q, c)
      PROVE  Uncommented(t) = Append(Settled(s), Space) /\ Settled(t) = Append(Settled(s), Space)
  <2>1. Pending(s) /\ ~Pending(t)
    BY <1>2, <1>5, <1>6, <1>7, TurnLaws
  <2>2. \A k \in 1 .. n : Uncommented(t)[k] = Settled(s)[k] /\ Settled(t)[k] = Settled(s)[k]
    BY <1>0, <1>1, <1>7, <1>u, <1>v, <1>w, <2>1
  <2>3. Uncommented(t)[n + 1] = Space /\ Settled(t)[n + 1] = Space
    BY <1>1, <1>7, <1>v, <1>w
  <2> QED
    BY <1>3, <1>u, <1>v, <2>2, <2>3, OneMore
<1>8. ASSUME ~Opens(q, c)
      PROVE  /\ \A k \in 1 .. n : /\ Uncommented(t)[k] = Uncommented(s)[k]
                                  /\ Settled(t)[k] = Uncommented(s)[k]
             /\ \A e \in Chars : Uncommented(t)[n + 1] = e
                                   => Uncommented(t) = Append(Uncommented(s), e)
             /\ \A e \in Chars : Settled(t)[n + 1] = e
                                   => Settled(t) = Append(Uncommented(s), e)
  <2>1. \A k \in 1 .. n : /\ Uncommented(t)[k] = Uncommented(s)[k]
                          /\ Settled(t)[k] = Uncommented(s)[k]
    BY <1>0, <1>1, <1>8, <1>u, <1>v, <1>w
  <2> QED
    BY <1>u, <1>v, <2>1, OneMore
<1>9. ASSUME InComment(q)
      PROVE  /\ Uncommented(t) = Append(Uncommented(s), Space)
             /\ Settled(t) = Append(Uncommented(s), Space)
  <2>1. ~Opens(q, c)
    BY <1>2, <1>9, TurnLaws
  <2>2. Uncommented(t)[n + 1] = Space /\ Settled(t)[n + 1] = Space
    BY <1>1, <1>9, <1>v, <1>w
  <2> QED
    BY <1>3, <1>8, <2>1, <2>2
<1>10. ASSUME ~Opens(q, c), ~InComment(q)
       PROVE  /\ Uncommented(t) = Append(Uncommented(s), c)
              /\ Settled(t) = Append(Uncommented(s), IF c \in {"-", "/"} THEN Space ELSE c)
  <2>1. Pending(t) <=> c \in {"-", "/"}
    BY <1>2, <1>6, <1>10, TurnLaws
  <2>2. ~Hidden(t, n + 1)
    BY <1>1, <1>10
  <2>3. /\ Uncommented(t)[n + 1] = c
        /\ Settled(t)[n + 1] = IF c \in {"-", "/"} THEN Space ELSE c
    BY <1>0, <1>v, <1>w, <2>1, <2>2
  <2>4. (IF c \in {"-", "/"} THEN Space ELSE c) \in Chars
    BY <1>3
  <2> QED
    BY <1>8, <1>10, <2>3, <2>4
<1> QED
  BY <1>7, <1>9, <1>10 DEF q, t

\* What there is after each character: the mode, the non-blanks of Settled
\* and the non-blanks of Uncommented.
ScanStates ==
  {m \in [mode : PlainModes, kept : Text, all : Text] :
     m.mode \notin {"dash", "slash"} => m.kept = m.all}

\* Nothing read yet.
Start == [mode |-> "code", kept |-> <<>>, all |-> <<>>]

\* o and then c, unless that is blank.
With(o, c) == IF c \in Blanks THEN o ELSE Append(o, c)

\* What is certain to stand outside comments once c is read.
Kept(m, c) == IF Opens(m.mode, c)            THEN m.kept
              ELSE IF InComment(m.mode)      THEN m.all
              ELSE IF c \in {"-", "/"}       THEN m.all
              ELSE With(m.all, c)

\* The same with a dash or slash that may yet begin a comment.
All(m, c) == IF Opens(m.mode, c)       THEN m.kept
             ELSE IF InComment(m.mode) THEN m.all
             ELSE With(m.all, c)

\* The automaton that keeps what stands outside comments.
ScanStep == [m \in ScanStates |-> [c \in Chars |->
               [mode |-> Turn(m.mode, c), kept |-> Kept(m, c), all |-> All(m, c)]]]

\* It reads s, from m on.
Scan(m, s) == ForEach(ScanStep, m, s)

\* A step keeps the kinds of things.
LEMMA ScanStepLaws ==
  ASSUME NEW m \in ScanStates, NEW c \in Chars
  PROVE  /\ ScanStep[m][c] \in ScanStates
         /\ ScanStep[m][c] = [mode |-> Turn(m.mode, c), kept |-> Kept(m, c), all |-> All(m, c)]
<1> DEFINE q == Turn(m.mode, c)
           k == Kept(m, c)
           a == All(m, c)
<1>0. /\ m.mode \in PlainModes /\ m.kept \in Text /\ m.all \in Text
      /\ m.mode \notin {"dash", "slash"} => m.kept = m.all
  BY DEF ScanStates
<1>1. ScanStep[m][c] = [mode |-> q, kept |-> k, all |-> a]
  BY DEF ScanStep
<1>2. With(m.all, c) \in Text
  BY <1>0, Closed DEF With
<1>3. k \in Text /\ a \in Text
  BY <1>0, <1>2 DEF Kept, All
<1>4. q \in PlainModes
  BY <1>0, TurnLaws
<1>5. q \notin {"dash", "slash"} => k = a
  <2>1. CASE Opens(m.mode, c) \/ InComment(m.mode)
    BY <2>1 DEF Kept, All
  <2>2. CASE ~Opens(m.mode, c) /\ ~InComment(m.mode)
    <3>1. q \in {"dash", "slash"} <=> c \in {"-", "/"}
      BY <1>0, <2>2, TurnLaws
    <3> QED
      BY <2>2, <3>1 DEF Kept, All
  <2> QED
    BY <2>1, <2>2
<1> HIDE DEF q, k, a
<1>6. [mode |-> q, kept |-> k, all |-> a] \in ScanStates
  BY <1>3, <1>4, <1>5 DEF ScanStates
<1> QED
  BY <1>1, <1>6 DEF q, k, a

\* Scan is a loop.
LEMMA ScanLaws ==
  ASSUME NEW m \in ScanStates
  PROVE  /\ Scan(m, <<>>) = m
         /\ \A s \in Text : Scan(m, s) \in ScanStates
         /\ \A s \in Text, c \in Chars : Scan(m, Append(s, c)) = ScanStep[Scan(m, s)][c]
         /\ \A s, t \in Text : Scan(m, s \o t) = Scan(Scan(m, s), t)
<1>1. ScanStep \in [ScanStates -> [Chars -> ScanStates]]
  <2>1. \A x \in ScanStates, c \in Chars :
          [mode |-> Turn(x.mode, c), kept |-> Kept(x, c), all |-> All(x, c)] \in ScanStates
    BY ScanStepLaws
  <2> QED
    BY <2>1 DEF ScanStep
<1>2. IsLoop(ScanStates, Chars, ScanStep, m)
  BY <1>1 DEF IsLoop
<1>3. /\ ForEach(ScanStep, m, <<>>) = m
      /\ \A s \in Seq(Chars) : ForEach(ScanStep, m, s) \in ScanStates
      /\ \A s \in Seq(Chars), e \in Chars :
           ForEach(ScanStep, m, Append(s, e)) = ScanStep[ForEach(ScanStep, m, s)][e]
  BY <1>2, ForEachLaws
<1>4. ASSUME NEW s \in Seq(Chars), NEW t \in Seq(Chars)
      PROVE  ForEach(ScanStep, m, s \o t) = ForEach(ScanStep, ForEach(ScanStep, m, s), t)
  BY <1>2, ForEachConcat
<1> QED
  BY <1>3, <1>4 DEF Scan, Text

\* Nothing is read yet.
LEMMA StartType == Start \in ScanStates
BY Closed DEF Start, ScanStates, PlainModes

\* A part of a text without literals is one.
LEMMA PlainParts ==
  /\ \A s \in Text, c \in Chars : Plain(Append(s, c)) <=> Plain(s) /\ c \notin Quotes
  /\ \A s, t \in Text : Plain(s \o t) <=> Plain(s) /\ Plain(t)
  /\ Plain(<<>>)
<1>1. ASSUME NEW s \in Text, NEW c \in Chars
      PROVE  Plain(Append(s, c)) <=> Plain(s) /\ c \notin Quotes
  <2>1. /\ Len(s) \in Nat /\ Append(s, c) \in Text /\ Len(Append(s, c)) = Len(s) + 1
        /\ Append(s, c)[Len(s) + 1] = c /\ \A k \in 1 .. Len(s) : Append(s, c)[k] = s[k]
    BY AppendProperties DEF Text
  <2>2. /\ \A k \in 1 .. Len(s) : k \in 1 .. Len(s) + 1
        /\ Len(s) + 1 \in 1 .. Len(s) + 1
        /\ \A k \in 1 .. Len(s) + 1 : k \in 1 .. Len(s) \/ k = Len(s) + 1
    BY <2>1
  <2> QED
    BY <2>1, <2>2 DEF Plain
<1>2. ASSUME NEW s \in Text, NEW t \in Text
      PROVE  Plain(s \o t) <=> Plain(s) /\ Plain(t)
  <2> DEFINE u == s \o t
  <2>1. /\ Len(s) \in Nat /\ Len(t) \in Nat /\ u \in Text /\ Len(u) = Len(s) + Len(t)
        /\ \A i \in 1 .. Len(s) + Len(t) : u[i] = IF i <= Len(s) THEN s[i] ELSE t[i - Len(s)]
    BY ConcatProperties DEF Text
  <2> HIDE DEF u
  <2>2. ASSUME Plain(u) PROVE Plain(s) /\ Plain(t)
    <3>1. ASSUME NEW k \in 1 .. Len(s) PROVE s[k] \notin Quotes
      <4>1. k \in 1 .. Len(s) + Len(t) /\ k <= Len(s)
        BY <2>1
      <4> QED
        BY <2>1, <2>2, <4>1 DEF Plain
    <3>2. ASSUME NEW k \in 1 .. Len(t) PROVE t[k] \notin Quotes
      <4>1. /\ Len(s) + k \in 1 .. Len(s) + Len(t) /\ ~(Len(s) + k <= Len(s))
            /\ (Len(s) + k) - Len(s) = k
        BY <2>1
      <4> QED
        BY <2>1, <2>2, <4>1 DEF Plain
    <3> QED
      BY <3>1, <3>2 DEF Plain
  <2>3. ASSUME Plain(s), Plain(t) PROVE Plain(u)
    <3>1. ASSUME NEW k \in 1 .. Len(u) PROVE u[k] \notin Quotes
      <4>1. /\ k \in 1 .. Len(s) + Len(t) /\ (k <= Len(s) => k \in 1 .. Len(s))
            /\ (~(k <= Len(s)) => k - Len(s) \in 1 .. Len(t))
        BY <2>1
      <4> QED
        BY <2>1, <2>3, <4>1 DEF Plain
    <3> QED
      BY <2>1, <3>1 DEF Plain
  <2> QED
    BY <2>2, <2>3 DEF u
<1>3. Plain(<<>>)
  BY Closed DEF Plain
<1> QED
  BY <1>1, <1>2, <1>3

\* Scan has the mode of the automaton and what it leaves.
LEMMA ScanReads ==
  ASSUME NEW s, Plain(s)
  PROVE  /\ Scan(Start, s).mode = At(s, Len(s))
         /\ Scan(Start, s).all = NonBlanks(Uncommented(s))
<1> DEFINE Ok(t) == /\ Scan(Start, t).mode = At(t, Len(t))
                    /\ Scan(Start, t).all = NonBlanks(Uncommented(t))
                    /\ Scan(Start, t).kept = NonBlanks(Settled(t))
           S == {t \in Text : Plain(t) => Ok(t)}
<1>1. <<>> \in S
  <2>0. Plain(<<>>) /\ <<>> \in Text /\ Len(<<>>) = 0
    BY Closed, PlainParts
  <2>1. Scan(Start, <<>>) = Start
    BY StartType, ScanLaws
  <2>2. At(<<>>, 0) = "code"
    BY <2>0, PlainReading
  <2>3. Uncommented(<<>>) = <<>> /\ Settled(<<>>) = <<>>
    <3>1. /\ Uncommented(<<>>) \in Seq(Chars) /\ Len(Uncommented(<<>>)) = 0
          /\ Settled(<<>>) \in Seq(Chars) /\ Len(Settled(<<>>)) = 0
      BY <2>0, SettledType, Closed
    <3> QED
      BY <3>1, EmptySeq
  <2>4. Start.mode = "code" /\ Start.all = <<>> /\ Start.kept = <<>>
    BY DEF Start
  <2>5. Ok(<<>>)
    BY <2>0, <2>1, <2>2, <2>3, <2>4, NonBlanksLaws
  <2> QED
    BY <2>0, <2>5
<1>2. ASSUME NEW t \in Seq(Chars), NEW c \in Chars, t \in S PROVE Append(t, c) \in S
  <2> DEFINE u == Append(t, c)
             m == Scan(Start, t)
             q == At(t, Len(t))
  <2>0. t \in Text /\ u \in Text /\ Len(u) = Len(t) + 1 /\ Len(t) \in Nat
    BY Closed, AppendProperties
  <2> SUFFICES ASSUME Plain(u) PROVE Ok(u)
    BY <2>0
  <2>1. Plain(t) /\ Ok(t)
    BY <1>2, <2>0, PlainParts
  <2>2. m \in ScanStates /\ Scan(Start, u) = ScanStep[m][c]
    BY <2>0, StartType, ScanLaws
  <2>3. /\ Scan(Start, u).mode = Turn(m.mode, c) /\ Scan(Start, u).kept = Kept(m, c)
        /\ Scan(Start, u).all = All(m, c)
    <3>1. ScanStep[m][c] = [mode |-> Turn(m.mode, c), kept |-> Kept(m, c), all |-> All(m, c)]
      BY <2>2, ScanStepLaws
    <3> QED
      BY <2>2, <3>1
  <2>4. At(u, Len(t) + 1) = Turn(q, c)
    BY <2>1, HiddenAppend
  <2>5. /\ Opens(q, c) => /\ Uncommented(u) = Append(Settled(t), Space)
                          /\ Settled(u) = Append(Settled(t), Space)
        /\ InComment(q) => /\ Uncommented(u) = Append(Uncommented(t), Space)
                           /\ Settled(u) = Append(Uncommented(t), Space)
        /\ ~Opens(q, c) /\ ~InComment(q) =>
             /\ Uncommented(u) = Append(Uncommented(t), c)
             /\ Settled(u) = Append(Uncommented(t), IF c \in {"-", "/"} THEN Space ELSE c)
    BY <2>1, SettledAppend
  <2>6. Uncommented(t) \in Text /\ Settled(t) \in Text
    BY <2>1, SettledType
  <2>7. ASSUME NEW x \in Text, NEW e \in Chars PROVE NonBlanks(Append(x, e)) = With(NonBlanks(x), e)
    BY NonBlanksLaws DEF With
  <2>8. Space \in Chars /\ \A o : With(o, Space) = o
    BY DEF Space, Chars, Blanks, With
  <2>9. m.mode = q /\ m.all = NonBlanks(Uncommented(t)) /\ m.kept = NonBlanks(Settled(t))
    BY <2>1
  <2> HIDE DEF u, m, q
  <2>10. /\ NonBlanks(Uncommented(u)) = All(m, c)
         /\ NonBlanks(Settled(u)) = Kept(m, c)
    <3>1. CASE Opens(q, c)
      BY <2>5, <2>6, <2>7, <2>8, <2>9, <3>1 DEF All, Kept
    <3>2. CASE InComment(q)
      <4>1. ~Opens(q, c)
        BY <3>2 DEF Opens, InComment
      <4> QED
        BY <2>5, <2>6, <2>7, <2>8, <2>9, <3>2, <4>1 DEF All, Kept
    <3>3. CASE ~Opens(q, c) /\ ~InComment(q)
      <4>1. NonBlanks(Uncommented(u)) = With(m.all, c)
        BY <2>5, <2>6, <2>7, <2>9, <3>3
      <4>2. NonBlanks(Settled(u)) = With(m.all, IF c \in {"-", "/"} THEN Space ELSE c)
        BY <2>5, <2>6, <2>7, <2>8, <2>9, <3>3
      <4> QED
        BY <2>8, <2>9, <3>3, <4>1, <4>2 DEF All, Kept
    <3> QED
      BY <3>1, <3>2, <3>3
  <2> QED
    BY <2>0, <2>3, <2>4, <2>9, <2>10 DEF u, m
<1> HIDE DEF S
<1>3. s \in S
  BY <1>1, <1>2, Closed, SeqInduct DEF Plain
<1> QED
  BY <1>3 DEF S

-----------------------------------------------------------------------------
(* The pass over the lines, when no block comment is left.                 *)

\* No block comment opens in t.
NoBlock(t) == \A k \in 1 .. Len(t) : ~Pair(t, k, "/", "*")

\* One more character and no block comment yet.
LEMMA NoBlockAppend ==
  ASSUME NEW t \in Text, NEW c \in Chars, NoBlock(Append(t, c))
  PROVE  NoBlock(t) /\ ~(EndsIn(t, "/") /\ c = "*")
<1>0. Len(t) \in Nat /\ Len(Append(t, c)) = Len(t) + 1 /\ (t # <<>> <=> Len(t) # 0)
  BY AppendProperties DEF Text
<1>1. ASSUME NEW k \in 1 .. Len(t) PROVE ~Pair(t, k, "/", "*")
  <2>1. k \in Nat \ {0} /\ k \in 1 .. Len(Append(t, c)) /\ (k < Len(t) \/ k >= Len(t))
    BY <1>0
  <2>2. ~Pair(Append(t, c), k, "/", "*")
    BY <2>1 DEF NoBlock
  <2> QED
    BY <2>1, <2>2, PairAppend
<1>2. ASSUME EndsIn(t, "/"), c = "*" PROVE FALSE
  <2>1. Len(t) \in Nat \ {0} /\ Len(t) \in 1 .. Len(Append(t, c)) /\ t[Len(t)] = "/"
    BY <1>0, <1>2 DEF EndsIn
  <2>2. Pair(Append(t, c), Len(t), "/", "*")
    BY <1>2, <2>1, PairAppend
  <2> QED
    BY <2>1, <2>2 DEF NoBlock
<1> QED
  BY <1>1, <1>2 DEF NoBlock

\* How a text ends after one more character.
LEMMA EndsAppend ==
  ASSUME NEW t \in Text, NEW c \in Chars, NEW d
  PROVE  /\ EndsIn(Append(t, c), d) <=> c = d
         /\ SubSeq(Append(t, c), 1, Len(Append(t, c)) - 1) = t
<1>0. /\ Len(t) \in Nat /\ Len(Append(t, c)) = Len(t) + 1 /\ Append(t, c)[Len(t) + 1] = c
      /\ Append(t, c) # <<>> /\ t \in Seq(Chars)
  BY AppendProperties DEF Text
<1>1. EndsIn(Append(t, c), d) <=> c = d
  BY <1>0 DEF EndsIn
<1>2. Len(t) \in 0 .. Len(t) /\ (Len(t) + 1) - 1 = Len(t)
  BY <1>0
<1>3. SubSeq(Append(t, c), 1, Len(t)) = SubSeq(t, 1, Len(t))
  BY <1>2, SubSeqAppend
<1>4. SubSeq(t, 1, Len(t)) = t
  BY <1>0, SubSeqFull
<1> QED
  BY <1>0, <1>1, <1>2, <1>3, <1>4

\* The automaton m after a text whose lines are F and then l: it is in a
\* comment when l has one, and has left what the lines have without theirs.
Agrees(m, F, l) ==
  /\ Flat(Append(F, l)) = m.all
  /\ m.mode \in {"code", "dash", "slash", "line"}
  /\ m.mode = "line" <=> HasDashes(l)
  /\ m.mode = "dash" <=> ~HasDashes(l) /\ EndsIn(l, "-")
  /\ m.mode = "dash" => m.kept = Flat(F) \o NonBlanks(SubSeq(l, 1, Len(l) - 1))

\* The end of a line.
LEMMA AgreesNewline ==
  ASSUME NEW m \in ScanStates, NEW F \in Texts, NEW l \in Text, Agrees(m, F, l)
  PROVE  Agrees(ScanStep[m]["nl"], Append(F, l), <<>>)
<1> DEFINE r == ScanStep[m]["nl"]
           G == Append(F, l)
<1>0. "nl" \in Chars /\ "nl" \in Blanks
  BY DEF Chars, Blanks
<1>1. /\ r.mode = Turn(m.mode, "nl") /\ r.all = All(m, "nl")
  <2>1. r = [mode |-> Turn(m.mode, "nl"), kept |-> Kept(m, "nl"), all |-> All(m, "nl")]
    BY <1>0, ScanStepLaws
  <2> QED
    BY <2>1
<1> HIDE DEF r
<1>2. r.mode = "code"
  BY <1>1 DEF Agrees, Turn
<1>3. r.all = m.all
  <2>1. ~Opens(m.mode, "nl")
    BY DEF Opens
  <2> QED
    BY <1>0, <1>1, <2>1 DEF All, With
<1>4. G \in Texts /\ <<>> \in Text /\ Flat(G) \in Text
  BY Closed, FlatLaws
<1> HIDE DEF G
<1>5. ~HasDashes(<<>>) /\ ~EndsIn(<<>>, "-")
  BY DEF HasDashes, EndsIn
<1>6. UpToComment(<<>>) = <<>>
  BY <1>4, <1>5, UpToCommentLaws
<1>7. Flat(Append(G, <<>>)) = Flat(G)
  <2>1. Flat(Append(G, <<>>)) = Flat(G) \o <<>>
    BY <1>4, <1>6, FlatLaws, NonBlanksLaws
  <2> QED
    BY <1>4, <2>1, Closed, ConcatEmptySeq
<1> QED
  BY <1>2, <1>3, <1>5, <1>7 DEF Agrees, G, r

\* A character inside a line.
LEMMA AgreesInLine ==
  ASSUME NEW m \in ScanStates, NEW F \in Texts, NEW l \in Text, Agrees(m, F, l),
         NEW c \in Chars, c # "nl", ~(m.mode = "slash" /\ c = "*")
  PROVE  Agrees(ScanStep[m][c], F, Append(l, c))
<1> DEFINE r == ScanStep[m][c]
           x == Append(l, c)
<1>0. x \in Text /\ m.mode \in {"code", "dash", "slash", "line"}
  BY Closed DEF Agrees
<1>1. r.mode = Turn(m.mode, c) /\ r.all = All(m, c) /\ r.kept = Kept(m, c)
  <2>1. r = [mode |-> Turn(m.mode, c), kept |-> Kept(m, c), all |-> All(m, c)]
    BY ScanStepLaws
  <2> QED
    BY <2>1
<1>2. HasDashes(x) <=> HasDashes(l) \/ (EndsIn(l, "-") /\ c = "-")
  BY DashesAppend
<1>3. /\ EndsIn(x, "-") <=> c = "-"
      /\ SubSeq(x, 1, Len(x) - 1) = l
  BY EndsAppend
<1>4. /\ Flat(Append(F, x)) = Flat(F) \o NonBlanks(UpToComment(x))
      /\ Flat(Append(F, l)) = Flat(F) \o NonBlanks(UpToComment(l))
  BY <1>0, FlatLaws
<1>5. NonBlanks(x) = With(NonBlanks(l), c)
  BY NonBlanksLaws DEF With
<1>t. Flat(F) \in Seq(Chars) /\ NonBlanks(l) \in Seq(Chars)
  BY FlatLaws, NonBlanksLaws, Closed
<1>u. /\ ~HasDashes(x) => UpToComment(x) = x
      /\ ~HasDashes(l) => UpToComment(l) = l
      /\ HasDashes(l) => UpToComment(x) = UpToComment(l)
      /\ ~HasDashes(l) /\ EndsIn(l, "-") /\ c = "-"
           => UpToComment(x) = SubSeq(l, 1, Len(l) - 1)
  BY <1>0, UpToCommentLaws
<1> HIDE DEF r, x
<1>6. CASE m.mode = "line"
  <2>1. HasDashes(l) /\ HasDashes(x)
    BY <1>2, <1>6 DEF Agrees
  <2>2. r.mode = "line" /\ r.all = m.all
    BY <1>1, <1>6 DEF Turn, All, Opens, InComment
  <2>3. Flat(Append(F, x)) = r.all
    BY <1>4, <1>u, <2>1, <2>2 DEF Agrees
  <2> QED
    BY <2>1, <2>2, <2>3 DEF Agrees, r, x
<1>7. CASE m.mode = "dash" /\ c = "-"
  <2>1. ~HasDashes(l) /\ EndsIn(l, "-") /\ HasDashes(x)
    BY <1>2, <1>7 DEF Agrees
  <2>2. r.mode = "line" /\ r.all = m.kept
    BY <1>1, <1>7 DEF Turn, All, Opens
  <2>3. Flat(Append(F, x)) = r.all
    BY <1>4, <1>7, <1>u, <2>1, <2>2 DEF Agrees
  <2> QED
    BY <2>1, <2>2, <2>3 DEF Agrees, r, x
<1>8. CASE m.mode # "line" /\ ~(m.mode = "dash" /\ c = "-")
  <2>1. ~HasDashes(l) /\ ~(EndsIn(l, "-") /\ c = "-") /\ ~HasDashes(x)
    BY <1>2, <1>8 DEF Agrees
  <2>2. ~Opens(m.mode, c) /\ ~InComment(m.mode)
    BY <1>0, <1>8 DEF Opens, InComment
  <2>3. r.mode = (IF c = "-" THEN "dash" ELSE IF c = "/" THEN "slash" ELSE "code")
    BY <1>0, <1>1, <1>8 DEF Turn
  <2>4. r.all = With(m.all, c) /\ (c = "-" => r.kept = m.all)
    BY <1>1, <2>2 DEF All, Kept
  <2>5. m.all = Flat(F) \o NonBlanks(l)
    BY <1>4, <1>u, <2>1 DEF Agrees
  <2>6. Flat(Append(F, x)) = Flat(F) \o With(NonBlanks(l), c)
    BY <1>4, <1>5, <1>u, <2>1
  <2>7. Flat(F) \o With(NonBlanks(l), c) = With(Flat(F) \o NonBlanks(l), c)
    <3>1. Flat(F) \o Append(NonBlanks(l), c) = Append(Flat(F) \o NonBlanks(l), c)
      BY <1>t, ConcatAppend
    <3> QED
      BY <3>1 DEF With
  <2>8. r.mode = "dash" <=> c = "-"
    BY <2>3
  <2>9. r.mode = "dash" => r.kept = Flat(F) \o NonBlanks(SubSeq(x, 1, Len(x) - 1))
    BY <1>3, <2>4, <2>5, <2>8
  <2>10. r.mode \in {"code", "dash", "slash", "line"} /\ r.mode # "line"
    BY <2>3
  <2>11. Flat(Append(F, x)) = r.all
    BY <2>4, <2>5, <2>6, <2>7
  <2>12. Agrees(r, F, x)
    BY <1>3, <2>1, <2>8, <2>9, <2>10, <2>11 DEF Agrees
  <2> QED
    BY <2>12 DEF r, x
<1> QED
  BY <1>6, <1>7, <1>8

\* The pass over the lines leaves what the automaton leaves.
LEMMA LinePass ==
  ASSUME NEW t \in Text, NoBlock(t)
  PROVE  Flat(Split(t, "nl")) = Scan(Start, t).all
<1> DEFINE Ok(u) == \E F \in Texts, l \in Text :
                      /\ Split(u, "nl") = Append(F, l)
                      /\ Agrees(Scan(Start, u), F, l)
                      /\ Scan(Start, u).mode = "slash" => EndsIn(u, "/")
           S == {u \in Text : NoBlock(u) => Ok(u)}
<1>0. "nl" \in Chars
  BY DEF Chars, Blanks
<1>s. /\ Split(<<>>, "nl") = <<<<>>>>
      /\ \A u \in Text, d \in Chars : \E F \in Texts, l \in Text :
           /\ Split(u, "nl") = Append(F, l)
           /\ Split(Append(u, d), "nl") = IF d = "nl" THEN Append(Append(F, l), <<>>)
                                          ELSE Append(F, Append(l, d))
  BY <1>0, SplitLaws
<1>1. <<>> \in S
  <2>0. <<>> \in Text /\ <<>> \in Texts
    BY Closed
  <2>1. Split(<<>>, "nl") = Append(<<>>, <<>>)
    <3>1. <<<<>>>> = Append(<<>>, <<>>)
      OBVIOUS
    <3> QED
      BY <1>s, <3>1
  <2>2. Scan(Start, <<>>) = Start /\ Start.mode = "code" /\ Start.all = <<>>
    BY StartType, ScanLaws DEF Start
  <2>3. ~HasDashes(<<>>) /\ ~EndsIn(<<>>, "-")
    BY DEF HasDashes, EndsIn
  <2>4. Flat(Append(<<>>, <<>>)) = <<>>
    <3>1. UpToComment(<<>>) = <<>>
      BY <2>0, <2>3, UpToCommentLaws
    <3>2. Flat(Append(<<>>, <<>>)) = <<>> \o <<>>
      BY <2>0, <3>1, FlatLaws, NonBlanksLaws
    <3>3. <<>> \in Seq(Chars)
      OBVIOUS
    <3> QED
      BY <3>2, <3>3, ConcatEmptySeq
  <2>5. Agrees(Start, <<>>, <<>>)
    BY <2>2, <2>3, <2>4 DEF Agrees
  <2>6. Ok(<<>>)
    BY <2>0, <2>1, <2>2, <2>5
  <2> QED
    BY <2>0, <2>6
<1>2. ASSUME NEW u \in Seq(Chars), NEW c \in Chars, u \in S PROVE Append(u, c) \in S
  <2> DEFINE v == Append(u, c)
             m == Scan(Start, u)
  <2>0. u \in Text /\ v \in Text
    BY Closed
  <2> SUFFICES ASSUME NoBlock(v) PROVE Ok(v)
    BY <2>0
  <2>1. NoBlock(u) /\ ~(EndsIn(u, "/") /\ c = "*")
    BY <2>0, NoBlockAppend
  <2>2. PICK F \in Texts, l \in Text :
          /\ Split(u, "nl") = Append(F, l)
          /\ Split(v, "nl") = IF c = "nl" THEN Append(Append(F, l), <<>>)
                              ELSE Append(F, Append(l, c))
    BY <1>s, <2>0
  <2>3. Agrees(m, F, l) /\ (m.mode = "slash" => EndsIn(u, "/"))
    <3>1. PICK G \in Texts, k \in Text :
            /\ Split(u, "nl") = Append(G, k) /\ Agrees(m, G, k)
            /\ m.mode = "slash" => EndsIn(u, "/")
      BY <1>2, <2>1
    <3>2. F \in Seq(Text) /\ G \in Seq(Text) /\ Append(F, l) = Append(G, k)
      BY <2>2, <3>1, Closed
    <3>3. F = G /\ l = k
      BY <3>2, SameEnds
    <3> QED
      BY <3>1, <3>3
  <2>4. m \in ScanStates /\ Scan(Start, v) = ScanStep[m][c]
    BY <2>0, StartType, ScanLaws
  <2>5. ScanStep[m][c].mode = "slash" => EndsIn(v, "/")
    <3>1. ScanStep[m][c] = [mode |-> Turn(m.mode, c), kept |-> Kept(m, c), all |-> All(m, c)]
      BY <2>4, ScanStepLaws
    <3>2. ScanStep[m][c].mode = Turn(m.mode, c)
      BY <3>1
    <3>3. Turn(m.mode, c) = "slash" => c = "/"
      BY DEF Turn
    <3> QED
      BY <2>0, <3>2, <3>3, EndsAppend
  <2>6. ~(m.mode = "slash" /\ c = "*")
    BY <2>1, <2>3
  <2> HIDE DEF m, v
  <2>7. CASE c = "nl"
    <3>1. Agrees(ScanStep[m][c], Append(F, l), <<>>)
      BY <2>3, <2>4, <2>7, AgreesNewline
    <3>2. Append(F, l) \in Texts /\ <<>> \in Text
      BY Closed
    <3> QED
      BY <2>2, <2>4, <2>5, <2>7, <3>1, <3>2
  <2>8. CASE c # "nl"
    <3>1. Agrees(ScanStep[m][c], F, Append(l, c))
      BY <2>3, <2>4, <2>6, <2>8, AgreesInLine
    <3>2. Append(l, c) \in Text
      BY Closed
    <3> QED
      BY <2>2, <2>4, <2>5, <2>8, <3>1, <3>2
  <2> QED
    BY <2>7, <2>8
<1> HIDE DEF S
<1>3. t \in S
  BY <1>1, <1>2, Closed, SeqInduct
<1>4. Ok(t)
  BY <1>3 DEF S
<1> QED
  BY <1>4 DEF Agrees

-----------------------------------------------------------------------------
(* One round of removeBlockComments.                                       *)

\* A part of a text.
LEMMA Part ==
  ASSUME NEW s \in Text, NEW i \in Nat \ {0}, NEW j \in 0 .. Len(s), i <= j + 1
  PROVE  /\ SubSeq(s, i, j) \in Text /\ Len(SubSeq(s, i, j)) = j - i + 1
         /\ \A k \in 1 .. j - i + 1 : SubSeq(s, i, j)[k] = s[i + k - 1]
<1>0. s \in Seq(Chars) /\ Len(s) \in Nat
  BY DEF Text
<1>1. i \in Int /\ j \in Int /\ \A k \in i .. j : s[k] \in Chars
  BY <1>0
<1>2. /\ SubSeq(s, i, j) \in Seq(Chars)
      /\ Len(SubSeq(s, i, j)) = IF i <= j THEN j - i + 1 ELSE 0
      /\ \A k \in 1 .. j - i + 1 : SubSeq(s, i, j)[k] = s[i + k - 1]
  BY <1>1, SubSeqProperties
<1>3. (IF i <= j THEN j - i + 1 ELSE 0) = j - i + 1
  BY <1>0
<1> QED
  BY <1>2, <1>3 DEF Text

\* Two adjacent parts.
LEMMA Cut ==
  ASSUME NEW s \in Text, NEW i \in Nat \ {0}, NEW k \in Nat, NEW j \in 0 .. Len(s),
         i <= k + 1, k <= j
  PROVE  SubSeq(s, i, j) = SubSeq(s, i, k) \o SubSeq(s, k + 1, j)
<1>0. s \in Seq(Chars) /\ Len(s) \in Nat
  BY DEF Text
<1>1. i \in 1 .. Len(s) + 1 /\ k \in i - 1 .. Len(s) /\ j \in k .. Len(s)
  BY <1>0
<1> QED
  BY <1>0, <1>1, ConcatAdjacentSubSeq

\* What a text was read as does not depend on what follows.
LEMMA ReadingConcat ==
  ASSUME NEW s \in Text, NEW u \in Text, NEW k \in 0 .. Len(s)
  PROVE  Reading(s \o u)[k] = Reading(s)[k]
<1> DEFINE S == {v \in Text : Reading(s \o v)[k] = Reading(s)[k]}
<1>0. s \in Seq(Chars) /\ Len(s) \in Nat
  BY DEF Text
<1>1. <<>> \in S
  BY <1>0, Closed, ConcatEmptySeq
<1>2. ASSUME NEW v \in Seq(Chars), NEW c \in Chars, v \in S PROVE Append(v, c) \in S
  <2>1. v \in Text /\ Append(v, c) \in Text /\ s \o v \in Text /\ s \o v \in Seq(Chars)
    BY Closed
  <2>2. s \o Append(v, c) = Append(s \o v, c)
    BY <1>0, ConcatAppend
  <2>3. Len(s \o v) = Len(s) + Len(v) /\ Len(v) \in Nat
    BY <1>0, ConcatProperties
  <2>4. k \in 0 .. Len(s \o v)
    BY <1>0, <2>3
  <2>5. Reading(Append(s \o v, c))[k] = Reading(s \o v)[k]
    BY <2>1, <2>4, ReadingAppend
  <2> QED
    BY <1>2, <2>1, <2>2, <2>5
<1> HIDE DEF S
<1>3. u \in S
  BY <1>1, <1>2, Closed, SeqInduct
<1> QED
  BY <1>3 DEF S

\* The mode inside a text is that of Scan after its beginning.
LEMMA ScanAt ==
  ASSUME NEW s, Plain(s), NEW k \in 0 .. Len(s)
  PROVE  At(s, k) = Scan(Start, SubSeq(s, 1, k)).mode
<1> DEFINE A == SubSeq(s, 1, k)
           B == SubSeq(s, k + 1, Len(s))
<1>0. s \in Text /\ Len(s) \in Nat /\ s \in Seq(Chars)
  BY DEF Plain, Text
<1>1. A \in Text /\ Len(A) = k
  BY <1>0, Part
<1>2. B \in Text
  BY <1>0, Part
<1>3. s = A \o B
  <2>1. 1 \in Nat \ {0} /\ k \in Nat /\ Len(s) \in 0 .. Len(s) /\ 1 <= k + 1 /\ k <= Len(s)
    BY <1>0
  <2>2. SubSeq(s, 1, Len(s)) = A \o B
    BY <1>0, <2>1, Cut
  <2> QED
    BY <1>0, <2>2, SubSeqFull
<1> HIDE DEF A, B
<1>4. Plain(A)
  BY <1>1, <1>2, <1>3, PlainParts
<1>5. k \in 0 .. Len(A)
  BY <1>0, <1>1
<1>6. Reading(s)[k] = Reading(A)[k]
  BY <1>1, <1>2, <1>3, <1>5, ReadingConcat
<1>7. At(A, Len(A)) = Scan(Start, A).mode
  BY <1>4, ScanReads
<1> QED
  BY <1>1, <1>6, <1>7 DEF At, A

\* No block comment ends in t.
NoEnd(t) == \A k \in 1 .. Len(t) : ~Pair(t, k, "*", "/")

\* Inside a block comment nothing is kept.
LEMMA InsideBlock ==
  ASSUME NEW m \in ScanStates, m.mode = "block", NEW t \in Text, NoEnd(t)
  PROVE  /\ Scan(m, t).all = m.all
         /\ Scan(m, t).mode = IF EndsIn(t, "*") THEN "star" ELSE "block"
<1> DEFINE Ok(u) == /\ Scan(m, u).all = m.all
                    /\ Scan(m, u).mode = IF EndsIn(u, "*") THEN "star" ELSE "block"
           S == {u \in Text : NoEnd(u) => Ok(u)}
<1>1. <<>> \in S
  <2>1. Scan(m, <<>>) = m /\ <<>> \in Text /\ ~EndsIn(<<>>, "*")
    BY ScanLaws, Closed DEF EndsIn
  <2> QED
    BY <2>1
<1>2. ASSUME NEW u \in Seq(Chars), NEW c \in Chars, u \in S PROVE Append(u, c) \in S
  <2> DEFINE v == Append(u, c)
             n == Scan(m, u)
  <2>0. u \in Text /\ v \in Text /\ Len(u) \in Nat /\ Len(v) = Len(u) + 1
        /\ (u # <<>> <=> Len(u) # 0)
    BY Closed, AppendProperties
  <2> SUFFICES ASSUME NoEnd(v) PROVE Ok(v)
    BY <2>0
  <2>1. NoEnd(u) /\ ~(EndsIn(u, "*") /\ c = "/")
    <3>1. ASSUME NEW k \in 1 .. Len(u) PROVE ~Pair(u, k, "*", "/")
      <4>1. k \in Nat \ {0} /\ k \in 1 .. Len(v) /\ (k < Len(u) \/ k >= Len(u))
        BY <2>0
      <4>2. ~Pair(v, k, "*", "/")
        BY <4>1 DEF NoEnd
      <4> QED
        BY <2>0, <4>1, <4>2, PairAppend
    <3>2. ASSUME EndsIn(u, "*"), c = "/" PROVE FALSE
      <4>1. Len(u) \in Nat \ {0} /\ Len(u) \in 1 .. Len(v) /\ u[Len(u)] = "*"
        BY <2>0, <3>2 DEF EndsIn
      <4>2. Pair(v, Len(u), "*", "/")
        BY <2>0, <3>2, <4>1, PairAppend
      <4> QED
        BY <4>1, <4>2 DEF NoEnd
    <3> QED
      BY <3>1, <3>2 DEF NoEnd
  <2>2. Ok(u)
    BY <1>2, <2>1
  <2>3. n \in ScanStates /\ Scan(m, v) = ScanStep[n][c]
    BY <2>0, ScanLaws
  <2>4. ScanStep[n][c] = [mode |-> Turn(n.mode, c), kept |-> Kept(n, c), all |-> All(n, c)]
    BY <2>3, ScanStepLaws
  <2>5. Scan(m, v).mode = Turn(n.mode, c) /\ Scan(m, v).all = All(n, c)
    BY <2>3, <2>4
  <2>6. EndsIn(v, "*") <=> c = "*"
    BY <2>0, EndsAppend
  <2>7. n.all = m.all /\ n.mode \in {"block", "star"} /\ (n.mode = "star" <=> EndsIn(u, "*"))
    BY <2>2
  <2> HIDE DEF n, v
  <2>8. All(n, c) = m.all
    BY <2>7 DEF All, Opens, InComment
  <2>9. Turn(n.mode, c) = IF c = "*" THEN "star" ELSE "block"
    BY <2>1, <2>7 DEF Turn
  <2> QED
    BY <2>5, <2>6, <2>8, <2>9
<1> HIDE DEF S
<1>3. t \in S
  BY <1>1, <1>2, Closed, SeqInduct
<1> QED
  BY <1>3 DEF S

\* The two characters that open a block comment.
LEMMA OpenBlock ==
  ASSUME NEW m \in ScanStates, m.mode = "code", NEW c \in Chars, NEW d \in Chars, c = "/", d = "*"
  PROVE  LET r == Scan(m, Append(Append(<<>>, c), d))
         IN  r \in ScanStates /\ r.mode = "block" /\ r.all = m.all
<1> DEFINE n == Scan(m, Append(<<>>, c))
           r == Scan(m, Append(Append(<<>>, c), d))
<1>0. <<>> \in Text /\ Append(<<>>, c) \in Text /\ Append(Append(<<>>, c), d) \in Text
  BY Closed
<1>1. n \in ScanStates /\ r \in ScanStates /\ n = ScanStep[m][c] /\ r = ScanStep[n][d]
  <2> DEFINE x == Append(<<>>, c)
  <2>1. x \in Text /\ Append(x, d) \in Text
    BY <1>0
  <2>2. Scan(m, <<>>) = m /\ Scan(m, x) = ScanStep[Scan(m, <<>>)][c]
    <3>1. /\ Scan(m, <<>>) = m
          /\ \A u \in Text, e \in Chars : Scan(m, Append(u, e)) = ScanStep[Scan(m, u)][e]
      BY ScanLaws
    <3> QED
      BY <1>0, <3>1
  <2> HIDE DEF x
  <2>3. Scan(m, Append(x, d)) = ScanStep[Scan(m, x)][d] /\ Scan(m, x) \in ScanStates
        /\ Scan(m, Append(x, d)) \in ScanStates
    BY <2>1, ScanLaws
  <2> QED
    BY <2>2, <2>3 DEF x
<1>2. n = [mode |-> Turn(m.mode, c), kept |-> Kept(m, c), all |-> All(m, c)]
  BY <1>1, ScanStepLaws
<1>3. r = [mode |-> Turn(n.mode, d), kept |-> Kept(n, d), all |-> All(n, d)]
  BY <1>1, ScanStepLaws
<1>4. n.mode = Turn(m.mode, c) /\ n.kept = Kept(m, c)
  BY <1>2
<1>5. r.mode = Turn(n.mode, d) /\ r.all = All(n, d)
  BY <1>3
<1> HIDE DEF n, r
<1>6. n.mode = "slash" /\ n.kept = m.all
  BY <1>4 DEF Turn, Kept, Opens, InComment
<1>7. r.mode = "block" /\ r.all = m.all
  BY <1>5, <1>6 DEF Turn, All, Opens
<1> QED
  BY <1>1, <1>7 DEF r

\* A block comment up to its character e leaves what there was before it.
LEMMA CommentUpTo ==
  ASSUME NEW t \in Text, NEW a \in Nat \ {0}, Pair(t, a, "/", "*"),
         NEW e \in a + 1 .. Len(t), \A k \in a + 2 .. e - 1 : ~Pair(t, k, "*", "/"),
         NEW m \in ScanStates, m.mode = "code"
  PROVE  LET r == Scan(m, SubSeq(t, a, e))
         IN  /\ r \in ScanStates /\ r.all = m.all /\ InComment(r.mode)
             /\ e > a + 1 /\ t[e] = "*" => r.mode = "star"
<1> DEFINE H == SubSeq(t, a, a + 1)
           Y == SubSeq(t, a + 2, e)
           n == Scan(m, H)
           r == Scan(m, SubSeq(t, a, e))
<1>0. Len(t) \in Nat /\ a + 1 <= Len(t) /\ t[a] = "/" /\ t[a + 1] = "*" /\ t \in Seq(Chars)
  BY DEF Text, Pair
<1>1. t[a] \in Chars /\ t[a + 1] \in Chars
  BY <1>0
<1>2. H = Append(Append(<<>>, t[a]), t[a + 1]) /\ H \in Text
  <2> DEFINE G == Append(<<>>, t[a])
  <2>1. H \in Text /\ Len(H) = 2 /\ H[1] = t[a] /\ H[2] = t[a + 1]
    <3>1. a + 1 \in 0 .. Len(t) /\ a <= (a + 1) + 1 /\ (a + 1) - a + 1 = 2
          /\ a + 1 - 1 = a /\ a + 2 - 1 = a + 1
      BY <1>0
    <3>2. /\ H \in Text /\ Len(H) = (a + 1) - a + 1
          /\ \A k \in 1 .. (a + 1) - a + 1 : H[k] = t[a + k - 1]
      BY <3>1, Part
    <3>3. 1 \in 1 .. (a + 1) - a + 1 /\ 2 \in 1 .. (a + 1) - a + 1
      BY <1>0
    <3> HIDE DEF H
    <3>4. H[1] = t[a + 1 - 1] /\ H[2] = t[a + 2 - 1]
      BY <3>2, <3>3
    <3> QED
      BY <3>1, <3>2, <3>4
  <2>2. G \in Text /\ Len(G) = 1 /\ G[1] = t[a]
    <3> DEFINE c == t[a]
    <3>1. c \in Chars
      BY <1>1
    <3> HIDE DEF c
    <3>2. Append(<<>>, c) \in Text
      BY <3>1, Closed
    <3>3. Len(Append(<<>>, c)) = 1 /\ Append(<<>>, c)[1] = c
      OBVIOUS
    <3> QED
      BY <3>2, <3>3 DEF c
  <2> HIDE DEF G, H
  <2>3. \A k \in 1 .. Len(G) : H[k] = G[k]
    BY <2>1, <2>2
  <2>4. H = Append(G, t[a + 1])
    <3>1. Len(H) = Len(G) + 1 /\ H[Len(G) + 1] = t[a + 1]
      BY <2>1, <2>2
    <3> QED
      BY <1>1, <2>1, <2>2, <2>3, <3>1, OneMore
  <2> QED
    BY <2>1, <2>4 DEF G
<1>3. /\ Y \in Text /\ Len(Y) = e - a - 1
      /\ \A k \in 1 .. e - a - 1 : Y[k] = t[a + k + 1]
  <2>1. e \in 0 .. Len(t) /\ a + 2 \in Nat \ {0} /\ a + 2 <= e + 1 /\ e - (a + 2) + 1 = e - a - 1
    BY <1>0
  <2>2. /\ Y \in Text /\ Len(Y) = e - (a + 2) + 1
        /\ \A k \in 1 .. e - (a + 2) + 1 : Y[k] = t[(a + 2) + k - 1]
    BY <2>1, Part
  <2>3. \A k \in 1 .. e - a - 1 : (a + 2) + k - 1 = a + k + 1
    BY <1>0
  <2> HIDE DEF Y
  <2> QED
    BY <2>1, <2>2, <2>3
<1>4. SubSeq(t, a, e) = H \o Y
  <2>1. e \in 0 .. Len(t) /\ a + 1 \in Nat /\ a <= (a + 1) + 1 /\ a + 1 <= e /\ (a + 1) + 1 = a + 2
    BY <1>0
  <2>2. SubSeq(t, a, e) = SubSeq(t, a, a + 1) \o SubSeq(t, (a + 1) + 1, e)
    BY <2>1, Cut
  <2> QED
    BY <2>1, <2>2
<1>5. n \in ScanStates /\ n.mode = "block" /\ n.all = m.all
  <2> DEFINE c == t[a]
             d == t[a + 1]
  <2>1. c \in Chars /\ d \in Chars /\ c = "/" /\ d = "*"
    BY <1>0, <1>1
  <2>2. n = Scan(m, Append(Append(<<>>, c), d))
    BY <1>2
  <2> HIDE DEF c, d, n
  <2>3. LET x == Scan(m, Append(Append(<<>>, c), d))
        IN  x \in ScanStates /\ x.mode = "block" /\ x.all = m.all
    BY <2>1, OpenBlock
  <2> QED
    BY <2>2, <2>3
<1> HIDE DEF H, Y
<1>6. r = Scan(n, Y) /\ r \in ScanStates
  BY <1>2, <1>3, <1>4, <1>5, ScanLaws
<1>7. NoEnd(Y)
  <2> SUFFICES ASSUME NEW k \in 1 .. Len(Y), Pair(Y, k, "*", "/") PROVE FALSE
    BY DEF NoEnd
  <2>1. k + 1 <= Len(Y) /\ Y[k] = "*" /\ Y[k + 1] = "/"
    BY DEF Pair
  <2>2. /\ k \in 1 .. e - a - 1 /\ k + 1 \in 1 .. e - a - 1 /\ a + k + 1 \in a + 2 .. e - 1
        /\ (a + k + 1) + 1 <= Len(t) /\ (a + k + 1) + 1 = a + (k + 1) + 1
    <3>1. Len(Y) = e - a - 1
      BY <1>3
    <3> QED
      BY <1>0, <2>1, <3>1
  <2>3. t[a + k + 1] = "*" /\ t[(a + k + 1) + 1] = "/"
    BY <1>3, <2>1, <2>2
  <2>4. Pair(t, a + k + 1, "*", "/")
    BY <2>2, <2>3 DEF Pair
  <2> QED
    BY <2>2, <2>4
<1>8. r.all = n.all /\ r.mode = IF EndsIn(Y, "*") THEN "star" ELSE "block"
  BY <1>3, <1>5, <1>6, <1>7, InsideBlock
<1>9. e > a + 1 /\ t[e] = "*" => EndsIn(Y, "*")
  <2> SUFFICES ASSUME e > a + 1, t[e] = "*" PROVE EndsIn(Y, "*")
    OBVIOUS
  <2>1. Len(Y) = e - a - 1 /\ e - a - 1 \in 1 .. e - a - 1 /\ a + (e - a - 1) + 1 = e
    BY <1>0, <1>3
  <2>2. Y[Len(Y)] = t[e]
    BY <1>3, <2>1
  <2>3. Y # <<>>
    BY <1>0, <2>1
  <2> QED
    BY <2>2, <2>3 DEF EndsIn
<1> HIDE DEF n, r
<1>10. InComment(r.mode)
  BY <1>8 DEF InComment
<1> QED
  BY <1>5, <1>6, <1>8, <1>9, <1>10 DEF r

\* What Tidy says.
LEMMA TidyDef ==
  ASSUME NEW t \in Text
  PROVE  Tidy(t) <=> /\ Plain(t)
                     /\ \A k \in 1 .. Len(t) : Pair(t, k, "/", "*") => At(t, k - 1) = "code"
                     /\ \A k \in 1 .. Len(t) - 2 :
                          Pair(t, k, "*", "/") => t[k + 2] \notin {"/", "*", "-"}
<1>1. \A k : At(t, k) = "code" <=> Reading(t)[k].mode \in {"code", "word"}
  BY DEF At, Bare
<1> QED
  BY <1>1 DEF Tidy, Plain

\* One round gives a text, a shorter one if there was a block comment.
LEMMA RoundText ==
  ASSUME NEW t \in Text
  PROVE  /\ WithoutFirst(t) \in Text
         /\ NoBlock(t) => WithoutFirst(t) = t
         /\ ~NoBlock(t) => Len(WithoutFirst(t)) < Len(t)
<1> DEFINE a == Index(t, 1, "/", "*")
           b == Index(t, a + 2, "*", "/")
<1>0. Len(t) \in Nat /\ 1 \in Nat \ {0} /\ t \in Seq(Chars)
  BY DEF Text
<1>1. /\ a = 0 => \A k \in 1 .. Len(t) : ~Pair(t, k, "/", "*")
      /\ a # 0 => /\ a \in 1 .. Len(t) /\ a + 1 <= Len(t)
                  /\ Pair(t, a, "/", "*")
                  /\ \A k \in 1 .. a - 1 : ~Pair(t, k, "/", "*")
  BY <1>0, IndexLaws
<1>2. WithoutFirst(t) = IF a = 0 THEN t ELSE IF b = 0 THEN SubSeq(t, 1, a - 1)
                        ELSE SubSeq(t, 1, a - 1) \o SubSeq(t, b + 2, Len(t))
  BY DEF WithoutFirst
<1>3. CASE a = 0
  BY <1>1, <1>2, <1>3 DEF NoBlock
<1>4. CASE a # 0
  <2> HIDE DEF a
  <2>0. a + 2 \in Nat \ {0} /\ ~NoBlock(t)
    BY <1>1, <1>4 DEF NoBlock
  <2>1. b # 0 => b \in a + 2 .. Len(t) /\ b + 1 <= Len(t)
    BY <2>0, IndexLaws
  <2> DEFINE A == SubSeq(t, 1, a - 1)
             C == SubSeq(t, b + 2, Len(t))
  <2>2. A \in Text /\ Len(A) = a - 1
    <3>1. a - 1 \in 0 .. Len(t) /\ 1 <= (a - 1) + 1 /\ (a - 1) - 1 + 1 = a - 1
      BY <1>0, <1>1, <1>4
    <3> QED
      BY <1>0, <3>1, Part
  <2> HIDE DEF b
  <2>3. CASE b = 0
    BY <1>0, <1>1, <1>2, <1>4, <2>0, <2>2, <2>3
  <2>4. CASE b # 0
    <3>1. C \in Text /\ Len(C) = Len(t) - b - 1
      <4>1. /\ b + 2 \in Nat \ {0} /\ Len(t) \in 0 .. Len(t) /\ b + 2 <= Len(t) + 1
            /\ Len(t) - (b + 2) + 1 = Len(t) - b - 1
        BY <1>0, <1>1, <1>4, <2>1, <2>4
      <4> QED
        BY <4>1, Part
    <3> HIDE DEF A, C
    <3>2. A \o C \in Text /\ Len(A \o C) = Len(A) + Len(C)
      <4>1. A \in Seq(Chars) /\ C \in Seq(Chars)
        BY <2>2, <3>1, Closed
      <4> QED
        BY <4>1, Closed, ConcatProperties
    <3>3. Len(A \o C) < Len(t)
      BY <1>0, <1>1, <1>4, <2>1, <2>2, <2>4, <3>1, <3>2
    <3>4. WithoutFirst(t) = A \o C
      BY <1>2, <1>4, <2>4 DEF A, C
    <3> QED
      BY <2>0, <3>2, <3>3, <3>4
  <2> QED
    BY <2>3, <2>4
<1> QED
  BY <1>3, <1>4

\* Before the first block comment of a tidy text the automaton is in code.
LEMMA BeforeComment ==
  ASSUME NEW t \in Text, Tidy(t), NEW a \in 1 .. Len(t), Pair(t, a, "/", "*")
  PROVE  LET A == SubSeq(t, 1, a - 1)
         IN  /\ A \in Text /\ Len(A) = a - 1 /\ \A k \in 1 .. a - 1 : A[k] = t[k]
             /\ Scan(Start, A) \in ScanStates /\ Scan(Start, A).mode = "code"
<1> DEFINE A == SubSeq(t, 1, a - 1)
<1>0. Len(t) \in Nat /\ 1 \in Nat \ {0}
  BY DEF Text
<1>1. a - 1 \in 0 .. Len(t) /\ 1 <= (a - 1) + 1 /\ (a - 1) - 1 + 1 = a - 1
      /\ \A k \in 1 .. a - 1 : 1 + k - 1 = k
  BY <1>0
<1>2. /\ A \in Text /\ Len(A) = (a - 1) - 1 + 1
      /\ \A k \in 1 .. (a - 1) - 1 + 1 : A[k] = t[1 + k - 1]
  BY <1>0, <1>1, Part
<1>3. Plain(t) /\ At(t, a - 1) = "code"
  BY TidyDef
<1>4. Scan(Start, A).mode = "code"
  BY <1>1, <1>3, ScanAt
<1> HIDE DEF A
<1>5. Scan(Start, A) \in ScanStates
  BY <1>2, StartType, ScanLaws
<1> QED
  BY <1>1, <1>2, <1>4, <1>5 DEF A

\* A round in which the comment does not end.
LEMMA RoundOpen ==
  ASSUME NEW t \in Text, Tidy(t), NEW a \in 1 .. Len(t), Pair(t, a, "/", "*"),
         \A k \in 1 .. a - 1 : ~Pair(t, k, "/", "*"),
         \A k \in a + 2 .. Len(t) : ~Pair(t, k, "*", "/")
  PROVE  LET A == SubSeq(t, 1, a - 1)
         IN  Tidy(A) /\ Scan(Start, A).all = Scan(Start, t).all
<1> DEFINE A == SubSeq(t, 1, a - 1)
           B == SubSeq(t, a, Len(t))
           m == Scan(Start, A)
<1>0. Len(t) \in Nat /\ t \in Seq(Chars) /\ a + 1 <= Len(t)
  BY DEF Text, Pair
<1>1. /\ A \in Text /\ Len(A) = a - 1 /\ \A k \in 1 .. a - 1 : A[k] = t[k]
      /\ m \in ScanStates /\ m.mode = "code"
  BY BeforeComment
<1>2. B \in Text
  <2>1. a \in Nat \ {0} /\ Len(t) \in 0 .. Len(t) /\ a <= Len(t) + 1
    BY <1>0
  <2> QED
    BY <2>1, Part
<1>3. t = A \o B
  <2>1. /\ 1 \in Nat \ {0} /\ a - 1 \in Nat /\ Len(t) \in 0 .. Len(t) /\ 1 <= (a - 1) + 1
        /\ a - 1 <= Len(t) /\ (a - 1) + 1 = a
    BY <1>0
  <2>2. SubSeq(t, 1, Len(t)) = SubSeq(t, 1, a - 1) \o SubSeq(t, (a - 1) + 1, Len(t))
    BY <2>1, Cut
  <2>3. SubSeq(t, 1, Len(t)) = t
    BY <1>0, SubSeqFull
  <2> QED
    BY <2>1, <2>2, <2>3
<1>4. Scan(m, B).all = m.all
  <2>1. /\ a \in Nat \ {0} /\ Len(t) \in a + 1 .. Len(t)
        /\ \A k \in a + 2 .. Len(t) - 1 : k \in a + 2 .. Len(t)
    BY <1>0
  <2>2. \A k \in a + 2 .. Len(t) - 1 : ~Pair(t, k, "*", "/")
    BY <2>1
  <2> HIDE DEF m
  <2> QED
    BY <1>1, <2>1, <2>2, CommentUpTo
<1>5. Plain(t)
  BY TidyDef
<1> HIDE DEF A, B
<1>6. Scan(Start, t) = Scan(m, B)
  BY <1>1, <1>2, <1>3, StartType, ScanLaws
<1>7. Plain(A)
  BY <1>1, <1>2, <1>3, <1>5, PlainParts
<1>8. ASSUME NEW k \in 1 .. Len(A), Pair(A, k, "/", "*") PROVE FALSE
  <2>1. k + 1 <= Len(A) /\ A[k] = "/" /\ A[k + 1] = "*"
    BY <1>8 DEF Pair
  <2>2. k \in 1 .. a - 1 /\ k + 1 \in 1 .. a - 1 /\ k + 1 <= Len(t)
    BY <1>0, <1>1, <2>1
  <2>3. Pair(t, k, "/", "*")
    BY <1>1, <2>1, <2>2 DEF Pair
  <2> QED
    BY <2>2, <2>3
<1>9. ASSUME NEW k \in 1 .. Len(A) - 2, Pair(A, k, "*", "/")
      PROVE  A[k + 2] \notin {"/", "*", "-"}
  <2>1. k + 1 <= Len(A) /\ A[k] = "*" /\ A[k + 1] = "/"
    BY <1>9 DEF Pair
  <2>2. /\ k \in 1 .. a - 1 /\ k + 1 \in 1 .. a - 1 /\ k + 2 \in 1 .. a - 1
        /\ k + 1 <= Len(t) /\ k \in 1 .. Len(t) - 2
    BY <1>0, <1>1, <2>1
  <2>3. Pair(t, k, "*", "/") /\ A[k + 2] = t[k + 2]
    BY <1>1, <2>1, <2>2 DEF Pair
  <2>4. t[k + 2] \notin {"/", "*", "-"}
    BY <2>2, <2>3, TidyDef
  <2> QED
    BY <2>3, <2>4
<1>10. Tidy(A)
  BY <1>1, <1>7, <1>8, <1>9, TidyDef
<1> QED
  BY <1>4, <1>6, <1>10 DEF A

\* A whole block comment leaves the automaton as it was.
LEMMA WholeComment ==
  ASSUME NEW t \in Text, NEW a \in 1 .. Len(t), Pair(t, a, "/", "*"),
         NEW b \in a + 2 .. Len(t), Pair(t, b, "*", "/"),
         \A k \in a + 2 .. b - 1 : ~Pair(t, k, "*", "/"),
         NEW m \in ScanStates, m.mode = "code"
  PROVE  Scan(m, SubSeq(t, a, b + 1)) = m /\ SubSeq(t, a, b + 1) \in Text
<1> DEFINE X == SubSeq(t, a, b)
           c == t[b + 1]
           r == Scan(m, X)
           z == Scan(m, SubSeq(t, a, b + 1))
<1>0. /\ Len(t) \in Nat /\ t \in Seq(Chars) /\ b + 1 <= Len(t) /\ t[b] = "*" /\ c = "/"
      /\ a \in Nat \ {0}
  BY DEF Text, Pair
<1>1. r \in ScanStates /\ r.all = m.all /\ r.mode = "star"
  <2>1. b \in a + 1 .. Len(t) /\ b > a + 1
    BY <1>0
  <2> QED
    BY <1>0, <2>1, CommentUpTo
<1>2. X \in Text
  <2>1. b \in 0 .. Len(t) /\ a <= b + 1
    BY <1>0
  <2> QED
    BY <1>0, <2>1, Part
<1>3. c \in Chars
  BY <1>0
<1>4. SubSeq(t, a, b + 1) = Append(X, c)
  <2>1. a \in 1 .. Len(t) /\ b + 1 \in a .. Len(t) /\ (b + 1) - 1 = b
    BY <1>0
  <2>2. SubSeq(t, a, b + 1) = SubSeq(t, a, (b + 1) - 1) \o <<t[b + 1]>>
    BY <1>0, <2>1, SubSeqRecursiveSecond
  <2>3. Append(X, c) = X \o <<c>>
    BY <1>2, <1>3, Closed, AppendIsConcat
  <2> QED
    BY <2>1, <2>2, <2>3
<1> HIDE DEF X, c
<1>5. z = ScanStep[r][c] /\ z \in ScanStates
  <2>1. Scan(m, Append(X, c)) = ScanStep[Scan(m, X)][c]
    BY <1>2, <1>3, ScanLaws
  <2>2. Append(X, c) \in Text
    BY <1>2, <1>3, Closed
  <2>3. Scan(m, Append(X, c)) \in ScanStates
    BY <2>2, ScanLaws
  <2> QED
    BY <1>4, <2>1, <2>3
<1>6. z = [mode |-> Turn(r.mode, c), kept |-> Kept(r, c), all |-> All(r, c)]
  BY <1>1, <1>3, <1>5, ScanStepLaws
<1>7. z.mode = Turn(r.mode, c) /\ z.all = All(r, c)
  BY <1>6
<1>8. SubSeq(t, a, b + 1) \in Text
  BY <1>2, <1>3, <1>4, Closed
<1> HIDE DEF z, r
<1>9. z.mode = "code" /\ z.all = m.all
  BY <1>0, <1>1, <1>7 DEF Turn, All, Opens, InComment
<1>10. z.kept = z.all /\ m.kept = m.all
  BY <1>5, <1>9 DEF ScanStates
<1>11. z = m
  <2>1. /\ z \in [mode : PlainModes, kept : Text, all : Text]
        /\ m \in [mode : PlainModes, kept : Text, all : Text]
    BY <1>5 DEF ScanStates
  <2> QED
    BY <1>9, <1>10, <2>1
<1> QED
  BY <1>8, <1>11 DEF z

\* A round in which the comment ends.
LEMMA RoundClosed ==
  ASSUME NEW t \in Text, Tidy(t), NEW a \in 1 .. Len(t), Pair(t, a, "/", "*"),
         \A k \in 1 .. a - 1 : ~Pair(t, k, "/", "*"),
         NEW b \in a + 2 .. Len(t), Pair(t, b, "*", "/"),
         \A k \in a + 2 .. b - 1 : ~Pair(t, k, "*", "/")
  PROVE  LET w == SubSeq(t, 1, a - 1) \o SubSeq(t, b + 2, Len(t))
         IN  Tidy(w) /\ Scan(Start, w).all = Scan(Start, t).all
<1> DEFINE A == SubSeq(t, 1, a - 1)
           D == SubSeq(t, a, b + 1)
           C == SubSeq(t, b + 2, Len(t))
           w == A \o C
           m == Scan(Start, A)
           n == Len(t)
           d == b + 2 - a
<1>0. n \in Nat /\ t \in Seq(Chars) /\ b + 1 <= n /\ a \in Nat /\ b \in Nat /\ a >= 1 /\ b >= a + 2
  BY DEF Text, Pair
<1>1. /\ A \in Text /\ Len(A) = a - 1 /\ \A k \in 1 .. a - 1 : A[k] = t[k]
      /\ m \in ScanStates /\ m.mode = "code"
  BY BeforeComment
<1>2. Scan(m, D) = m /\ D \in Text
  <2> HIDE DEF m, D
  <2> QED
    BY <1>1, WholeComment DEF D
<1>3. /\ C \in Text /\ Len(C) = n - b - 1
      /\ \A k \in 1 .. n - b - 1 : C[k] = t[b + 1 + k]
  <2>1. /\ b + 2 \in Nat \ {0} /\ n \in 0 .. Len(t) /\ b + 2 <= n + 1
        /\ n - (b + 2) + 1 = n - b - 1
        /\ \A k \in 1 .. n - b - 1 : (b + 2) + k - 1 = b + 1 + k
    BY <1>0
  <2>2. /\ C \in Text /\ Len(C) = n - (b + 2) + 1
        /\ \A k \in 1 .. n - (b + 2) + 1 : C[k] = t[(b + 2) + k - 1]
    BY <2>1, Part
  <2> HIDE DEF C
  <2> QED
    BY <2>1, <2>2
<1>4. Plain(t)
  BY TidyDef
<1>5. ASSUME NEW K \in b + 1 .. n
      PROVE  LET Z == SubSeq(t, b + 2, K)
             IN  Z \in Text /\ Scan(Start, SubSeq(t, 1, K)) = Scan(m, Z)
  <2> DEFINE Z == SubSeq(t, b + 2, K)
  <2>1. Z \in Text
    <3>1. b + 2 \in Nat \ {0} /\ K \in 0 .. Len(t) /\ b + 2 <= K + 1
      BY <1>0
    <3> QED
      BY <3>1, Part
  <2>2. SubSeq(t, 1, K) = SubSeq(t, 1, b + 1) \o Z
    <3>1. /\ 1 \in Nat \ {0} /\ b + 1 \in Nat /\ K \in 0 .. Len(t) /\ 1 <= (b + 1) + 1
          /\ b + 1 <= K /\ (b + 1) + 1 = b + 2
      BY <1>0
    <3>2. SubSeq(t, 1, K) = SubSeq(t, 1, b + 1) \o SubSeq(t, (b + 1) + 1, K)
      BY <3>1, Cut
    <3> QED
      BY <3>1, <3>2
  <2>3. SubSeq(t, 1, b + 1) = A \o D
    <3>1. /\ 1 \in Nat \ {0} /\ a - 1 \in Nat /\ b + 1 \in 0 .. Len(t) /\ 1 <= (a - 1) + 1
          /\ a - 1 <= b + 1 /\ (a - 1) + 1 = a
      BY <1>0
    <3>2. SubSeq(t, 1, b + 1) = SubSeq(t, 1, a - 1) \o SubSeq(t, (a - 1) + 1, b + 1)
      BY <3>1, Cut
    <3> QED
      BY <3>1, <3>2
  <2> HIDE DEF A, D, Z
  <2>4. A \o D \in Text /\ Scan(Start, A \o D) = m
    BY <1>1, <1>2, StartType, ScanLaws, Closed
  <2>5. Scan(Start, (A \o D) \o Z) = Scan(m, Z)
    BY <2>1, <2>4, StartType, ScanLaws
  <2> QED
    BY <2>1, <2>2, <2>3, <2>5 DEF Z
<1> HIDE DEF A, C, D
<1>6. /\ w \in Text /\ Len(w) = (a - 1) + (n - b - 1)
      /\ \A i \in 1 .. Len(w) : /\ i <= a - 1 => w[i] = t[i]
                                /\ i > a - 1  => w[i] = t[i + d]
  <2>1. A \in Seq(Chars) /\ C \in Seq(Chars)
    BY <1>1, <1>3, Closed
  <2>2. /\ w \in Text /\ Len(w) = Len(A) + Len(C)
        /\ \A i \in 1 .. Len(A) + Len(C) : w[i] = IF i <= Len(A) THEN A[i] ELSE C[i - Len(A)]
    BY <2>1, Closed, ConcatProperties
  <2> HIDE DEF w
  <2>3. Len(w) = (a - 1) + (n - b - 1)
    BY <1>1, <1>3, <2>2
  <2>4. ASSUME NEW i \in 1 .. Len(w), i <= a - 1 PROVE w[i] = t[i]
    <3>1. i \in 1 .. Len(A) + Len(C) /\ i <= Len(A) /\ i \in 1 .. a - 1
      BY <1>0, <1>1, <2>2, <2>4
    <3> QED
      BY <1>1, <2>2, <3>1
  <2>5. ASSUME NEW i \in 1 .. Len(w), i > a - 1 PROVE w[i] = t[i + d]
    <3>0. Len(A) = a - 1 /\ Len(C) = n - b - 1
      BY <1>1, <1>3
    <3>1. i \in 1 .. Len(A) + Len(C) /\ ~(i <= Len(A)) /\ i - Len(A) \in 1 .. n - b - 1
          /\ b + 1 + (i - Len(A)) = i + d
      BY <1>0, <2>3, <2>5, <3>0
    <3>2. w[i] = C[i - Len(A)] /\ C[i - Len(A)] = t[b + 1 + (i - Len(A))]
      BY <1>3, <2>2, <3>1
    <3> QED
      BY <3>1, <3>2
  <2> QED
    BY <2>2, <2>3, <2>4, <2>5
<1>7. Scan(Start, w) = Scan(Start, t)
  <2>1. n \in b + 1 .. n
    BY <1>0
  <2>2. Scan(Start, SubSeq(t, 1, n)) = Scan(m, C)
    BY <1>5, <2>1 DEF C
  <2>3. SubSeq(t, 1, n) = t
    BY <1>0, SubSeqFull
  <2>4. Scan(Start, w) = Scan(m, C)
    BY <1>1, <1>3, StartType, ScanLaws
  <2> QED
    BY <2>2, <2>3, <2>4
<1>8. Plain(w)
  <2>1. Plain(A) /\ Plain(C)
    <3>1. ASSUME NEW k \in 1 .. Len(A) PROVE A[k] \notin Quotes
      <4>1. k \in 1 .. a - 1 /\ k \in 1 .. n
        BY <1>0, <1>1
      <4> QED
        BY <1>1, <1>4, <4>1 DEF Plain
    <3>2. ASSUME NEW k \in 1 .. Len(C) PROVE C[k] \notin Quotes
      <4>1. k \in 1 .. n - b - 1 /\ b + 1 + k \in 1 .. n
        BY <1>0, <1>3
      <4> QED
        BY <1>3, <1>4, <4>1 DEF Plain
    <3> QED
      BY <1>1, <1>3, <3>1, <3>2 DEF Plain
  <2> QED
    BY <1>1, <1>3, <2>1, PlainParts
<1>9. ASSUME NEW k \in a .. Len(w) PROVE At(w, k - 1) = At(t, k - 1 + d)
  <2> DEFINE K == k - 1 + d
             Z == SubSeq(t, b + 2, K)
             Y == SubSeq(w, a, k - 1)
  <2>0. Len(w) \in Nat
    BY <1>6, <1>0
  <2>1. K \in b + 1 .. n /\ K \in 0 .. Len(t) /\ k - 1 \in 0 .. Len(w)
    BY <1>0, <1>6, <2>0
  <2>2. At(t, K) = Scan(Start, SubSeq(t, 1, K)).mode
    BY <1>4, <2>1, ScanAt
  <2>3. Z \in Text /\ Scan(Start, SubSeq(t, 1, K)) = Scan(m, Z)
    BY <1>5, <2>1
  <2> HIDE DEF w
  <2>4. At(w, k - 1) = Scan(Start, SubSeq(w, 1, k - 1)).mode
    BY <1>8, <2>1, ScanAt
  <2>5. SubSeq(w, 1, k - 1) = SubSeq(w, 1, a - 1) \o Y
    <3>1. /\ 1 \in Nat \ {0} /\ a - 1 \in Nat /\ 1 <= (a - 1) + 1
          /\ a - 1 <= k - 1 /\ (a - 1) + 1 = a
      BY <1>0, <2>0
    <3>2. SubSeq(w, 1, k - 1) = SubSeq(w, 1, a - 1) \o SubSeq(w, (a - 1) + 1, k - 1)
      BY <1>6, <2>1, <3>1, Cut
    <3> QED
      BY <3>1, <3>2
  <2>6. SubSeq(w, 1, a - 1) = A
    <3> DEFINE W == SubSeq(w, 1, a - 1)
    <3>1. 1 \in Nat \ {0} /\ a - 1 \in 0 .. Len(w) /\ 1 <= (a - 1) + 1 /\ (a - 1) - 1 + 1 = a - 1
          /\ \A i \in 1 .. a - 1 : 1 + i - 1 = i /\ i \in 1 .. Len(w) /\ i <= a - 1
      BY <1>0, <2>0
    <3>2. /\ W \in Text /\ Len(W) = (a - 1) - 1 + 1
          /\ \A i \in 1 .. (a - 1) - 1 + 1 : W[i] = w[1 + i - 1]
      BY <1>6, <3>1, Part
    <3> HIDE DEF W
    <3>3. \A i \in 1 .. a - 1 : W[i] = A[i]
      BY <1>1, <1>6, <3>1, <3>2
    <3>4. W \in Seq(Chars) /\ A \in Seq(Chars) /\ Len(W) = Len(A) /\ Len(A) = a - 1
      BY <1>1, <3>1, <3>2, Closed
    <3>5. \A i \in 1 .. Len(W) : W[i] = A[i]
      BY <3>3, <3>4
    <3>6. W = A
      BY <3>4, <3>5, SeqEqual
    <3> QED
      BY <3>6 DEF W
  <2>7. Y = Z
    <3>1. /\ a \in Nat \ {0} /\ k - 1 \in 0 .. Len(w) /\ a <= (k - 1) + 1
          /\ (k - 1) - a + 1 = k - a
          /\ \A i \in 1 .. k - a : /\ a + i - 1 \in 1 .. Len(w) /\ a + i - 1 > a - 1
                                   /\ (a + i - 1) + d = (b + 2) + i - 1
      BY <1>0, <2>0
    <3>2. /\ Y \in Text /\ Len(Y) = (k - 1) - a + 1
          /\ \A i \in 1 .. (k - 1) - a + 1 : Y[i] = w[a + i - 1]
      BY <1>6, <3>1, Part
    <3>3. b + 2 \in Nat \ {0} /\ b + 2 <= K + 1 /\ K - (b + 2) + 1 = k - a
      BY <1>0, <2>0, <2>1
    <3>4. /\ Z \in Text /\ Len(Z) = K - (b + 2) + 1
          /\ \A i \in 1 .. K - (b + 2) + 1 : Z[i] = t[(b + 2) + i - 1]
      BY <2>1, <3>3, Part
    <3> HIDE DEF Y, Z, K, d
    <3>5. ASSUME NEW i \in 1 .. k - a PROVE Y[i] = Z[i]
      <4>1. Y[i] = w[a + i - 1] /\ Z[i] = t[(b + 2) + i - 1]
        BY <3>1, <3>2, <3>3, <3>4
      <4>2. w[a + i - 1] = t[(a + i - 1) + d]
        BY <1>6, <3>1
      <4> QED
        BY <3>1, <4>1, <4>2
    <3>6. Y \in Seq(Chars) /\ Z \in Seq(Chars) /\ Len(Y) = Len(Z) /\ Len(Y) = k - a
      BY <3>1, <3>2, <3>3, <3>4, Closed
    <3>7. \A i \in 1 .. Len(Y) : Y[i] = Z[i]
      BY <3>5, <3>6
    <3> QED
      BY <3>6, <3>7, SeqEqual
  <2> HIDE DEF Y, Z, K
  <2>8. Scan(Start, SubSeq(w, 1, k - 1)) = Scan(m, Z)
    <3>1. Scan(Start, A \o Z) = Scan(m, Z)
      BY <1>1, <2>3, StartType, ScanLaws
    <3> QED
      BY <2>5, <2>6, <2>7, <3>1
  <2> QED
    BY <2>2, <2>3, <2>4, <2>8 DEF K
<1>10. b + 2 <= n => t[b + 2] \notin {"/", "*", "-"}
  <2> SUFFICES ASSUME b + 2 <= n PROVE t[b + 2] \notin {"/", "*", "-"}
    OBVIOUS
  <2>1. b \in 1 .. Len(t) - 2
    BY <1>0
  <2> QED
    BY <2>1, TidyDef
<1> HIDE DEF w
<1>11. ASSUME NEW k \in 1 .. Len(w), NEW x, NEW y, Pair(w, k, x, y)
       PROVE  /\ k + 1 <= a - 1 => Pair(t, k, x, y)
              /\ k = a - 1 => b + 2 <= n /\ y = t[b + 2]
              /\ k >= a => Pair(t, k + d, x, y) /\ k + d \in 1 .. n
  <2>0. /\ k + 1 <= Len(w) /\ w[k] = x /\ w[k + 1] = y /\ Len(w) = (a - 1) + (n - b - 1)
        /\ k + 1 \in 1 .. Len(w)
    BY <1>0, <1>6, <1>11 DEF Pair
  <2>1. ASSUME k + 1 <= a - 1 PROVE Pair(t, k, x, y)
    <3>1. k <= a - 1 /\ k + 1 <= Len(t)
      BY <1>0, <2>1
    <3> QED
      BY <1>6, <2>0, <2>1, <3>1 DEF Pair
  <2>2. ASSUME k = a - 1 PROVE b + 2 <= n /\ y = t[b + 2]
    <3>1. k + 1 > a - 1 /\ (k + 1) + d = b + 2 /\ b + 2 <= n
      BY <1>0, <2>0, <2>2
    <3> QED
      BY <1>6, <2>0, <3>1
  <2>3. ASSUME k >= a PROVE Pair(t, k + d, x, y) /\ k + d \in 1 .. n
    <3>1. /\ k > a - 1 /\ k + 1 > a - 1 /\ (k + 1) + d = (k + d) + 1 /\ (k + d) + 1 <= Len(t)
          /\ k + d \in 1 .. n
      BY <1>0, <2>0, <2>3
    <3> HIDE DEF d
    <3>2. w[k] = t[k + d] /\ w[k + 1] = t[(k + 1) + d]
      BY <1>6, <2>0, <3>1
    <3> QED
      BY <2>0, <3>1, <3>2 DEF Pair
  <2> QED
    BY <2>1, <2>2, <2>3
<1>12. ASSUME NEW k \in 1 .. Len(w), Pair(w, k, "/", "*") PROVE At(w, k - 1) = "code"
  <2>0. Len(w) \in Nat
    BY <1>0, <1>6
  <2>1. CASE k + 1 <= a - 1
    <3>1. Pair(t, k, "/", "*") /\ k \in 1 .. a - 1
      BY <1>0, <1>11, <1>12, <2>1
    <3> QED
      BY <3>1
  <2>2. CASE k = a - 1
    <3>1. b + 2 <= n /\ "*" = t[b + 2]
      BY <1>11, <1>12, <2>2
    <3> QED
      BY <1>10, <3>1
  <2>3. CASE k >= a
    <3>1. Pair(t, k + d, "/", "*") /\ k + d \in 1 .. n
      BY <1>11, <1>12, <2>3
    <3>2. At(t, (k + d) - 1) = "code"
      BY <3>1, TidyDef
    <3>3. k \in a .. Len(w) /\ (k + d) - 1 = k - 1 + d
      BY <1>0, <2>0, <2>3
    <3> QED
      BY <1>9, <3>2, <3>3
  <2> QED
    BY <1>0, <2>0, <2>1, <2>2, <2>3
<1>13. ASSUME NEW k \in 1 .. Len(w) - 2, Pair(w, k, "*", "/")
       PROVE  w[k + 2] \notin {"/", "*", "-"}
  <2>0. /\ Len(w) \in Nat /\ Len(w) = (a - 1) + (n - b - 1) /\ k \in 1 .. Len(w)
        /\ k + 2 \in 1 .. Len(w)
    BY <1>0, <1>6
  <2>1. CASE k + 1 <= a - 1
    <3>1. Pair(t, k, "*", "/")
      BY <1>11, <1>13, <2>0, <2>1
    <3>2. CASE k + 2 <= a - 1
      <4>1. k \in 1 .. Len(t) - 2
        BY <1>0, <3>2
      <4> QED
        BY <1>6, <2>0, <3>1, <3>2, <4>1, TidyDef
    <3>3. CASE k + 2 = a
      <4>1. k + 2 > a - 1 /\ (k + 2) + d = b + 2 /\ b + 2 <= n
        BY <1>0, <2>0, <3>3
      <4> QED
        BY <1>6, <1>10, <2>0, <4>1
    <3> QED
      BY <1>0, <2>1, <3>2, <3>3
  <2>2. CASE k = a - 1
    <3>1. b + 2 <= n /\ "/" = t[b + 2]
      BY <1>11, <1>13, <2>0, <2>2
    <3> QED
      BY <1>10, <3>1
  <2>3. CASE k >= a
    <3>1. Pair(t, k + d, "*", "/")
      BY <1>11, <1>13, <2>0, <2>3
    <3>2. k + d \in 1 .. Len(t) - 2 /\ k + 2 > a - 1 /\ (k + 2) + d = (k + d) + 2
      BY <1>0, <2>0, <2>3
    <3> HIDE DEF d
    <3>3. t[(k + d) + 2] \notin {"/", "*", "-"}
      BY <3>1, <3>2, TidyDef
    <3>4. w[k + 2] = t[(k + 2) + d]
      BY <1>6, <2>0, <3>2
    <3> QED
      BY <3>2, <3>3, <3>4
  <2> QED
    BY <1>0, <2>0, <2>1, <2>2, <2>3
<1>14. Tidy(w)
  BY <1>6, <1>8, <1>12, <1>13, TidyDef
<1> QED
  BY <1>7, <1>14 DEF w, A, C

\* A round keeps a text tidy and leaves what stands outside comments.
LEMMA Round ==
  ASSUME NEW t \in Text, Tidy(t)
  PROVE  Tidy(WithoutFirst(t)) /\ Scan(Start, WithoutFirst(t)).all = Scan(Start, t).all
<1> DEFINE a == Index(t, 1, "/", "*")
           b == Index(t, a + 2, "*", "/")
<1>0. Len(t) \in Nat /\ 1 \in Nat \ {0}
  BY DEF Text
<1>1. a # 0 => /\ a \in 1 .. Len(t) /\ a + 1 <= Len(t)
               /\ Pair(t, a, "/", "*")
               /\ \A k \in 1 .. a - 1 : ~Pair(t, k, "/", "*")
  BY <1>0, IndexLaws
<1>2. WithoutFirst(t) = IF a = 0 THEN t ELSE IF b = 0 THEN SubSeq(t, 1, a - 1)
                        ELSE SubSeq(t, 1, a - 1) \o SubSeq(t, b + 2, Len(t))
  BY DEF WithoutFirst
<1>3. CASE a = 0
  BY <1>2, <1>3
<1>4. CASE a # 0
  <2> HIDE DEF a
  <2>0. a + 2 \in Nat \ {0}
    BY <1>1, <1>4
  <2>1. /\ b = 0 => \A k \in a + 2 .. Len(t) : ~Pair(t, k, "*", "/")
        /\ b # 0 => /\ b \in a + 2 .. Len(t) /\ Pair(t, b, "*", "/")
                    /\ \A k \in a + 2 .. b - 1 : ~Pair(t, k, "*", "/")
    BY <2>0, IndexLaws
  <2> HIDE DEF b
  <2>2. CASE b = 0
    <3> DEFINE A == SubSeq(t, 1, a - 1)
    <3>1. Tidy(A) /\ Scan(Start, A).all = Scan(Start, t).all
      BY <1>1, <1>4, <2>1, <2>2, RoundOpen
    <3>2. WithoutFirst(t) = A
      BY <1>2, <1>4, <2>2
    <3> HIDE DEF A
    <3> QED
      BY <3>1, <3>2
  <2>3. CASE b # 0
    <3> DEFINE w == SubSeq(t, 1, a - 1) \o SubSeq(t, b + 2, Len(t))
    <3>1. Tidy(w) /\ Scan(Start, w).all = Scan(Start, t).all
      BY <1>1, <1>4, <2>1, <2>3, RoundClosed
    <3>2. WithoutFirst(t) = w
      BY <1>2, <1>4, <2>3
    <3> HIDE DEF w
    <3> QED
      BY <3>1, <3>2
  <2> QED
    BY <2>2, <2>3
<1> QED
  BY <1>3, <1>4

\* The rounds end without a block comment, and with the same text outside.
LEMMA Rounds ==
  ASSUME NEW s \in Text, Tidy(s)
  PROVE  LET r == removeBlockComments(s)
         IN  r \in Text /\ NoBlock(r) /\ Scan(Start, r).all = Scan(Start, s).all
<1> DEFINE step == [left \in Text |-> [c \in Chars |-> WithoutFirst(left)]]
           R(u) == ForEach(step, s, u)
           Ok(x, n) == /\ x \in Text /\ Tidy(x)
                       /\ Scan(Start, x).all = Scan(Start, s).all
                       /\ NoBlock(x) \/ Len(x) + n <= Len(s)
           S == {u \in Text : Ok(R(u), Len(u))}
<1>0. Len(s) \in Nat /\ s \in Seq(Chars) /\ Text = Seq(Chars)
  BY DEF Text
<1>1. IsLoop(Text, Chars, step, s)
  <2>1. \A left \in Text : WithoutFirst(left) \in Text
    BY RoundText
  <2> QED
    BY <2>1 DEF IsLoop
<1>2. \A left \in Text, c \in Chars : step[left][c] = WithoutFirst(left)
  OBVIOUS
<1>3. removeBlockComments(s) = R(s)
  BY Zenon DEF removeBlockComments
<1> HIDE DEF step
<1>4. /\ R(<<>>) = s
      /\ \A u \in Seq(Chars) : R(u) \in Text
      /\ \A u \in Seq(Chars), e \in Chars : R(Append(u, e)) = step[R(u)][e]
  BY <1>1, ForEachLaws
<1>5. <<>> \in S
  <2>1. Ok(s, 0)
    BY <1>0
  <2>2. <<>> \in Text /\ Len(<<>>) = 0
    BY Closed
  <2> HIDE DEF R, Ok
  <2> QED
    BY <1>4, <2>1, <2>2
<1>6. ASSUME NEW u \in Seq(Chars), NEW e \in Chars, u \in S PROVE Append(u, e) \in S
  <2> DEFINE x == R(u)
             y == WithoutFirst(x)
  <2>1. Append(u, e) \in Text /\ Len(Append(u, e)) = Len(u) + 1 /\ Len(u) \in Nat
    BY <1>0, Closed
  <2>2. R(Append(u, e)) = y
    BY <1>2, <1>4
  <2> HIDE DEF R, Ok
  <2>3. Ok(x, Len(u))
    BY <1>6
  <2> HIDE DEF x
  <2>4. x \in Text /\ Tidy(x) /\ Scan(Start, x).all = Scan(Start, s).all
    BY <2>3 DEF Ok
  <2>5. y \in Text /\ (NoBlock(x) => y = x) /\ (~NoBlock(x) => Len(y) < Len(x))
    BY <2>4, RoundText
  <2>6. Tidy(y) /\ Scan(Start, y).all = Scan(Start, x).all
    BY <2>4, Round
  <2> HIDE DEF y
  <2>7. NoBlock(y) \/ Len(y) + (Len(u) + 1) <= Len(s)
    <3>1. CASE NoBlock(x)
      BY <2>5, <3>1
    <3>2. CASE ~NoBlock(x)
      <4>1. Len(x) + Len(u) <= Len(s)
        BY <2>3, <3>2 DEF Ok
      <4>2. Len(x) \in Nat /\ Len(y) \in Nat /\ Len(y) < Len(x)
        BY <1>0, <2>4, <2>5, <3>2
      <4> QED
        BY <1>0, <2>1, <4>1, <4>2
    <3> QED
      BY <3>1, <3>2
  <2>8. Ok(y, Len(u) + 1)
    BY <2>4, <2>5, <2>6, <2>7 DEF Ok
  <2> QED
    BY <2>1, <2>2, <2>8
<1>7. s \in S
  <2> HIDE DEF S
  <2>1. \A u \in Seq(Chars), e \in Chars : u \in S => Append(u, e) \in S
    BY <1>6
  <2>2. \A u \in Seq(Chars) : u \in S
    BY <1>5, <2>1, SeqInduct
  <2> QED
    BY <1>0, <2>2
<1> DEFINE r == R(s)
<1> HIDE DEF R
<1>8. /\ r \in Text /\ Scan(Start, r).all = Scan(Start, s).all
      /\ (NoBlock(r) \/ Len(r) + Len(s) <= Len(s))
  BY <1>7
<1> HIDE DEF r
<1>9. NoBlock(r)
  <2>1. Len(r) \in Nat
    BY <1>0, <1>8
  <2>2. CASE Len(r) + Len(s) <= Len(s)
    <3>1. 1 .. Len(r) = {}
      BY <1>0, <2>1, <2>2
    <3> QED
      BY <3>1 DEF NoBlock
  <2> QED
    BY <1>8, <2>2
<1> QED
  BY <1>3, <1>8, <1>9 DEF r

\* A tidy file is split as its reading says.
LEMMA TidyFiles ==
  ASSUME NEW s \in Text, Tidy(s)
  PROVE  Map(parseSQL(s), NonBlanks) = Statements(s)
<1> DEFINE r == removeBlockComments(s)
           P == Split(r, "nl")
           J == Join(NonEmpty(Map(P, CutLine)))
           Q == Split(J, ";")
           U == Uncommented(s)
           V == Split(U, ";")
<1>0. "nl" \in Chars /\ ";" \in Chars
  BY DEF Chars, Blanks
<1>1. r \in Text /\ NoBlock(r) /\ Scan(Start, r).all = Scan(Start, s).all
  BY Rounds
<1>2. Plain(s)
  BY TidyDef
<1>3. U \in Text /\ Scan(Start, s).all = NonBlanks(U)
  BY <1>2, SettledType, ScanReads
<1> HIDE DEF r, U
<1>4. P \in Texts /\ V \in Texts
  BY <1>0, <1>1, <1>3, SplitLaws
<1>5. Flat(P) = Scan(Start, r).all
  BY <1>1, LinePass
<1> HIDE DEF P, V
<1>6. J \in Text /\ NonBlanks(J) = Flat(P)
  <2>1. Map(P, CutLine) \in Texts
    BY <1>4, CutLineLaws
  <2>2. NonEmpty(Map(P, CutLine)) \in Texts
    BY <2>1, NonEmptyLaws
  <2>3. J \in Text
    BY <2>2, JoinLaws
  <2>4. NonBlanks(J) = Flat(P)
    BY <1>4, JoinedLines
  <2> QED
    BY <2>3, <2>4
<1>7. NonBlanks(J) = NonBlanks(U)
  BY <1>1, <1>3, <1>5, <1>6
<1>8. parseSQL(s) = NonEmpty(Map(Q, TrimSpace))
  BY Zenon DEF parseSQL, Q, J, P, r
<1> HIDE DEF J
<1>9. Q \in Texts
  BY <1>0, <1>6, SplitLaws
<1>10. Map(Q, NonBlanks) = Split(NonBlanks(J), ";")
  BY <1>6, SplitNonBlanks
<1>11. Map(V, NonBlanks) = Split(NonBlanks(U), ";")
  BY <1>3, SplitNonBlanks DEF V
<1> HIDE DEF Q
<1>12. Map(NonEmpty(Map(Q, TrimSpace)), NonBlanks) = NonEmpty(Map(Q, NonBlanks))
  BY <1>9, TrimmedPieces
<1>13. Map(parseSQL(s), NonBlanks) = Map(NonEmpty(Map(Q, TrimSpace)), NonBlanks)
  BY Zenon, <1>8
<1>14. Map(Q, NonBlanks) = Map(V, NonBlanks)
  BY <1>7, <1>10, <1>11
<1>15. Statements(s) = NonEmpty(Map(V, NonBlanks))
  BY Zenon DEF Statements, V, U
<1> QED
  BY Zenon, <1>12, <1>13, <1>14, <1>15

-----------------------------------------------------------------------------
(* The theorem.                                                            *)

\* For a text of any length without literals whose comments stand apart,
\* parseSQL executes every statement outside comments, in order, and nothing
\* that stands inside one: neither the rounds that remove block comments, an
\* unclosed one included, nor the cut of each line at its dashes, nor the
\* cut at semicolons loses or adds a character that is not blank.
THEOREM FilesAreSplit == Spec => []StatementsAgree
<1>1. TypeOK => StatementsAgree
  <2> SUFFICES ASSUME TypeOK, Tidy(text)
               PROVE  Map(parseSQL(text), NonBlanks) = Statements(text)
    BY DEF StatementsAgree
  <2>1. text \in Text
    BY DEF TypeOK, Text
  <2> QED
    BY <2>1, TidyFiles
<1> QED
  BY <1>1, TypeCorrect, PTL
=============================================================================
