------------------------------ MODULE SqlText ------------------------------
(***************************************************************************)
(* The splitter for SQL files, on the texts of SqlLexer: it removes        *)
(* comments in its own way and cuts the rest at semicolons.  The lexer     *)
(* runs in this module too, so that one run covers both.                   *)
(***************************************************************************)
EXTENDS SqlLexer

Text  == Seq(Chars)
Texts == Seq(Text)

\* A loop over s that starts with init: step takes what there is so far and
\* then the next element.  It is a function and not an operator, so that the
\* laws of loops can be proved once.
ForEach(step, init, s) ==
  LET upTo[n \in 0 .. Len(s)] == IF n = 0 THEN init ELSE step[upTo[n - 1]][s[n]]
  IN upTo[Len(s)]

-----------------------------------------------------------------------------
(* strings                                                                 *)

\* Index of a pair, 0 for none.
Index(s, from, c, d) ==
  LET P == {k \in from .. Len(s) : Pair(s, k, c, d)}
  IN IF P = {} THEN 0 ELSE CHOOSE k \in P : \A j \in P : k <= j

Split(s, c) ==
  ForEach([pieces \in Texts |-> [d \in Chars |->
             IF d = c THEN Append(pieces, <<>>)
             ELSE [pieces EXCEPT ![Len(pieces)] = Append(@, d)]]], <<<<>>>>, s)

TrimSpace(s) ==
  LET P == {k \in 1 .. Len(s) : s[k] \notin Blanks}
  IN IF P = {} THEN <<>>
     ELSE SubSeq(s, CHOOSE k \in P : \A j \in P : k <= j,
                    CHOOSE k \in P : \A j \in P : k >= j)

\* Join, with one blank, of lines none of which is empty.
Join(lines) ==
  ForEach([joined \in Text |-> [line \in Text |->
             IF joined = <<>> THEN line ELSE joined \o <<" ">> \o line]], <<>>, lines)

-----------------------------------------------------------------------------
(* parseSQL                                                                *)

\* Faulty variant: a comment that is not closed stays.
WithoutFirstClosed(s) ==
  LET start == Index(s, 1, "/", "*")
      end   == Index(s, start + 2, "*", "/")
  IN IF start = 0 \/ end = 0 THEN s
     ELSE SubSeq(s, 1, start - 1) \o SubSeq(s, end + 2, Len(s))

\* One round of the loop in removeBlockComments.
WithoutFirst(s) ==
  LET start == Index(s, 1, "/", "*")
      end   == Index(s, start + 2, "*", "/")
  IN IF start = 0    THEN s
     ELSE IF end = 0 THEN SubSeq(s, 1, start - 1)
     ELSE SubSeq(s, 1, start - 1) \o SubSeq(s, end + 2, Len(s))

\* There are fewer rounds than characters.
removeBlockComments(s) ==
  ForEach([left \in Text |-> [c \in Chars |-> WithoutFirst(left)]], s, s)

\* A line up to its comment.
UpToComment(line) ==
  LET k == Index(line, 1, "-", "-")
  IN IF k = 0 THEN line ELSE SubSeq(line, 1, k - 1)

CutLine(line) == TrimSpace(UpToComment(line))

Map(s, F(_)) == [k \in 1 .. Len(s) |-> F(s[k])]

\* The loops append what is not empty.
NonEmpty(pieces) ==
  ForEach([kept \in Texts |-> [p \in Text |-> IF p = <<>> THEN kept ELSE Append(kept, p)]],
          <<>>, pieces)

parseSQL(content) ==
  LET lines == NonEmpty(Map(Split(removeBlockComments(content), "nl"), CutLine))
  IN NonEmpty(Map(Split(Join(lines), ";"), TrimSpace))

-----------------------------------------------------------------------------
(* Reference: the automaton of SqlLexer says what is a comment.            *)

InComment(mode) == mode \in {"line", "block", "star"}

\* k is the first character of a comment, or inside, or its last.
Commented(m, k) ==
  \/ k + 1 \in DOMAIN m /\ m[k].mode \in {"dash", "slash"} /\ InComment(m[k + 1].mode)
  \/ InComment(m[k].mode)
  \/ InComment(m[k - 1].mode)

\* The text with its comments blank.
Uncommented(s) ==
  LET m == Reading(s)
  IN [k \in 1 .. Len(s) |-> IF Commented(m, k) THEN " " ELSE s[k]]

NonBlanks(s) ==
  ForEach([kept \in Text |-> [c \in Chars |-> IF c \in Blanks THEN kept ELSE Append(kept, c)]],
          <<>>, s)

\* What statements consist of, blanks apart: ";" outside comments ends one.
Statements(s) == NonEmpty(Map(Split(Uncommented(s), ";"), NonBlanks))

-----------------------------------------------------------------------------
(* Property.                                                               *)

\* A text without literals whose comments stand apart: none opens inside
\* another, and none touches a slash, a star or a dash.
Tidy(s) ==
  /\ \A k \in 1 .. Len(s) : s[k] \notin Quotes
  /\ \A k \in 1 .. Len(s) :
       Pair(s, k, "/", "*") => Reading(s)[k - 1].mode \in {"code", "word"}
  /\ \A k \in 1 .. Len(s) - 2 :
       Pair(s, k, "*", "/") => s[k + 2] \notin {"/", "*", "-"}

\* Of such a file parseSQL executes every statement outside comments, in
\* order, and nothing inside one, although it removes block comments without
\* looking at line comments and line comments without looking at literals.
StatementsAgree ==
  pos = 1 /\ Tidy(text) => Map(parseSQL(text), NonBlanks) = Statements(text)
=============================================================================
