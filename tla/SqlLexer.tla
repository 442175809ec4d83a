------------------------------ MODULE SqlLexer ------------------------------
(***************************************************************************)
(* The words the hub finds in the text of SQL: the lexer behind            *)
(* IsReadOnlySQL and the prefix test of ClassifySQL.  They read the same   *)
(* text in different ways, and the checks of SqlGate rely on what they     *)
(* find.                                                                   *)
(*                                                                         *)
(* A text is a sequence of characters, one per class the code tells apart. *)
(* "K" stands for a whole keyword that writes, which is a word of its own  *)
(* only with no letter or digit beside it.  "fold" is a letter outside     *)
(* ASCII that ToUpper makes an ASCII one, the dotless i for instance, and  *)
(* "rest" the rest of a keyword that begins with it: ToUpper makes a       *)
(* keyword of the two.  Each action is a turn of tokenize's loop, which    *)
(* reads the text as it stands.                                            *)
(***************************************************************************)
EXTENDS Integers, Sequences

CONSTANTS
  Alphabets,  \* sets of characters, each text being over one of them
  MaxLen      \* bound: characters in a text

Letters == {"a", "rest", "K"}
Digits  == {"1"}
Blanks  == {" ", "nl", "cr"}
Quotes  == {"sq", "dq", "bq"}
Chars   == Letters \cup Digits \cup Blanks \cup Quotes
             \cup {"fold", "esc", "-", "/", "*", ";", "("}

ASSUME TextAssumption == MaxLen \in Nat /\ \A A \in Alphabets : A \subseteq Chars

VARIABLES
  text,   \* the SQL
  pos,    \* tokenize's i, counted from 1
  words   \* the words it has found

vars == <<text, pos, words>>

(***************************************************************************)
(* The one type invariant.                                                 *)
(***************************************************************************)
TypeOK ==
  /\ text \in Seq(Chars)
  /\ pos \in 1 .. Len(text) + 2
  /\ words \in Seq(Seq(Chars))

Init ==
  /\ text \in UNION {UNION {[1 .. n -> A] : n \in 0 .. MaxLen} : A \in Alphabets}
  /\ pos = 1
  /\ words = <<>>

-----------------------------------------------------------------------------
(* tokenize                                                                *)

More == pos <= Len(text)
Here == text[pos]

\* Whether c, d begin at k.
Pair(s, k, c, d) == k + 1 <= Len(s) /\ s[k] = c /\ s[k + 1] = d

\* The first position of a set, or the end of the text.
FirstOf(P) == IF P = {} THEN Len(text) + 1
              ELSE CHOOSE k \in P : \A j \in P : k <= j

\* One past k; an unclosed comment reaches to the end.
Past(k) == IF k > Len(text) THEN k ELSE k + 1

\* Whether what is at j inside a literal hides what follows it: a quote
\* before another one in '...', a backslash in "...".
Hides(s, j, q) == \/ q = "sq" /\ Pair(s, j, "sq", "sq")
                  \/ q = "dq" /\ s[j] = "esc"

\* Where the literal in quotes q ends, for every j inside.
LiteralEnd(s, q) ==
  LET end[j \in 1 .. Len(s) + 2] ==
        IF j > Len(s)              THEN j
        ELSE IF Hides(s, j, q)     THEN end[j + 2]
        ELSE IF s[j] = q           THEN j + 1
        ELSE end[j + 1]
  IN end

Skip(k) == pos' = k /\ UNCHANGED <<text, words>>

Blank == More /\ Here \in Blanks /\ Skip(pos + 1)

LineComment ==
  /\ More /\ Pair(text, pos, "-", "-")
  /\ Skip(Past(FirstOf({k \in pos + 1 .. Len(text) : text[k] = "nl"})))

\* Faulty variant: the closing */ may share its star with the opening.
BlockCommentOverlaps ==
  /\ More /\ Pair(text, pos, "/", "*")
  /\ Skip(Past(Past(FirstOf({k \in pos + 1 .. Len(text) : Pair(text, k, "*", "/")}))))

BlockComment ==
  /\ More /\ Pair(text, pos, "/", "*")
  /\ Skip(Past(Past(FirstOf({k \in pos + 2 .. Len(text) : Pair(text, k, "*", "/")}))))

SingleQuoted == More /\ Here = "sq" /\ Skip(LiteralEnd(text, "sq")[pos + 1])
DoubleQuoted == More /\ Here = "dq" /\ Skip(LiteralEnd(text, "dq")[pos + 1])
BackQuoted   == More /\ Here = "bq" /\ Skip(LiteralEnd(text, "bq")[pos + 1])

Word ==
  /\ More /\ Here \in Letters
  /\ pos' = FirstOf({k \in pos .. Len(text) : text[k] \notin Letters \cup Digits})
  /\ words' = Append(words, SubSeq(text, pos, pos' - 1))
  /\ UNCHANGED text

Number ==
  /\ More /\ Here \in Digits
  /\ Skip(FirstOf({k \in pos .. Len(text) : text[k] \notin Digits}))

Other ==
  /\ More /\ Here \notin Blanks \cup Quotes \cup Letters \cup Digits
  /\ ~Pair(text, pos, "-", "-") /\ ~Pair(text, pos, "/", "*")
  /\ Skip(pos + 1)

Next ==
  \/ Blank \/ LineComment \/ BlockComment
  \/ SingleQuoted \/ DoubleQuoted \/ BackQuoted
  \/ Word \/ Number \/ Other

Spec == Init /\ [][Next]_vars

-----------------------------------------------------------------------------
(* ClassifySQL                                                             *)

\* TrimSpace and stripParens: where the statement begins.
Lead(s) == CHOOSE k \in 1 .. Len(s) + 1 :
             /\ \A j \in 1 .. k - 1 : s[j] \in Blanks \cup {"("}
             /\ k <= Len(s) => s[k] \notin Blanks \cup {"("}

\* ToUpper: where the keyword ends that it leaves at k, 0 for none.
Upper(s, k) == IF k <= Len(s) /\ s[k] = "K"     THEN k
               ELSE IF Pair(s, k, "fold", "rest") THEN k + 1
               ELSE 0

\* Faulty variant: any text that begins with the word.
hasPrefix(s) == Upper(s, Lead(s)) # 0

\* The keyword and then the end or a blank, which a "cr" is not.
hasPrefixWord(s) ==
  LET end == Upper(s, Lead(s))
  IN end # 0 /\ (end < Len(s) => s[end + 1] \in {" ", "nl"})

-----------------------------------------------------------------------------
(* Reference: an automaton that reads one character at a time.  Comments   *)
(* and literals are what tokenize means by them: '...' has no backslash,   *)
(* "--" needs no blank after it, and "#" and "/*!" are nothing special.    *)
(* MySQL differs in each of these.                                         *)

\* From code.  dash and slash may turn out to begin a comment.
Enter(m, c) ==
  CASE c \in Letters -> [mode |-> "word", words |-> Append(m.words, <<c>>)]
    [] OTHER ->
        [m EXCEPT !.mode = CASE c = "-" -> "dash"  [] c = "/"  -> "slash"
                             [] c = "sq" -> "single" [] c = "dq" -> "double"
                             [] c = "bq" -> "back"   [] OTHER    -> "code"]

Go(m, mode) == [m EXCEPT !.mode = mode]

Read(m, c) ==
  CASE m.mode = "word" /\ c \in Letters \cup Digits ->
         [m EXCEPT !.words[Len(m.words)] = Append(@, c)]
    [] m.mode = "dash" /\ c = "-"  -> Go(m, "line")
    [] m.mode = "slash" /\ c = "*" -> Go(m, "block")
    [] m.mode = "line"             -> Go(m, IF c = "nl" THEN "code" ELSE "line")
    [] m.mode = "block"            -> Go(m, IF c = "*" THEN "star" ELSE "block")
    [] m.mode = "star"             -> Go(m, CASE c = "/" -> "code" [] c = "*" -> "star"
                                              [] OTHER   -> "block")
    [] m.mode = "single"           -> Go(m, IF c = "sq" THEN "closed" ELSE "single")
    [] m.mode = "closed" /\ c = "sq" -> Go(m, "single")
    [] m.mode = "double"           -> Go(m, CASE c = "dq" -> "code" [] c = "esc" -> "hidden"
                                              [] OTHER    -> "double")
    [] m.mode = "hidden"           -> Go(m, "double")
    [] m.mode = "back"             -> Go(m, IF c = "bq" THEN "code" ELSE "back")
    [] OTHER                       -> Enter(m, c)

\* After each character of s; Reading(s)[0] is the start.
Reading(s) ==
  LET m[n \in 0 .. Len(s)] == IF n = 0 THEN [mode |-> "code", words |-> <<>>]
                              ELSE Read(m[n - 1], s[n])
  IN m

-----------------------------------------------------------------------------
(* Properties.                                                             *)

\* After every turn of its loop tokenize has found the words of what it has
\* passed, and no part of a comment or a literal, whatever these contain.
WordsAgree ==
  words = Reading(text)[IF pos > Len(text) THEN Len(text) ELSE pos - 1].words

\* ClassifySQL finds a write, and its keyword is written in ASCII.
ClassifiedInAscii == hasPrefixWord(text) /\ text[Lead(text)] # "fold"

\* A statement that ClassifySQL calls a write, for a keyword in ASCII, is one
\* that IsReadOnlySQL refuses, although one looks at a prefix and the other at
\* words: this is what SqlGate assumes of statements.  With a letter that
\* ToUpper folds, ClassifySQL finds a keyword where tokenize finds none.
ClassifiedIsLexed ==
  ~More /\ ClassifiedInAscii => \E k \in 1 .. Len(words) : words[k] = <<"K">>

-----------------------------------------------------------------------------
(* The inductive invariants.                                               *)

\* The automaton in this mode reads c as it does in code: nothing that began
\* before reaches into c.
Fresh(mode, c) ==
  \/ mode = "code"
  \/ mode = "word" /\ c \notin Letters \cup Digits
  \/ mode = "dash" /\ c # "-"
  \/ mode = "slash" /\ c # "*"
  \/ mode = "closed" /\ c # "sq"

\* Whenever tokenize looks at a character, the automaton is between two
\* words, comments or literals as well.
StartsAnew == More => Fresh(Reading(text)[pos - 1].mode, Here)

\* Until tokenize has found the leading keyword, it is before it.
LeadIsFound ==
  ClassifiedInAscii =>
    \/ words = <<>> /\ pos <= Lead(text)
    \/ \E k \in 1 .. Len(words) : words[k] = <<"K">>

LexInv == TypeOK /\ WordsAgree /\ StartsAnew /\ LeadIsFound
=============================================================================
