----------------------------- MODULE PointcutText -----------------------------
(***************************************************************************)
(* The two pointcut parsers (Pointcut) on texts that somebody writes: all  *)
(* short ones, well-formed or not, and longer well-formed ones, against    *)
(* the grammar that the parsers' comments describe: ! binds tightest, then *)
(* &&, then ||.                                                            *)
(***************************************************************************)
EXTENDS Pointcut

CONSTANTS
  MaxAny,     \* bound on the length of texts of any form
  MaxGrammar  \* bound on the length of well-formed texts

ASSUME TextAssumption == MaxAny \in Nat /\ MaxGrammar \in Nat \ {0} /\ MaxAny <= MaxGrammar

VARIABLES
  text,  \* the text that is read
  meant  \* what it means by the grammar, or Err

textVars == <<text, meant>>

-----------------------------------------------------------------------------
(* The grammar, as the texts of each length with what they mean:           *)
(*   expr ::= term | term || expr                                          *)
(*   term ::= factor | factor && term                                      *)
(*   factor ::= pattern | ! factor | ( expr )                              *)

Ands == {" && ", "&&"}
Ors == {" || ", "||"}

Reading(s, e) == [text |-> s, means |-> e]

\* A reading from left and one from right with an operator in between, n tokens.
Joined(ops, name, left, right, n) ==
  UNION {{Reading(l.text \o <<op>> \o r.text, Join(name, l.means, r.means)) :
            op \in ops, l \in left[k], r \in right[n - 1 - k]} : k \in 1..(n - 2)}

\* The readings of length n, from those of each shorter length.
ReadingsOf(shorter, n) ==
  LET factors == [k \in 1..(n - 1) |-> shorter[k].factor]
      terms == [k \in 1..(n - 1) |-> shorter[k].term]
      exprs == [k \in 1..(n - 1) |-> shorter[k].expr]
      factor == (IF n = 1 THEN {Reading(<<a>>, Pattern(a)) : a \in Atoms} ELSE {})
           \cup (IF n < 2 THEN {} ELSE
                 {Reading(<<"!">> \o r.text, Not(r.means)) : r \in factors[n - 1]})
           \cup (IF n < 3 THEN {} ELSE
                 {Reading(<<"(">> \o r.text \o <<")">>, r.means) : r \in exprs[n - 2]})
      term == factor \cup Joined(Ands, "and", factors, terms, n)
  IN  [factor |-> factor, term |-> term,
       expr |-> term \cup Joined(Ors, "or", terms, exprs, n)]

ByLength ==
  LET upto[n \in 0..MaxGrammar] ==
        IF n = 0 THEN << >>
        ELSE LET shorter == upto[n - 1] IN Append(shorter, ReadingsOf(shorter, n))
  IN  upto[MaxGrammar]

ReadingsUpTo(n) == UNION {ByLength[k].expr : k \in 1..n}

-----------------------------------------------------------------------------
(* Writing a text *)

TextInit == text = << >> /\ meant = Err

\* Bound on the wide patterns of a text: with more than MaxWide * MaxWideTokens
\* bytes a cut might go so far back that it comes out before another pattern.
MaxWideTokens == 2

Write ==
  /\ text = << >>
  /\ \/ \E n \in 1..MaxGrammar : \E r \in ByLength[n].expr : text' = r.text /\ meant' = r.means
     \/ \E s \in BoundedSeq(Tokens, MaxAny) \ {r.text : r \in ReadingsUpTo(MaxAny)} :
          text' = s /\ meant' = Err
  /\ Cardinality(Wide(text')) <= MaxWideTokens

TextSpec == TextInit /\ [][Write]_textVars

-----------------------------------------------------------------------------
(* What is read *)

Operators == Ands \cup Ors

\* Two places of a text with no bracket between them that encloses only one.
SameGroup(s, i, j) ==
  /\ Depth(s)[j - 1] = Depth(s)[i - 1]
  /\ \A k \in i..j : Depth(s)[k] >= Depth(s)[i - 1]

\* An operator follows a ! that is not bracketed together with its operand.
NegationBeforeOperator(s) ==
  \E i, j \in 1..Len(s) :
    i < j /\ s[i] = "!" /\ s[j] \in Operators /\ SameGroup(s, i, j)

MixesOperators(s) ==
  \E i, j \in 1..Len(s) :
    s[i] \in Ands /\ s[j] \in Ors /\ SameGroup(s, Min({i, j}), Max({i, j}))

Unspaced(s) == \E i \in 1..Len(s) : s[i] \in {"&&", "||"}

\* An operator behind a pattern with more bytes than characters is misplaced.
WideBeforeOperator(s) ==
  \E i, j \in 1..Len(s) : i < j /\ i \in Wide(s) /\ s[j] \in Operators

\* name(..) and operators without spaces are known to the driver only.
ForBoth(s) ==
  /\ ~Unspaced(s)
  /\ \A i \in 1..Len(s) : s[i] \in Atoms => Patterns[s[i]].kind # "name"

\* Nothing joins two neighbouring tokens that each read as an operand.
SideBySide(s) ==
  \E i \in 1..(Len(s) - 1) :
    s[i] \in Atoms \cup {")"} /\ s[i + 1] \in Atoms \cup {"(", "!"}

\* A pattern that both matchers take the same way for f: the driver knows
\* neither pub(crate) nor a star in front nor a signature other than (..), takes
\* `pub` for any form of pub, and finds the word of a prefix pattern in module
\* paths too.
Portable(a, f) ==
  LET p == Patterns[a]
  IN  \/ p.kind = "within"
      \/ /\ p.kind = "execution" /\ p.anyArgs
         /\ p.vis = "any" \/ (p.vis = "pub" /\ f.vis \in {"pub", ""})
         /\ \/ Anything(p.name)
            \/ /\ ~p.name.before
               /\ p.name.after =>
                    \A i \in 2..Len(f.path) : ~IsPrefix(p.name.word, f.path[i])

TextTypeOK == text \in Seq(Tokens)

WellFormed == meant # Err

\* aspect-core reads well-formed texts by the grammar, whatever their brackets
\* and operators (parser.rs:23-62), if operators have spaces around them, none
\* follows a pattern with more bytes than characters, and every negated operand
\* that one follows is bracketed together with its !.
CoreReadsTheGrammar ==
  /\ WellFormed /\ ForBoth(text)
  /\ ~WideBeforeOperator(text) /\ ~NegationBeforeOperator(text)
  => CoreParse(text) = meant

\* The driver's parser (match.rs:184-224) reads a well-formed text as
\* aspect-core does, unless && and || stand next to each other in one group (the
\* driver then joins the sides of || first) or an operator is misplaced.
\* Then the two crates also match the same functions with such a text, if each
\* pattern in it is one that both take the same way.
ParsersAgree ==
  WellFormed /\ ~Unspaced(text) /\ ~MixesOperators(text) /\ ~WideBeforeOperator(text) =>
    /\ ForBoth(text) => DriverParse(text) = CoreParse(text)
    /\ \A f \in Functions :
         (\A i \in 1..Len(text) : text[i] \in Atoms => Portable(text[i], f)) =>
           (CoreMatches(text, f) <=> DriverMatches(text, f))

\* A text that a parser accepts is well-formed, as long as its brackets match
\* and no two operands stand side by side; for aspect-core, to which they say
\* nothing, operators without spaces do not count.
AcceptedIsWellFormed ==
  text # << >> /\ Balanced(text) /\ ~SideBySide(text) =>
    /\ CoreParse(text) # Err /\ ~Unspaced(text) => WellFormed
    /\ DriverParse(text) # Err => WellFormed

\* "Handle NOT operator (highest precedence)" (parser.rs:34): ! takes the
\* operand behind it and no more.
NegationBindsTightest ==
  WellFormed /\ ForBoth(text) /\ ~WideBeforeOperator(text) => CoreParse(text) = meant
=============================================================================
