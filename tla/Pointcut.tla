------------------------------- MODULE Pointcut -------------------------------
(***************************************************************************)
(* Pointcut expressions: the parser and matcher of aspect-core             *)
(* (pointcut/parser.rs, matcher.rs, pattern.rs), and those of the compiler *)
(* driver (aspect-driver/src/match.rs, types.rs), which read the same      *)
(* language with other code.                                               *)
(*                                                                         *)
(* A text is a sequence of tokens. `execution(..)`, `within(..)` and       *)
(* `name(..)` are one token each, their own brackets included: Patterns    *)
(* says what they hold. An operator is a token with the spaces around it   *)
(* or without. Strings that are compared by prefix or suffix are sequences *)
(* too: a name of its parts, a module path of its segments.                *)
(*                                                                         *)
(* Both parsers look for an operator in the characters of a text and cut   *)
(* its bytes at the place they find, so each byte that the text before it  *)
(* has more than characters moves the cut by one to the front.             *)
(***************************************************************************)
EXTENDS Integers, Sequences, SequencesExt, FiniteSetsExt

CONSTANTS
  Patterns,   \* pattern tokens: what each of them holds, and how many bytes it
              \* has more than characters (`wide`). An execution pattern ends
              \* with its signature; `anyArgs` says that this is (..)
  Functions   \* functions that are matched: [path, name, vis]

Atoms == DOMAIN Patterns
Symbols == {"(", ")", "!", " && ", " || ", "&&", "||"}
Tokens == Atoms \cup Symbols

-----------------------------------------------------------------------------
(* Syntax trees, in prefix notation: an operator stands before what it     *)
(* takes. A parser that fails gives no tree.                               *)

Connectives == {"not", "and", "or"}
Garbage == "garbage"  \* a pattern cut out of the text askew: matches nothing
Nodes == Atoms \cup Connectives \cup {Garbage}

MaxWide == 4  \* bound on the bytes that a pattern has more than characters

ASSUME PatternAssumption ==
  /\ Atoms \cap (Symbols \cup Connectives \cup {Garbage}) = {}
  /\ \A a \in Atoms : /\ Patterns[a].kind \in {"execution", "within", "name"}
                      /\ Patterns[a].wide \in 0..MaxWide

Err == << >>
Pattern(a) == <<a>>
Not(e) == IF e = Err THEN Err ELSE <<"not">> \o e
Join(op, l, r) == IF Err \in {l, r} THEN Err ELSE <<op>> \o l \o r

\* What a token does to the number of open brackets; Depth(s)[i] are open behind
\* the first i tokens. It may become negative.
Turn(t) == CASE t = "(" -> 1 [] t = ")" -> -1 [] OTHER -> 0

Depth(s) ==
  LET depth[i \in 0..Len(s)] == IF i = 0 THEN 0 ELSE depth[i - 1] + Turn(s[i])
  IN  depth

\* Positions of the given tokens outside brackets.
Outside(s, ts) == {i \in 1..Len(s) : s[i] \in ts /\ Depth(s)[i - 1] = 0}

\* Places of the patterns that have more bytes than characters. A cut behind
\* them comes out too early: by one byte, or by more.
Wide(s) == {i \in 1..Len(s) : s[i] \in Atoms /\ Patterns[s[i]].wide > 0}
OneByteEarly(s) == \E i \in 1..Len(s) : Wide(s) = {i} /\ Patterns[s[i]].wide = 1

\* The text ends with a closing bracket, its own or a pattern's.
EndsClosed(s) == Last(s) \in Atoms \cup {")"}

-----------------------------------------------------------------------------
(* parse_pointcut of aspect-core. It trims the text first, so that an      *)
(* operator at its edge has lost a space and is not found.                 *)

CoreOperators(s, op) == Outside(s, {op}) \ {1, Len(s)}

Balanced(s) ==
  /\ Depth(s)[Len(s)] = 0
  /\ \A i \in 1..Len(s) : Depth(s)[i] >= 0

Inside(s) == SubSeq(s, 2, Len(s) - 1)

BracketsAtBothEnds(s) == Len(s) >= 2 /\ Head(s) = "(" /\ Last(s) = ")"

\* strip_outer_parens. If the last bracket is a pattern's own, what remains of
\* the text is not balanced.
StripOuterParens(s) == BracketsAtBothEnds(s) /\ Balanced(Inside(s))

\* Mutant: an execution pattern need not end with a bracket.
CoreLeafUnclosed(s) ==
  IF Head(s) \notin Atoms THEN Err
  ELSE CASE Patterns[Head(s)].kind = "execution" -> Pattern(Head(s))
         [] Patterns[Head(s)].kind = "within" ->
              Pattern(IF Len(s) = 1 THEN Head(s) ELSE Garbage)
         [] Patterns[Head(s)].kind = "name" -> Err

\* What is left when no operator is found. The signature behind the name of an
\* execution pattern is not looked at; a module path reaches to the last bracket.
CoreLeaf(s) ==
  IF Head(s) \notin Atoms \/ ~EndsClosed(s) THEN Err
  ELSE CASE Patterns[Head(s)].kind = "execution" -> Pattern(Head(s))
         [] Patterns[Head(s)].kind = "within" ->
              Pattern(IF Len(s) = 1 THEN Head(s) ELSE Garbage)
         [] Patterns[Head(s)].kind = "name" -> Err

\* What stands left of an operator, as it is cut. If it lacks its last byte, the
\* bracket of a signature closes an execution pattern, a token of one byte is
\* missing, and any other text lacks its end. A cut that is two bytes early or more
\* leaves the right side a part of the operator to begin with, which is no tree (or
\* it goes through a character, and panics).
CoreLeft(parse, s) ==
  IF Wide(s) = {} THEN parse[s]
  ELSE IF ~OneByteEarly(s) THEN Err
  ELSE IF Last(s) \in {"(", ")", "!"} THEN parse[Front(s)]
  ELSE IF Last(s) \in Atoms /\ Patterns[Last(s)].kind = "execution" THEN parse[s]
  ELSE Err

\* What stands right of it begins, one byte early, with the operator's space.
CoreSplit(parse, s, op, name) ==
  LET i == Min(CoreOperators(s, op))
  IN  Join(name, CoreLeft(parse, SubSeq(s, 1, i - 1)), parse[SubSeq(s, i + 1, Len(s))])

\* Mutant: AND is looked for before OR, and so binds less tightly.
CoreStepAndFirst(parse, s) ==
  CASE s = << >> -> Err
    [] StripOuterParens(s) -> parse[Inside(s)]
    [] Head(s) = "!" -> Not(parse[Tail(s)])
    [] CoreOperators(s, " && ") # {} -> CoreSplit(parse, s, " && ", "and")
    [] CoreOperators(s, " || ") # {} -> CoreSplit(parse, s, " || ", "or")
    [] OTHER -> CoreLeaf(s)

\* One call of parse_pointcut; `parse` are those that it makes in turn.
CoreStep(parse, s) ==
  IF s = << >> THEN Err
  ELSE IF StripOuterParens(s) THEN parse[Inside(s)]
  ELSE IF Head(s) = "!" THEN Not(parse[Tail(s)])
  ELSE IF CoreOperators(s, " || ") # {} THEN CoreSplit(parse, s, " || ", "or")
  ELSE IF CoreOperators(s, " && ") # {} THEN CoreSplit(parse, s, " && ", "and")
  ELSE CoreLeaf(s)

CoreParse(s) ==
  LET parse[t \in Seq(Tokens)] == CoreStep(parse, t)
  IN  parse[s]

-----------------------------------------------------------------------------
(* parse_pointcut of the driver. It removes outer brackets without looking *)
(* whether they belong together: `cut` says that the text has lost the     *)
(* closing bracket of its last token, a pattern, to that.                  *)

DriverOperators(s, ts) == Outside(s, ts)

\* extract_pattern: from the first opening to the last closing bracket. A cut
\* execution pattern still has those of its signature.
DriverLeaf(s, cut) ==
  LET closed == {i \in 1..Len(s) :
                   /\ s[i] \in Atoms \cup {")"}
                   /\ i = Len(s) /\ cut => Patterns[s[i]].kind = "execution"}
  IN  IF Head(s) \notin Atoms \/ closed = {} THEN Err
      ELSE Pattern(IF Max(closed) = 1 /\ ~(cut /\ Len(s) = 1) THEN Head(s) ELSE Garbage)

\* A cut that comes out early leaves the right side a part of the operator.
DriverSplit(parse, s, cut, ts, name) ==
  LET i == Min(DriverOperators(s, ts))
      left == SubSeq(s, 1, i - 1)
  IN  IF Wide(left) # {} THEN Err
      ELSE Join(name, parse[<<left, FALSE>>], parse[<<SubSeq(s, i + 1, Len(s)), cut>>])

\* Mutant: brackets at both ends go before operators are looked for.
DriverStepBracketsFirst(parse, s, cut) ==
  CASE s = << >> -> Err
    [] Head(s) = "!" -> Not(parse[<<Tail(s), cut>>])
    [] ~cut /\ BracketsAtBothEnds(s) -> parse[<<Inside(s), FALSE>>]
    [] DriverOperators(s, {" && ", "&&"}) # {} ->
         DriverSplit(parse, s, cut, {" && ", "&&"}, "and")
    [] DriverOperators(s, {" || ", "||"}) # {} ->
         DriverSplit(parse, s, cut, {" || ", "||"}, "or")
    [] OTHER -> DriverLeaf(s, cut)

\* One call of parse_pointcut; `parse` are those that it makes in turn.
DriverStep(parse, s, cut) ==
  IF s = << >> THEN Err
  ELSE IF Head(s) = "!" THEN Not(parse[<<Tail(s), cut>>])
  ELSE IF DriverOperators(s, {" && ", "&&"}) # {}
         THEN DriverSplit(parse, s, cut, {" && ", "&&"}, "and")
  ELSE IF DriverOperators(s, {" || ", "||"}) # {}
         THEN DriverSplit(parse, s, cut, {" || ", "||"}, "or")
  ELSE IF Head(s) = "(" /\ EndsClosed(s) /\ ~cut
         THEN IF Last(s) = ")" THEN parse[<<Inside(s), FALSE>>] ELSE parse[<<Tail(s), TRUE>>]
  ELSE DriverLeaf(s, cut)

DriverParse(s) ==
  LET parse[call \in Seq(Tokens) \X BOOLEAN] == DriverStep(parse, call[1], call[2])
  IN  parse[<<s, FALSE>>]

-----------------------------------------------------------------------------
(* Matching. A name pattern is a word with a star before it, after it,     *)
(* both or neither; the star alone has no word.                            *)

Anything(p) == p.word = << >>

CoreMatchesName(p, f) ==
  \/ Anything(p)
  \/ p.before /\ p.after /\ p.word \in SubSeqs(f.name)
  \/ p.before /\ ~p.after /\ IsSuffix(p.word, f.name)
  \/ ~p.before /\ p.after /\ IsPrefix(p.word, f.name)
  \/ ~p.before /\ ~p.after /\ p.word = f.name

\* The driver has no stars in front, and finds the word of a prefix pattern
\* behind any `::` of the full name: in module paths too.
DriverMatchesName(p, f) ==
  \/ Anything(p)
  \/ ~p.before /\ p.after /\ \/ IsPrefix(p.word, f.name)
                             \/ \E i \in 2..Len(f.path) : IsPrefix(p.word, f.path[i])
  \/ ~p.before /\ ~p.after /\ p.word = f.name

\* matches_path of aspect-core, is_in_module of the driver: the module itself or
\* one inside it.
InModule(path, f) == IsPrefix(path, f.path)

CoreMatchesPattern(a, f) ==
  LET p == Patterns[a]
  IN  \/ p.kind = "within" /\ InModule(p.path, f)
      \/ p.kind = "execution" /\ p.vis \in {"any", f.vis} /\ CoreMatchesName(p.name, f)

\* `pub` means any form of pub; of `pub(crate) fn x(..)` the driver takes
\* `pub(crate)` for the name, which no function has.
DriverVisibility(vis, f) == vis = "any" \/ (vis = "pub" /\ f.vis # "")

\* A signature other than (..) it takes for a part of the name, too.
DriverMatchesPattern(a, f) ==
  LET p == Patterns[a]
  IN  \/ p.kind = "within" /\ InModule(p.path, f)
      \/ p.kind = "name" /\ DriverMatchesName(p.name, f)
      \/ /\ p.kind = "execution" /\ p.anyArgs
         /\ DriverVisibility(p.vis, f)
         /\ DriverMatchesName(p.name, f)

\* `matched` are the patterns that match the function in question.
\* The tree is read from its end; values[i] are those of the trees that begin at
\* node i or behind it and are not yet part of another one.
Evaluate(e, matched) ==
  LET values[i \in 1..(Len(e) + 1)] ==
        IF i > Len(e) THEN << >>
        ELSE LET v == values[i + 1]
             IN  CASE e[i] = "not" -> <<~v[1]>> \o Tail(v)
                   [] e[i] = "and" -> <<v[1] /\ v[2]>> \o SubSeq(v, 3, Len(v))
                   [] e[i] = "or" -> <<v[1] \/ v[2]>> \o SubSeq(v, 3, Len(v))
                   [] OTHER -> <<e[i] \in matched>> \o v
  IN  values[1][1]

CoreMatches(s, f) ==
  LET e == CoreParse(s)
  IN  e # Err /\ Evaluate(e, {a \in Atoms : CoreMatchesPattern(a, f)})

\* matches_pointcut: a text that is not understood matches nothing.
DriverMatches(s, f) ==
  LET e == DriverParse(s)
  IN  e # Err /\ Evaluate(e, {a \in Atoms : DriverMatchesPattern(a, f)})
=============================================================================
