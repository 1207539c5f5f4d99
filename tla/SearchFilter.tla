----------------------------- MODULE SearchFilter -----------------------------
(***************************************************************************)
(* extractRangeFromFilter (contrib/search/common/search.ts): the quick     *)
(* access filter "<path><#|:|(><line><#|:|,><col?><:?>" is split into the  *)
(* path to search for and the range to reveal.                             *)
(*                                                                         *)
(* A filter is a sequence of one-character strings.  The literal "line "  *)
(* that LINE_COLON_PATTERN accepts after the separator is the single       *)
(* character "L", and the digits are "0" and "1", so parseInt is           *)
(* exercised on leading zeros and on more than one digit.  The pattern     *)
(* is matched the way RegExp.prototype.exec does: at the leftmost position *)
(* where it matches up to the end of the filter, each quantifier greedy   *)
(* and given back only when what follows fails.                           *)
(***************************************************************************)
EXTENDS Naturals, Sequences, SequencesExt

Digits == {"0", "1"}
Separators == {"#", ":", "("}         \* [#:\(]
ColumnSeparators == {"#", ":", ","}   \* [#:,]
Space == " "                          \* \s
\* parseInt's NaN (no digit string parses to a negative number); a
\* result that may be undefined is the set of its values, {} or one.
NaN == -1
Undefined == {}

\* s[i], or "" past either end.
Char(s, i) == IF i \in 1..Len(s) THEN s[i] ELSE ""

\* The length of the run of digits of s starting at i (\d*, greedy).
RECURSIVE DigitRun(_, _)
DigitRun(s, i) == IF Char(s, i) \in Digits THEN 1 + DigitRun(s, i + 1) ELSE 0

\* The decimal value of a digit string.
RECURSIVE DecimalValue(_)
DecimalValue(d) ==
  IF d = <<>> THEN 0
  ELSE 10 * DecimalValue(Front(d)) + (IF Last(d) = "1" THEN 1 ELSE 0)

\* Number.parseInt(d, 10) of a captured digit string: NaN when it is empty.
parseInt(d) == IF d = <<>> THEN NaN ELSE DecimalValue(d)

\* `\)?:?\s*$` matches s from position r.
EndsPattern(s, r) ==
  LET r1 == IF Char(s, r) = ")" THEN r + 1 ELSE r
      r2 == IF Char(s, r1) = ":" THEN r1 + 1 ELSE r1
  IN \A k \in r2..Len(s) : s[k] = Space

\* LINE_COLON_PATTERN matched at position i: the captures of its first
\* successful path, or none.  `\s?` and `(?:line )?` are tried with
\* and then without their character, `(\d*)` takes the whole digit run,
\* and the group `(?:[#:,](\d*))?` is tried before its absence.
MatchAt(s, i) ==
  LET j  == IF Char(s, i) = Space THEN i + 1 ELSE i
      p  == IF Char(s, j + 1) = "L" THEN j + 2 ELSE j + 1
      d1 == SubSeq(s, p, p + DigitRun(s, p) - 1)
      q  == p + Len(d1)
      d2 == SubSeq(s, q + 1, q + DigitRun(s, q + 1))
  IN CASE Char(s, j) \notin Separators -> Undefined
       [] Char(s, q) \in ColumnSeparators /\ EndsPattern(s, q + 1 + Len(d2)) ->
            {[index |-> i, line |-> d1, col |-> d2]}
       [] EndsPattern(s, q) -> {[index |-> i, line |-> d1, col |-> <<>>]}
       [] OTHER -> Undefined

\* LINE_COLON_PATTERN.exec(s): the match at the leftmost position.
exec(s) ==
  LET starts == {i \in 1..Len(s) : MatchAt(s, i) # Undefined}
  IN IF starts = {} THEN Undefined ELSE MatchAt(s, Min(starts))

\* LINE_COLON_PATTERN.test(s) (the pattern has no g flag: no lastIndex).
test(s) == exec(s) # Undefined

\* filter.indexOf(value) + 1: 0 when absent, 1 for the first character.
indexOf(filter, value) == SelectInSeq(filter, LAMBDA ch : ch = value)

\* (mutant) the suffix cut one character too late.
extractRangeFromFilterCutLate(filter, unless) ==
  IF \/ filter = <<>>
     \/ \E u \in unless :
          LET pos == indexOf(filter, u)
          IN pos = 1 \/ (pos > 1 /\ ~test(SubSeq(filter, pos + 1, Len(filter))))
  THEN Undefined
  ELSE UNION {LET line == parseInt(m.line)
                    col  == parseInt(m.col)
                    range == CASE line # NaN -> {[line |-> line, col |-> IF col # NaN THEN col ELSE 1]}
                               [] m.line = <<>> -> {[line |-> 1, col |-> 1]}
                               [] OTHER -> Undefined
                IN {[filter |-> SubSeq(filter, 1, m.index), range |-> rg] : rg \in range} :
              m \in exec(filter)}

\* extractRangeFromFilter(filter, unless): nothing when the filter is empty
\* or an unless character is its first character or is not followed by
\* the pattern; otherwise the range of the pattern's match (line 1 when
\* the line is missing, column 1 when the column is) and the filter cut
\* at the match.
extractRangeFromFilter(filter, unless) ==
  IF \/ filter = <<>>
     \/ \E u \in unless :
          LET pos == indexOf(filter, u)
          IN pos = 1 \/ (pos > 1 /\ ~test(SubSeq(filter, pos + 1, Len(filter))))
  THEN Undefined
  ELSE UNION {LET line == parseInt(m.line)
                    col  == parseInt(m.col)
                    range == CASE line # NaN -> {[line |-> line, col |-> IF col # NaN THEN col ELSE 1]}
                               [] m.line = <<>> -> {[line |-> 1, col |-> 1]}
                               [] OTHER -> Undefined
                IN {[filter |-> SubSeq(filter, 1, m.index - 1), range |-> rg] : rg \in range} :
              m \in exec(filter)}

-----------------------------------------------------------------------------
(* The documented forms                                                    *)

\* Paths of up to two characters, with every character of the pattern
\* that is not a separator; a path does not end in a space (the pattern's
\* `\s?` takes it).
PathChars == {"x", "1", ")", ",", "L", "@", Space}
Paths == {path \in BoundedSeq(PathChars, 2) : path = <<>> \/ Last(path) # Space}
DigitStrings == BoundedSeq(Digits, 2)

\* What the comments promise for <path><sep><line><colSep><col><:>: the
\* path, and the range at the line and column typed, line 1 column 1 when
\* "something:" has no line number; nothing when the unless character
\* "@" opens the filter.
Documented(path, line, col, unless) ==
  IF path # <<>> /\ path[1] \in unless THEN Undefined
  ELSE {[filter |-> path,
         range |-> IF line = <<>> THEN [line |-> 1, col |-> 1]
                   ELSE [line |-> DecimalValue(line),
                         col |-> IF col = <<>> THEN 1 ELSE DecimalValue(col)]]}

\* Every filter of the documented form <path><#|:|(><line><#|:|,><col?><:?>
\* is split into its path and the line and column typed, with or without
\* the unless character "@" of the symbol picker: the leftmost match of
\* LINE_COLON_PATTERN, its greedy groups, parseInt of empty groups and the
\* cut at the match index together give back what the user typed.
LineColumnSuffixesParse ==
  \A path \in Paths, sep \in Separators, line \in DigitStrings,
     colon \in BOOLEAN, unless \in {{}, {"@"}} :
    \A tail \in IF line = <<>> THEN {<<>>}
                ELSE {<<>>} \cup {<<cs>> \o col : cs \in ColumnSeparators,
                                                  col \in BoundedSeq(Digits, 1)} :
      LET filter == path \o <<sep>> \o line \o tail \o (IF colon THEN <<":">> ELSE <<>>)
          col == IF tail = <<>> THEN <<>> ELSE Tail(tail)
      IN extractRangeFromFilter(filter, unless) = Documented(path, line, col, unless)

=============================================================================
