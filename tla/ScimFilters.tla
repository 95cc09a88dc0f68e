----------------------------- MODULE ScimFilters -----------------------------
(***************************************************************************)
(* authlab/directory/scim.py : the parser of query filters and the         *)
(* predicate that it returns, asked about one user.                        *)
(***************************************************************************)
EXTENDS Naturals, Sequences

CONSTANTS
  Attributes,   \* _scim_attr of the user: name -> [type, text]; what is not there is None
  FilterPieces, \* sequences of tokens that filters are put together from
  MaxTokens     \* bound on the length of a filter

\* Tokens as they are spelled, none of them in quotes.
FilterToken ==
  {"(", ")", "and", "AND", "or", "pr", "eq", "ne", "like", "username", "active", "nickname", "bob", "true"}

ASSUME FilterAssumption == FilterPieces \subseteq Seq(FilterToken)

VARIABLE filter     \* the tokens of a filter

filterVars == <<filter>>

FilterInit == filter = <<>>

----------------------------------------------------------------------------
(* What a filter says of the user                                          *)

\* str.lower()
LowerCase(token) == IF token = "AND" THEN "and" ELSE token

\* A predicate is true or false of a user, or raises.
Outcomes == {"holds", "fails", "raises"}

Truth(condition) == IF condition THEN "holds" ELSE "fails"

\* Python's `or` and `and`: the right side is asked only if the left side leaves it open.
Either(a, b) == IF a = "fails" THEN b ELSE a
Both(a, b)   == IF a = "holds" THEN b ELSE a

Actual(attr) == IF attr \in DOMAIN Attributes THEN Attributes[attr] ELSE [type |-> "None", text |-> "None"]

\* _scim_comparison: an operator that is not known raises for a text only, and for a
\* boolean means "ne". None of the texts is empty or a part of another.
Compare(attr, operator, value) ==
  LET actual == Actual(attr)
  IN  CASE actual.type = "None" -> "fails"
        [] actual.type = "bool" ->
             Truth((operator = "eq") = (actual.text = IF value = "true" THEN "true" ELSE "false"))
        [] actual.type = "str" /\ operator \in {"eq", "co", "sw", "ew"} -> Truth(actual.text = value)
        [] actual.type = "str" /\ operator = "ne" -> Truth(actual.text # value)
        [] OTHER -> "raises"

\* The operator "pr"
Present(attr) == Truth(Actual(attr).type = "str" \/ Actual(attr) = [type |-> "bool", text |-> "true"])

----------------------------------------------------------------------------
(* _parse_scim_filter                                                      *)

Peek(tokens, pos) == IF pos <= Len(tokens) THEN tokens[pos] ELSE "end"

\* Where the parser stands: before a term, in a comparison before its operator or its
\* value, after a term, or it has raised. `any` is the `left` of the running parse_or()
\* and `all` that of the parse_and() in it; `outer` keeps the same for the calls that
\* wait behind an open parenthesis.
Standing(at, outer, any, all) ==
  [at |-> at, outer |-> outer, any |-> any, all |-> all, attr |-> "end", operator |-> "end"]

Begun == Standing("term", <<>>, "fails", "holds")

Raised == Standing("raised", <<>>, "fails", "fails")

\* parse_term: a parenthesis and with it a new parse_or, or an attribute. Any other token
\* will do for one, AND and OR as well.
ReadTerm(s, token) ==
  CASE token = "(" -> Standing("term", Append(s.outer, [any |-> s.any, all |-> s.all]), "fails", "holds")
    [] token \in {")", "and", "or", "end"} -> Raised
    [] OTHER -> [s EXCEPT !.at = "operator", !.attr = LowerCase(token)]

Compared(s, outcome) == Standing("after", s.outer, s.any, Both(s.all, outcome))

\* Any token will do for an operator,
ReadOperator(s, token) ==
  CASE token = "end" -> Raised
    [] LowerCase(token) = "pr" -> Compared(s, Present(s.attr))
    [] OTHER -> [s EXCEPT !.at = "value", !.operator = LowerCase(token)]

\* and any for a value.
ReadValue(s, token) ==
  IF token = "end" THEN Raised ELSE Compared(s, Compare(s.attr, s.operator, LowerCase(token)))

\* The parenthesis is closed: its value is the term that the outer parse_and waits for.
Close(s) ==
  LET level == s.outer[Len(s.outer)]
  IN  Standing("after", SubSeq(s.outer, 1, Len(s.outer) - 1), level.any, Both(level.all, Either(s.any, s.all)))

\* Mutant: what stood before the last conjunction but one is forgotten.
ReadOrForgets(s) == Standing("term", s.outer, s.all, "holds")

\* The loop of parse_or
ReadOr(s) == Standing("term", s.outer, Either(s.any, s.all), "holds")

\* The loop of parse_and, then that of parse_or, then the end of parse_term
ReadOn(s, token) ==
  CASE LowerCase(token) = "and" -> Standing("term", s.outer, s.any, s.all)
    [] LowerCase(token) = "or" -> ReadOr(s)
    [] token = ")" /\ s.outer # <<>> -> Close(s)
    [] OTHER -> Raised

ParserTurn(s, token) ==
  CASE s.at = "term"     -> ReadTerm(s, token)
    [] s.at = "operator" -> ReadOperator(s, token)
    [] s.at = "value"    -> ReadValue(s, token)
    [] s.at = "after"    -> ReadOn(s, token)
    [] OTHER -> Raised

\* Reading(tokens)[n]: where the parser stands after n tokens
Reading(tokens) ==
  LET reading[n \in Nat] == IF n = 0 THEN Begun ELSE ParserTurn(reading[n - 1], Peek(tokens, n))
  IN  reading

\* What the predicate says of the user, or "refused" for a filter that the parser does
\* not take: a term is incomplete, a parenthesis is left open, or tokens are left over.
FilterResult(tokens) ==
  LET end == Reading(tokens)[Len(tokens)]
  IN  IF end.at = "after" /\ end.outer = <<>> THEN Either(end.any, end.all) ELSE "refused"

\* What follows the token at which the parser raises is not read.
FilterNext ==
  \E piece \in FilterPieces :
    /\ Reading(filter)[Len(filter)].at # "raised"
    /\ Len(filter) + Len(piece) <= MaxTokens
    /\ filter' = filter \o piece

FilterSpec == FilterInit /\ [][FilterNext]_filterVars

----------------------------------------------------------------------------
(* Properties                                                              *)

\* The tokens from one position to another are a filter ("or"), a conjunction ("and") or
\* a term, with an outcome for the user.
Phrase(kind, from, to, value) == [kind |-> kind, from |-> from, to |-> to, value |-> value]

\* A comparison: a word that is no parenthesis and not "and" or "or" in small letters, and
\* "pr"; or such a word and any other two, the first of which is not "pr".
EndOf(tokens, from) == IF LowerCase(Peek(tokens, from + 1)) = "pr" THEN from + 1 ELSE from + 2

IsComparison(tokens, from) ==
  tokens[from] \notin {"(", ")", "and", "or"} /\ EndOf(tokens, from) <= Len(tokens)

MeaningOf(tokens, from) ==
  IF EndOf(tokens, from) = from + 1 THEN Present(LowerCase(tokens[from]))
  ELSE Compare(LowerCase(tokens[from]), LowerCase(tokens[from + 1]), LowerCase(tokens[from + 2]))

\* What follows from phrases in one step: "or" joins conjunctions, "and" joins terms,
\* parentheses enclose a filter.
Follows(tokens, S) ==
  LET Kind(k) == {f \in S : f.kind = k}
      Before(k, word) == {f \in Kind(k) : LowerCase(Peek(tokens, f.to + 1)) = word}
      After(k, f) == {g \in Kind(k) : g.from = f.to + 2}
  IN  {Phrase("term", i, EndOf(tokens, i), MeaningOf(tokens, i)) :
         i \in {n \in DOMAIN tokens : IsComparison(tokens, n)}}
        \cup {Phrase("term", f.from - 1, f.to + 1, f.value) :
                f \in {g \in Before("or", ")") : g.from > 1 /\ tokens[g.from - 1] = "("}}
        \cup {Phrase("and", f.from, f.to, f.value) : f \in Kind("term")}
        \cup {Phrase("or", f.from, f.to, f.value) : f \in Kind("and")}
        \cup (UNION {{Phrase("and", f.from, g.to, Both(f.value, g.value)) : g \in After("term", f)} :
                      f \in Before("and", "and")})
        \cup (UNION {{Phrase("or", f.from, g.to, Either(f.value, g.value)) : g \in After("and", f)} :
                      f \in Before("or", "or")})

\* What has a derivation of at most n steps, one upon the other
Derived(tokens) ==
  LET derived[n \in Nat] == IF n = 0 THEN {} ELSE Follows(tokens, derived[n - 1])
  IN  derived

\* A term of n tokens takes 3n - 2 steps at most, a conjunction of n tokens one more,
\* a filter two more.
Meanings(tokens) ==
  {v \in Outcomes : Phrase("or", 1, Len(tokens), v) \in Derived(tokens)[3 * Len(tokens)]}

\* The recursive-descent parser takes the sequences of tokens that the rules above derive
\* and no others, and the predicate it returns has the one meaning they give it: "and"
\* before "or", parentheses closed, nothing left over, the right side of "or" and "and"
\* not asked once the left side has decided. The rules are laxer than RFC 7644: they let
\* any word be an operator or a value, "(" and "and" too, and an operator that is not
\* known raises, if at all, when the predicate is asked.
FilterMeansGrammar ==
  Meanings(filter) = IF FilterResult(filter) = "refused" THEN {} ELSE {FilterResult(filter)}
============================================================================
