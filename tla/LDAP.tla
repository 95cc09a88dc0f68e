-------------------------------- MODULE LDAP --------------------------------
(***************************************************************************)
(* authlab/directory/ldap.py : distinguished names, search filters and     *)
(* their escaping, and search-then-bind authentication.                    *)
(*                                                                         *)
(* Whether a name stays a name is decided character by character, so text  *)
(* is a sequence of characters here; an attribute name such as uid is one  *)
(* of them, and "tab" is any white space but the space, which strip()      *)
(* takes off and no escaping knows. Passwords are compared, PasswordHasher *)
(* being a module of its own.                                              *)
(***************************************************************************)
EXTENDS Naturals, Sequences, FiniteSets
LOCAL INSTANCE SequencesExt

CONSTANTS
  Char,           \* the characters that names are made of
  MaxText,        \* bound on the length of a name
  DirectoryNames, \* uid values of entries, and user names tried
  Secret,         \* passwords; "" is the empty one
  MaxAdded        \* bound on the number of entries

VARIABLES
  entries_of,     \* LDAP.entries : DN as a text -> [uid (its values), password], with the
                  \*   name and the unit that it was added for (history)
  text            \* a name that is put into filters and DNs

ldapVars == <<entries_of>>
textVars == <<text>>

LdapInit == entries_of = <<>>
TextInit == text = <<>>

At(t, p, c) == p \in DOMAIN t /\ t[p] = c

\* The first position of c from p on, 0 if there is none
Find(t, c, p) ==
  LET Found == {i \in p..Len(t) : t[i] = c}
  IN  IF Found = {} THEN 0 ELSE CHOOSE i \in Found : \A j \in Found : i <= j

----------------------------------------------------------------------------
(* Escaping                                                                *)

\* Character codes, two hexadecimal digits each
Code == [c \in {"\\", "*", "(", ")", " ", "tab", "#", ",", "=", "a"} |->
           CASE c = "\\" -> <<"5", "c">> [] c = "*" -> <<"2", "a">>
             [] c = "("  -> <<"2", "8">> [] c = ")" -> <<"2", "9">>
             [] c = " "  -> <<"2", "0">> [] c = "tab" -> <<"0", "9">>
             [] c = "#"  -> <<"2", "3">> [] c = "," -> <<"2", "c">>
             [] c = "="  -> <<"3", "d">> [] c = "a" -> <<"6", "1">>]

\* _FILTER_ESCAPE
Special == {"\\", "*", "(", ")"}

\* Mutant: the asterisk is not escaped.
escape_filter_bar_asterisk(value) ==
  FlattenSeq([i \in DOMAIN value |->
    IF value[i] \in Special \ {"*"} THEN <<"\\">> \o Code[value[i]] ELSE <<value[i]>>])

escape_filter(value) ==
  FlattenSeq([i \in DOMAIN value |->
    IF value[i] \in Special THEN <<"\\">> \o Code[value[i]] ELSE <<value[i]>>])

WhiteSpace == {" ", "tab"}

\* str.strip()
Strip(t) ==
  LET kept == {i \in DOMAIN t : t[i] \notin WhiteSpace}
  IN  IF kept = {} THEN <<>> ELSE SubSeq(t, Min(kept), Max(kept))

HexDigit == {"0", "1", "2", "3", "4", "5", "6", "7", "8", "9", "a", "b", "c", "d", "e", "f"}

\* chr(int(digits, 16)): int() allows for blanks and for a single digit, and raises a
\* ValueError for anything else.
Chr(digits) ==
  LET number == Strip(digits)
      code   == IF Len(number) = 1 THEN <<"0">> \o number ELSE number
  IN  CASE \E i \in DOMAIN number : number[i] \notin HexDigit -> "ValueError"
        [] number = <<>> -> "ValueError"
        [] \E c \in DOMAIN Code : Code[c] = code -> CHOOSE c \in DOMAIN Code : Code[c] = code
        [] OTHER -> "another"

\* _unescape_filter_value: a backslash takes the next two characters, or the last one.
RECURSIVE unescape_filter_value(_)
unescape_filter_value(value) ==
  IF value = <<>> THEN <<>>
  ELSE IF value[1] = "\\" /\ Len(value) >= 2
  THEN LET taken == IF Len(value) = 2 THEN 2 ELSE 3
       IN  <<Chr(SubSeq(value, 2, taken))>> \o unescape_filter_value(SubSeq(value, taken + 1, Len(value)))
  ELSE <<value[1]>> \o unescape_filter_value(Tail(value))

\* Mutant: the comma is not special.
escape_dn_bar_comma(value) ==
  FlattenSeq([i \in DOMAIN value |->
    IF \/ value[i] \in {"=", "\\"}
       \/ value[i] = " " /\ i \in {1, Len(value)}
       \/ value[i] = "#" /\ i = 1
    THEN <<"\\", value[i]>> ELSE <<value[i]>>])

escape_dn(value) ==
  FlattenSeq([i \in DOMAIN value |->
    IF \/ value[i] \in {",", "+", "\"", "\\", "<", ">", ";", "="}
       \/ value[i] = " " /\ i \in {1, Len(value)}
       \/ value[i] = "#" /\ i = 1
    THEN <<"\\", value[i]>> ELSE <<value[i]>>])

----------------------------------------------------------------------------
(* Distinguished names                                                     *)

\* _split_dn: the loop of the code, after n characters; an escaped one is taken along
\* with its backslash.
SplitDN(t) ==
  LET after[n \in 0..Len(t)] ==
        IF n = 0 THEN [parts |-> <<>>, current |-> <<>>, escaped |-> FALSE]
        ELSE LET s == after[n - 1]
             IN  IF t[n] = "," /\ ~s.escaped
                 THEN [parts |-> Append(s.parts, s.current), current |-> <<>>, escaped |-> FALSE]
                 ELSE [s EXCEPT !.current = Append(@, t[n]), !.escaped = t[n] = "\\" /\ ~@]
      end == after[Len(t)]
  IN  Append(end.parts, end.current)

\* DN.parse: the RDNs, or <<>> where it raises
DN(t) ==
  LET parts == SplitDN(t)
  IN  IF \E i \in DOMAIN parts : Find(parts[i], "=", 1) = 0 THEN <<>>
      ELSE [i \in DOMAIN parts |->
              LET eq == Find(parts[i], "=", 1)
              IN  <<Strip(SubSeq(parts[i], 1, eq - 1)),
                    Strip(SubSeq(parts[i], eq + 1, Len(parts[i])))>>]

\* str(DN)
PrintedDN(dn) ==
  FlattenSeq([i \in DOMAIN dn |->
    (IF i = 1 THEN <<>> ELSE <<",">>) \o dn[i][1] \o <<"=">> \o dn[i][2]])

is_child_of(dn, base) ==
  /\ Len(base) <= Len(dn)
  /\ SubSeq(dn, Len(dn) - Len(base) + 1, Len(dn)) = base

----------------------------------------------------------------------------
(* Search filters                                                          *)

Bad == [ok |-> FALSE, pos |-> 0, filter |-> <<>>]

\* value.split("*")
RECURSIVE SplitAsterisk(_)
SplitAsterisk(value) ==
  LET p == Find(value, "*", 1)
  IN  IF p = 0 THEN <<value>>
      ELSE <<SubSeq(value, 1, p - 1)>> \o SplitAsterisk(SubSeq(value, p + 1, Len(value)))

\* _assertion
Assertion(t, pos) ==
  LET eq    == Find(t, "=", 1)
      attr  == Strip(SubSeq(t, 1, eq - 1))
      value == SubSeq(t, eq + 1, Len(t))
      plain == unescape_filter_value(value)
  IN  CASE eq = 0 -> Bad
        [] eq # 0 /\ value = <<"*">> ->
             [ok |-> TRUE, pos |-> pos, filter |-> [kind |-> "present", attr |-> attr]]
        [] eq # 0 /\ value # <<"*">> /\ Find(value, "*", 1) # 0 ->
             [ok |-> TRUE, pos |-> pos,
              filter |-> [kind |-> "substring", attr |-> attr, parts |-> SplitAsterisk(value)]]
        [] eq # 0 /\ Find(value, "*", 1) = 0 /\ Find(plain, "ValueError", 1) # 0 -> Bad
        [] OTHER ->
             [ok |-> TRUE, pos |-> pos, filter |-> [kind |-> "equals", attr |-> attr, value |-> plain]]

RECURSIVE ParseFilter(_, _)

RECURSIVE ParseChildren(_, _, _)
ParseChildren(t, pos, children) ==
  IF ~At(t, pos, "(") THEN [ok |-> TRUE, pos |-> pos, list |-> children]
  ELSE LET child == ParseFilter(t, pos)
       IN  IF child.ok THEN ParseChildren(t, child.pos, Append(children, child.filter))
           ELSE [ok |-> FALSE, pos |-> pos, list |-> children]

\* _FilterParser.parse
ParseFilter(t, pos) ==
  IF ~At(t, pos, "(") \/ pos = Len(t) THEN Bad
  ELSE IF t[pos + 1] \in {"&", "|"}
  THEN LET found == ParseChildren(t, pos + 2, <<>>)
       IN  IF found.ok /\ found.list # <<>> /\ At(t, found.pos, ")")
           THEN [ok |-> TRUE, pos |-> found.pos + 1,
                 filter |-> [kind |-> t[pos + 1], of |-> found.list]]
           ELSE Bad
  ELSE IF t[pos + 1] = "!"
  THEN LET child == ParseFilter(t, pos + 2)
       IN  IF child.ok /\ At(t, child.pos, ")")
           THEN [ok |-> TRUE, pos |-> child.pos + 1, filter |-> [kind |-> "!", of |-> <<child.filter>>]]
           ELSE Bad
  ELSE LET close == Find(t, ")", pos + 1)
       IN  IF close = 0 THEN Bad ELSE Assertion(SubSeq(t, pos + 1, close - 1), close + 1)

\* _parse_filter: nothing may follow
Parsed(t) ==
  LET result == ParseFilter(t, 1)
  IN  IF result.ok /\ result.pos = Len(t) + 1 THEN result ELSE Bad

\* candidate.find(middle, position), positions counted from 0; -1 if it is not there
FindPart(candidate, part, position) ==
  LET Found == {i \in position..(Len(candidate) - Len(part)) :
                  SubSeq(candidate, i + 1, i + Len(part)) = part}
  IN  IF Found = {} THEN 0 - 1 ELSE CHOOSE i \in Found : \A j \in Found : i <= j

RECURSIVE MiddlesFound(_, _, _)
MiddlesFound(candidate, middles, position) ==
  \/ middles = <<>>
  \/ LET found == FindPart(candidate, Head(middles), position)
     IN  found >= 0 /\ MiddlesFound(candidate, Tail(middles), found + Len(Head(middles)))

\* _substring_match
SubstringMatch(candidate, parts) ==
  LET first == Head(parts)
      last  == parts[Len(parts)]
  IN  /\ IsPrefix(first, candidate) /\ IsSuffix(last, candidate)
      /\ MiddlesFound(candidate, SubSeq(parts, 2, Len(parts) - 1), Len(first))
      /\ Len(first) + Len(last) <= Len(candidate)

\* The predicate that a filter becomes; an entry has one attribute, uid.
RECURSIVE Satisfies(_, _)
Satisfies(entry, f) ==
  LET values(attr) == IF attr = <<"uid">> THEN entry.uid ELSE {}
  IN  CASE f.kind = "&" -> \A i \in DOMAIN f.of : Satisfies(entry, f.of[i])
        [] f.kind = "|" -> \E i \in DOMAIN f.of : Satisfies(entry, f.of[i])
        [] f.kind = "!" -> ~Satisfies(entry, f.of[1])
        [] f.kind = "present" -> values(f.attr) # {}
        [] f.kind = "substring" -> \E v \in values(f.attr) : SubstringMatch(v, f.parts)
        [] f.kind = "equals" -> f.value \in values(f.attr)

\* LDAP.search, the DNs found: they are parsed once more.
search(base, filter) ==
  {dn \in DOMAIN entries_of : is_child_of(DN(dn), DN(base)) /\ Satisfies(entries_of[dn], filter)}

----------------------------------------------------------------------------
(* The directory                                                           *)

People == <<"ou", "=", "people">>

\* The DN made for a name
EntryDN(name, unit) == <<"uid", "=">> \o escape_dn(name) \o <<",", "ou", "=", unit>>

\* LDAP.add, of one of these entries: the DN is stored as it prints; an entry of the same
\* DN is replaced.
add(dn, OneOf) ==
  LET parsed     == DN(dn)
      normalized == PrintedDN(parsed)
  IN  /\ parsed # <<>>
      /\ normalized \notin DOMAIN entries_of => Cardinality(DOMAIN entries_of) < MaxAdded
      /\ \E entry \in OneOf :
           entries_of' = [d \in DOMAIN entries_of \cup {normalized} |->
                            IF d = normalized THEN entry ELSE entries_of[d]]

LdapNext ==
  \E name \in DirectoryNames, unit \in {"people", "machines"} :
    add(EntryDN(name, unit),
        {[uid |-> {name, alias}, password |-> password, name |-> name, unit |-> unit] :
           alias \in DirectoryNames, password \in Secret \ {""}})

\* simple_bind
simple_bind(dn, password) ==
  LET normalized == PrintedDN(DN(dn))
  IN  /\ password # "" /\ DN(dn) # <<>>
      /\ normalized \in DOMAIN entries_of /\ entries_of[normalized].password = password

\* Mutant: the first of several matches is taken.
authenticate_first(username, password) ==
  LET found == search(People, Parsed(<<"(", "uid", "=">> \o escape_filter(username) \o <<")">>).filter)
  IN  {dn \in found : password # "" /\ simple_bind(dn, password)}

\* authenticate: the entry, or none
authenticate(username, password) ==
  LET found == search(People, Parsed(<<"(", "uid", "=">> \o escape_filter(username) \o <<")">>).filter)
  IN  {dn \in found : password # "" /\ Cardinality(found) = 1 /\ simple_bind(dn, password)}

TypeChar(c) == Len(text) < MaxText /\ text' = Append(text, c)

TextNext == \E c \in Char : TypeChar(c)

----------------------------------------------------------------------------
(* Properties                                                              *)

\* The space at the end of a name is escaped, and then stripped off its backslash, which
\* escapes the comma instead; so is the one at the start if nothing but blanks follows.
LosesItsSpace(name) ==
  /\ name # <<>>
  /\ name[Len(name)] = " " \/ (name[1] = " " /\ Strip(name) = <<>>)

\* A login succeeds exactly for the one entry below the base whose uid is the name
\* that was typed, with that entry's own password: no name selects another entry,
\* several entries or all of them, an ambiguous name fails closed, and a blank password
\* is never an anonymous bind. The entries whose names end in a space are the exception:
\* their DNs lose the base when they are parsed once more, and nobody logs in to them.
LdapLoginExact ==
  \A username \in DirectoryNames, password \in Secret :
    LET Named == {dn \in DOMAIN entries_of :
                    /\ entries_of[dn].unit = "people" /\ username \in entries_of[dn].uid
                    /\ ~LosesItsSpace(entries_of[dn].name)}
    IN  authenticate(username, password) =
          IF Cardinality(Named) = 1 /\ password # ""
          THEN {dn \in Named : entries_of[dn].password = password} ELSE {}

RECURSIVE Render(_)
Render(f) ==
  CASE f.kind = "equals" -> <<"(", "uid", "=">> \o escape_filter(f.value) \o <<")">>
    [] f.kind = "present" -> <<"(", "uid", "=", "*", ")">>
    [] OTHER -> <<"(", f.kind>> \o FlattenSeq([i \in DOMAIN f.of |-> Render(f.of[i])]) \o <<")">>

\* Text that fits a pattern, split anywhere
RECURSIVE Fits(_, _)
Fits(candidate, parts) ==
  /\ IsPrefix(Head(parts), candidate)
  /\ LET rest == SubSeq(candidate, Len(Head(parts)) + 1, Len(candidate))
     IN  IF Len(parts) = 1 THEN rest = <<>>
         ELSE \E n \in 0..Len(rest) : Fits(SubSeq(rest, n + 1, Len(rest)), Tail(parts))

\* The DN under which an entry of a name is kept
Stored(name) == PrintedDN(DN(EntryDN(name, "people")))

StoredNames == [name \in DirectoryNames |-> Stored(name)]

\* "An injected )( is a syntax error here, not a new clause": whatever characters a
\* name consists of, a filter built around its escaped form parses back to that filter,
\* alone and below &, | and !; a DN built around it, stored and parsed again, has two RDNs,
\* a uid and the base, unless the name loses its space: then it has one, and is below no
\* base. Different names make different DNs; only names that differ in blanks at their
\* ends, one of them not a space, may come to the same. A name with asterisks, used as a
\* pattern, misses no text that fits it.
NamesStayLiteral ==
  LET equals  == [kind |-> "equals", attr |-> <<"uid">>, value |-> text]
      present == [kind |-> "present", attr |-> <<"uid">>]
      parts   == SplitAsterisk(text)
      stored  == Stored(text)
      Trimmed(name) == name # <<>> /\ "tab" \in {name[1], name[Len(name)]}
  IN  /\ \A f \in {equals,
                   [kind |-> "&", of |-> <<equals, present>>],
                   [kind |-> "|", of |-> <<[kind |-> "!", of |-> <<equals>>], equals>>]} :
           Parsed(Render(f)).filter = f
      /\ LET dn == DN(stored)
         IN  /\ dn # <<>> /\ dn[1][1] = <<"uid">> /\ Len(dn) = IF LosesItsSpace(text) THEN 1 ELSE 2
             /\ Len(dn) = 2 => dn[2] = <<<<"ou">>, <<"people">>>>
      /\ \A name \in DirectoryNames :
           /\ StoredNames[name] = stored => Strip(name) = Strip(text)
           /\ StoredNames[name] = stored /\ ~Trimmed(text) => name = text
           /\ Len(parts) > 1 /\ Fits(name, parts) => SubstringMatch(name, parts)

\* A typed name means itself, in a login and in every filter and DN made of it.
NamesMeanThemselves == LdapLoginExact /\ NamesStayLiteral
============================================================================
