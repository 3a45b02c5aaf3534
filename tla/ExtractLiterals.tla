--------------------------- MODULE ExtractLiterals --------------------------
(***************************************************************************)
(* extract_literals (filter/index.rs): the literals a rule's regex is      *)
(* indexed under.  The rule is not even tried on a record whose value is   *)
(* none of them, so none may be missing.                                   *)
(*                                                                         *)
(* A pattern is given by its syntax: alternatives, each a sequence of      *)
(* atoms, each of them two characters at most.  The function reads the     *)
(* pattern's text; what the pattern matches is the regex crate's (1.13)    *)
(* business, modelled here as the external definition Ends.                *)
(***************************************************************************)
EXTENDS Naturals, Sequences, FiniteSets, SequencesExt

CONSTANTS Patterns,  \* the patterns considered
          Values     \* the field values considered: sequences of characters

None == [ok |-> FALSE, set |-> {}]
Some(set) == [ok |-> TRUE, set |-> set]

VARIABLES pattern, literals, pc
vars == <<pattern, literals, pc>>

-----------------------------------------------------------------------------
(***************************************************************************)
(* Syntax.  Atoms: lit (itself), esc (a backslash and it), any `.`, begin  *)
(* `^`, end `$`, digit `\d`, wordStart `\<`, star (of a literal), flag     *)
(* `(?i)`, group (of alternatives).                                        *)
(***************************************************************************)
RECURSIVE TextOfAtom(_)
RECURSIVE TextOf(_)
TextOfAtom(atom) ==
    CASE atom.a = "lit" -> <<atom.c>>
      [] atom.a = "esc" -> <<"\\", atom.c>>
      [] atom.a = "any" -> <<".">>
      [] atom.a = "begin" -> <<"^">>
      [] atom.a = "end" -> <<"$">>
      [] atom.a = "digit" -> <<"\\", "d">>
      [] atom.a = "wordStart" -> <<"\\", "<">>
      [] atom.a = "star" -> <<atom.c, "*">>
      [] atom.a = "flag" -> <<"(", "?", "i", ")">>
      [] atom.a = "group" -> <<"(">> \o TextOf(atom.alts) \o <<")">>

TextOf(alts) ==
    LET texts == [i \in DOMAIN alts |->
                    FlattenSeq([j \in DOMAIN alts[i] |-> TextOfAtom(alts[i][j])])] IN
    FlattenSeq([i \in DOMAIN texts |->
                  IF i = 1 THEN texts[i] ELSE <<"|">> \o texts[i]])

-----------------------------------------------------------------------------
(***************************************************************************)
(* Regex::is_match.  Ends: where a match that starts at i may end.         *)
(***************************************************************************)
IsWord(c) == c \in {"a", "b", "A", "0"}
Fold(c) == IF c = "A" THEN "a" ELSE c

RECURSIVE Ends(_, _, _)
RECURSIVE EndsOfAll(_, _, _, _)
Ends(atom, v, i) ==
    LET same(c) == i <= Len(v) /\ v[i] = c IN
    CASE atom.a \in {"lit", "esc"} -> IF same(atom.c) THEN {i + 1} ELSE {}
      [] atom.a = "any" -> IF i <= Len(v) THEN {i + 1} ELSE {}
      [] atom.a = "begin" -> IF i = 1 THEN {i} ELSE {}
      [] atom.a = "end" -> IF i = Len(v) + 1 THEN {i} ELSE {}
      [] atom.a = "digit" -> IF same("0") THEN {i + 1} ELSE {}
      [] atom.a = "wordStart" ->
           IF /\ i <= Len(v) /\ IsWord(v[i])
              /\ i = 1 \/ ~ IsWord(v[i - 1]) THEN {i} ELSE {}
      [] atom.a = "star" -> {j \in i..(Len(v) + 1) : \A k \in i..(j - 1) : v[k] = atom.c}
      [] atom.a = "flag" -> {i}
      [] atom.a = "group" -> UNION {EndsOfAll(atom.alts[n], 1, v, i) :
                                       n \in DOMAIN atom.alts}

EndsOfAll(atoms, n, v, i) ==
    IF n > Len(atoms) THEN {i}
    ELSE UNION {EndsOfAll(atoms, n + 1, v, j) : j \in Ends(atoms[n], v, i)}

(* The flag makes the whole pattern blind to case.                         *)
IsMatch(alts, v) ==
    LET flagged == \E n \in DOMAIN alts : Contains(alts[n], [a |-> "flag"])
        seen == IF flagged THEN [i \in DOMAIN v |-> Fold(v[i])] ELSE v IN
    \E n \in DOMAIN alts : \E i \in 1..(Len(v) + 1) : EndsOfAll(alts[n], 1, seen, i) # {}

-----------------------------------------------------------------------------
(***************************************************************************)
(* The extraction, on the text.                                            *)
(***************************************************************************)
Alphanumeric == {"a", "b", "d", "i", "A"}

Metachars == {".", "*", "+", "?", "{", "}", "^", "$", "(", ")", "[", "]", "|"}

(* unescape_literal: the text, its backslashes removed; None on an         *)
(* unescaped metacharacter and on the escape of an alphanumeric.           *)
(* Mutant: any escape stands for the character escaped.                    *)
RECURSIVE UnescapeAny(_)
UnescapeAny(s) ==
    IF s = <<>> THEN Some({<<>>})
    ELSE IF Head(s) = "\\"
         THEN IF Len(s) = 1 THEN None
              ELSE LET rest == UnescapeAny(SubSeq(s, 3, Len(s))) IN
                   IF rest.ok THEN Some({<<s[2]>> \o r : r \in rest.set}) ELSE None
    ELSE IF Head(s) \in Metachars THEN None
    ELSE LET rest == UnescapeAny(Tail(s)) IN
         IF rest.ok THEN Some({<<Head(s)>> \o r : r \in rest.set}) ELSE None

RECURSIVE UnescapeLiteral(_)
UnescapeLiteral(s) ==
    IF s = <<>> THEN Some({<<>>})
    ELSE IF Head(s) = "\\"
         THEN IF Len(s) = 1 \/ s[2] \in Alphanumeric THEN None
              ELSE LET rest == UnescapeLiteral(SubSeq(s, 3, Len(s))) IN
                   IF rest.ok THEN Some({<<s[2]>> \o r : r \in rest.set}) ELSE None
    ELSE IF Head(s) \in Metachars THEN None
    ELSE LET rest == UnescapeLiteral(Tail(s)) IN
         IF rest.ok THEN Some({<<Head(s)>> \o r : r \in rest.set}) ELSE None

(* find_unescaped_parens.                                                  *)
RECURSIVE Escaped(_, _)
Escaped(s, i) == i > 1 /\ s[i - 1] = "\\" /\ ~ Escaped(s, i - 1)

FindUnescapedParens(s) ==
    SetToSortSeq({i \in DOMAIN s : s[i] \in {"(", ")"} /\ ~ Escaped(s, i)}, <)

(* str::split on every bar, escaped or not.                                *)
RECURSIVE SplitBars(_)
SplitBars(s) ==
    LET bar == SelectInSeq(s, LAMBDA c : c = "|") IN
    IF bar = 0 THEN {s}
    ELSE {SubSeq(s, 1, bar - 1)} \cup SplitBars(SubSeq(s, bar + 1, Len(s)))

HasPair(s, c, d) == \E i \in 1..(Len(s) - 1) : s[i] = c /\ s[i + 1] = d

(* An escaped bar in a group makes the extraction give up.                 *)
HasEscapedBar(body) == HasPair(body, "\\", "|")

OneGroup(inner, open, close) ==
    LET prefix == UnescapeLiteral(SubSeq(inner, 1, open - 1))
        body == SubSeq(inner, open + 1, close - 1)
        suffix == UnescapeLiteral(SubSeq(inner, close + 1, Len(inner)))
        alts == {UnescapeLiteral(alt) : alt \in SplitBars(body)} IN
    IF ~ prefix.ok \/ ~ suffix.ok \/ HasEscapedBar(body) \/ None \in alts THEN None
    ELSE Some({p \o a \o s : p \in prefix.set, a \in UNION {x.set : x \in alts},
                             s \in suffix.set})

ExtractLiterals(text) ==
    LET inner == SubSeq(text, 2, Len(text) - 1)
        parens == FindUnescapedParens(inner) IN
    IF \/ HasPair(text, "(", "?")
       \/ Len(text) < 2 \/ Head(text) # "^" \/ Last(text) # "$" THEN None
    ELSE IF parens = <<>> THEN UnescapeLiteral(inner)
    ELSE IF Len(parens) # 2 \/ inner[parens[1]] # "(" \/ inner[parens[2]] # ")" THEN None
    ELSE OneGroup(inner, parens[1], parens[2])

-----------------------------------------------------------------------------
Init == pattern \in Patterns /\ literals = None /\ pc = "pattern"

(* Once for each match of a rule, in Engine::new.                          *)
Extract == /\ pc = "pattern"
           /\ pc' = "indexed"
           /\ literals' = ExtractLiterals(TextOf(pattern))
           /\ UNCHANGED pattern

Next == Extract

Spec == Init /\ [][Next]_vars

-----------------------------------------------------------------------------
(* Extraction is conservative: a pattern that is reduced to literals       *)
(* matches no value besides them, so indexing the rule under them never    *)
(* keeps it from a record it would drop.                                   *)
NoLiteralMissing ==
    literals.ok => \A v \in Values : IsMatch(pattern, v) => v \in literals.set

(* The two shapes that production rules have are reduced: an anchored      *)
(* escaped literal, and one with one flat group of such.                   *)
Plain(atoms) == \A i \in DOMAIN atoms : /\ atoms[i].a \in {"lit", "esc"}
                                        /\ atoms[i].c # "|"

ShapesReduced ==
    /\ pc = "indexed"
    /\ Len(pattern) = 1 /\ Len(pattern[1]) >= 2
    /\ Head(pattern[1]) = [a |-> "begin"] /\ Last(pattern[1]) = [a |-> "end"]
    =>
    LET body == SubSeq(pattern[1], 2, Len(pattern[1]) - 1)
        groups == {i \in DOMAIN body : body[i].a = "group"}
        IsPlain(i) == IF i \in groups
                      THEN \A n \in DOMAIN body[i].alts : Plain(body[i].alts[n])
                      ELSE Plain(<<body[i]>>) IN
    Cardinality(groups) <= 1 /\ (\A i \in DOMAIN body : IsPlain(i)) => literals.ok
=============================================================================
