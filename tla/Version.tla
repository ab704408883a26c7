------------------------------ MODULE Version -------------------------------
(***************************************************************************)
(* Nickvision::Update::Version (src/update/version.cpp). A text is its     *)
(* fields between dots, without blank ones; a field is its tokens between  *)
(* dashes. Of a token count the number that std::stoi reads at its front,  *)
(* if there is one, and its place in the order of texts, 0 the empty one.  *)
(***************************************************************************)
EXTENDS Integers, Sequences

CONSTANTS
    Numbers,      \* the numbers in versions
    Devs,         \* texts of development versions, by their order
    VersionTexts  \* texts to parse

NoDev == 0
NoNumber == -1

\* Blank tokens are left out. A field without a dash is one token, and one with
\* a dash no other text than any of its tokens.
Tokens == [number : Nat \cup {NoNumber}, dev : Nat \ {NoDev}]
Fields == {f \in [dash : BOOLEAN, dev : Nat \ {NoDev}, tokens : Seq(Tokens)] :
              IF f.dash THEN \A i \in DOMAIN f.tokens : f.tokens[i].dev # f.dev
              ELSE Len(f.tokens) = 1 /\ f.dev = f.tokens[1].dev}

ASSUME VersionAssumption ==
    /\ Numbers \subseteq Nat /\ Devs \subseteq Nat \ {NoDev}
    /\ VersionTexts \subseteq Seq(Fields)

Thrown == [thrown |-> "invalid_argument"]

Versions == [major : Numbers, minor : Numbers, build : Numbers, dev : Devs \cup {NoDev}]

Zero == [major |-> 0, minor |-> 0, build |-> 0, dev |-> NoDev]
Empty(v) == v = Zero

-----------------------------------------------------------------------------
\* What the text of a number is made of.
Digits(n) == [dash |-> FALSE, dev |-> NoDev, tokens |-> <<[number |-> n, dev |-> NoDev]>>]

StoI(tokens) == IF tokens = <<>> THEN NoNumber ELSE tokens[1].number

\* Fields do not begin with a dash: std::stoi would take it for a sign.
Parse(fields) ==
    LET n     == Len(fields)
        last  == fields[n]
        dash  == n = 3 /\ last.dash
        v     == [major |-> StoI(fields[1].tokens), minor |-> StoI(fields[2].tokens),
                  build |-> StoI(fields[3].tokens),
                  dev   |-> CASE n = 4 -> last.dev
                              [] dash  -> last.tokens[2].dev
                              [] OTHER -> NoDev]
    IN  IF \/ n \notin {3, 4}
           \/ dash /\ Len(last.tokens) # 2
           \/ NoNumber \in {v.major, v.minor, v.build}
        THEN Thrown ELSE v

DevTokens(fields) ==
    LET last == fields[Len(fields)] IN
    CASE Len(fields) = 4 -> last.tokens
      [] Len(fields) = 3 /\ last.dash -> <<last.tokens[2]>>
      [] OTHER -> <<>>

\* m_str of what was parsed.
Str(v, fields) ==
    <<Digits(v.major), Digits(v.minor),
      IF v.dev = NoDev THEN Digits(v.build)
      ELSE [dash |-> TRUE, dev |-> NoDev,
            tokens |-> Digits(v.build).tokens \o DevTokens(fields)]>>

\* Mutant: a development version is not less than its release.
DevLessPlain(d, e) == d < e

DevLess(d, e) ==
    \/ d # NoDev /\ e = NoDev
    \/ (d = NoDev <=> e = NoDev) /\ d < e

\* operator<
Less(v, w) ==
    \/ v.major < w.major
    \/ /\ v.major = w.major
       /\ \/ v.minor < w.minor
          \/ /\ v.minor = w.minor
             /\ \/ v.build < w.build
                \/ v.build = w.build /\ DevLess(v.dev, w.dev)

\* operator>
DevGreater(d, e) ==
    \/ d = NoDev /\ e # NoDev
    \/ (d = NoDev <=> e = NoDev) /\ d > e

Greater(v, w) ==
    \/ v.major > w.major
    \/ /\ v.major = w.major
       /\ \/ v.minor > w.minor
          \/ /\ v.minor = w.minor
             /\ \/ v.build > w.build
                \/ v.build = w.build /\ DevGreater(v.dev, w.dev)

Equal(v, w) ==
    v.major = w.major /\ v.minor = w.minor /\ v.build = w.build /\ v.dev = w.dev

LessOrEqual(v, w) == Less(v, w) \/ Equal(v, w)
GreaterOrEqual(v, w) == Greater(v, w) \/ Equal(v, w)

-----------------------------------------------------------------------------
\* The operators, each coded on its own, describe one total order: exactly one
\* of <, == and > holds, > is the converse of <, < is transitive; and a
\* development version precedes its release.
VersionsAreOrdered ==
    /\ \A v, w \in Versions :
          /\ Less(v, w) <=> ~GreaterOrEqual(v, w)
          /\ Greater(v, w) <=> ~LessOrEqual(v, w)
          /\ Greater(v, w) <=> Less(w, v)
          /\ Equal(v, w) <=> v = w
    /\ \A u, v, w \in Versions : Less(u, v) /\ Less(v, w) => Less(u, w)
    /\ \A v \in Versions : v.dev # NoDev => Less(v, [v EXCEPT !.dev = NoDev])

\* str() gives the version back, whichever of the two forms it was written in,
\* exactly if its development part has no dash.
VersionsRoundTrip ==
    \A fields \in VersionTexts :
        LET v == Parse(fields) IN
        v # Thrown => (Parse(Str(v, fields)) = v <=> ~(Len(fields) = 4 /\ fields[4].dash))

=============================================================================
