--------------------------- MODULE StringHelpers ---------------------------
(***************************************************************************)
(* Nickvision::Helpers::StringHelpers (src/helpers/stringhelpers.cpp and   *)
(* include/helpers/stringhelpers.h), on texts that are sequences of        *)
(* characters. The characters that matter have names.                      *)
(***************************************************************************)
EXTENDS Integers, SequencesExt

CONSTANTS
    Characters,  \* of the texts
    MaxText,     \* bound on their length
    Words        \* texts to quote, join and split again

ASSUME StringAssumption ==
    /\ MaxText \in Nat
    /\ \A w \in Words : w \in Seq(ToSet(w))

Space == " "
DoubleQuote == "dq"
SingleQuote == "sq"
Quotes == {DoubleQuote, SingleQuote}

Texts == UNION {[1..n -> Characters] : n \in 0..MaxText}

\* The least index from which the text holds the other, or 0 (std::string::npos).
Find(s, t, from) ==
    LET found == {i \in from..Len(s) - Len(t) + 1 : SubSeq(s, i, i + Len(t) - 1) = t}
    IN  IF found = {} THEN 0 ELSE CHOOSE i \in found : \A j \in found : i <= j

\* What is not trimmed, from the first to the last.
Trim(s, delimiter) ==
    LET kept == {i \in DOMAIN s : s[i] # delimiter} IN
    IF kept = {} THEN <<>>
    ELSE SubSeq(s, CHOOSE i \in kept : \A j \in kept : i <= j,
                   CHOOSE i \in kept : \A j \in kept : i >= j)

IsBlank(s) == Trim(s, Space) = <<>>

\* split(): the tokens found so far, and where the next one begins. Every round
\* moves on when the delimiter is not empty.
SplitRound(s, delimiter, before) ==
    LET next == Find(s, delimiter, before.last) IN
    IF next = 0 THEN before
    ELSE [tokens |-> Append(before.tokens, SubSeq(s, before.last, next - 1)),
          last   |-> next + Len(delimiter)]

SplitLoop(s, delimiter) ==
    LET loop[n \in Nat] == IF n = 0 THEN [tokens |-> <<>>, last |-> 1]
                           ELSE SplitRound(s, delimiter, loop[n - 1])
    IN  loop

Split(s, delimiter, includeEmpty) ==
    LET end    == SplitLoop(s, delimiter)[Len(s) + 1]
        splits == Append(end.tokens, SubSeq(s, end.last, Len(s)))
    IN  IF includeEmpty THEN splits ELSE SelectSeq(splits, LAMBDA token : ~IsBlank(token))

Join(values, separator, separateLast) ==
    FlattenSeq([i \in DOMAIN values |->
        IF i # Len(values) \/ separateLast THEN values[i] \o separator ELSE values[i]])

\* replace(): the text so far, and where it goes on to look.
ReplaceRound(toReplace, replace, before) ==
    LET i == Find(before.text, toReplace, before.pos) IN
    IF i = 0 THEN before
    ELSE [text |-> SubSeq(before.text, 1, i - 1) \o replace
                   \o SubSeq(before.text, i + Len(toReplace), Len(before.text)),
          pos  |-> i + Len(replace)]

ReplaceLoop(s, toReplace, replace) ==
    LET loop[n \in Nat] == IF n = 0 THEN [text |-> s, pos |-> 1]
                           ELSE ReplaceRound(toReplace, replace, loop[n - 1])
    IN  loop

Replace(s, toReplace, replace) ==
    IF s = <<>> \/ toReplace = <<>> THEN s
    ELSE ReplaceLoop(s, toReplace, replace)[Len(s) + 1].text

-----------------------------------------------------------------------------
(* Arguments of a command. *)

IsQuotedBy(s, q) == s # <<>> /\ s[1] = q /\ s[Len(s)] = q

Quote(s) ==
    IF \E q \in Quotes : IsQuotedBy(s, q) THEN s
    ELSE IF DoubleQuote \in ToSet(s) THEN <<SingleQuote>> \o s \o <<SingleQuote>>
    ELSE <<DoubleQuote>> \o s \o <<DoubleQuote>>

\* Where the alternative of the regular expression that matches at i ends, or 0.
PartEnd(s, i) ==
    IF i > Len(s) \/ s[i] = Space THEN 0
    ELSE IF s[i] \in Quotes THEN Find(s, <<s[i]>>, i + 1) ELSE i

\* Where a match goes on: one alternative follows another.
MatchRound(s, i) == IF PartEnd(s, i) = 0 THEN i ELSE PartEnd(s, i) + 1

MatchLoop(s, first) ==
    LET loop[n \in Nat] == IF n = 0 THEN first ELSE MatchRound(s, loop[n - 1]) IN loop

MatchEnd(s, first) == MatchLoop(s, first)[Len(s)] - 1

Unquoted(s) == IF \E q \in Quotes : IsQuotedBy(s, q) THEN SubSeq(s, 2, Len(s) - 1) ELSE s

\* splitArgs(): the arguments so far, and what is left of the text.
ArgsRound(before) ==
    LET starts == {i \in DOMAIN before.rest : PartEnd(before.rest, i) # 0}
        first  == CHOOSE i \in starts : \A j \in starts : i <= j
        end    == MatchEnd(before.rest, first)
    IN  IF starts = {} THEN before
        ELSE [args |-> Append(before.args, Unquoted(SubSeq(before.rest, first, end))),
              rest |-> SubSeq(before.rest, end + 1, Len(before.rest))]

ArgsLoop(s) ==
    LET loop[n \in Nat] == IF n = 0 THEN [args |-> <<>>, rest |-> s]
                           ELSE ArgsRound(loop[n - 1])
    IN  loop

\* What is left without a match is an argument, a blank at the end too.
SplitArgs(s) ==
    LET end == ArgsLoop(s)[Len(s)]
    IN  IF end.rest = <<>> THEN end.args ELSE Append(end.args, end.rest)

\* Environment::exec() of a command that is not empty.
Command(s) == [program |-> Head(SplitArgs(s)), arguments |-> Tail(SplitArgs(s))]

-----------------------------------------------------------------------------
\* A word that does not begin or end with the delimiter can be told from any
\* number of delimiters around it.
TrimmedIsKept ==
    \A s \in Texts, c \in Characters :
        LET t == Trim(s, c) IN
        /\ t # <<>> => t[1] # c /\ t[Len(t)] # c
        /\ \E i, j \in 0..MaxText :
              s = [k \in 1..i |-> c] \o t \o [k \in 1..j |-> c]

\* Words that are quoted, joined and split again are the same words, unless one
\* holds both kinds of quotes or begins and ends with the same one; and every
\* command that is not empty has a program.
ArgumentsRoundTrip ==
    /\ \A v, w \in Words :
          (\A s \in {v, w} : /\ ~(Quotes \subseteq ToSet(s))
                             /\ \A q \in Quotes : ~IsQuotedBy(s, q)) =>
              Command(Join(<<Quote(v), Quote(w)>>, <<Space>>, FALSE)) =
                  [program |-> v, arguments |-> <<w>>]
    /\ \A s \in Texts \ {<<>>} : SplitArgs(s) # <<>>

\* Replacing a text is splitting at it and joining with the other, also when the
\* one holds the other or overlaps with itself.
ReplaceIsSplitAndJoin ==
    \A s \in Texts, t \in Texts \ {<<>>}, r \in Texts :
        s # <<>> => Replace(s, t, r) = Join(Split(s, t, TRUE), r, FALSE)

=============================================================================
