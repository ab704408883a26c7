--------------------------- MODULE AlgorithmProofs --------------------------
(***************************************************************************)
(* Versions are totally ordered, updates are current, passwords are of the *)
(* flagged types, credentials have one entry a name, the measured usage of *)
(* the processor is bounded by the time that passed, dependencies are      *)
(* usable and the language taken is shown. Versions, base 64, addresses,   *)
(* geometries and, by StringProofs, texts survive their conversions.       *)
(***************************************************************************)
EXTENDS MCAlgorithms, StringProofs, FiniteSetTheorems

-----------------------------------------------------------------------------
(* Version. *)

DevTexts == Devs \cup {NoDev}

\* The development parts of one release are ordered, the release comes last.
LEMMA DevsOrdered ==
    /\ \A d, e \in DevTexts :
          /\ DevGreater(d, e) <=> DevLess(e, d)
          /\ DevLess(d, e) <=> ~(DevLess(e, d) \/ d = e)
    /\ \A c, d, e \in DevTexts : DevLess(c, d) /\ DevLess(d, e) => DevLess(c, e)
    /\ \A d \in DevTexts \ {NoDev} : DevLess(d, NoDev)
<1>1. DevTexts \subseteq Nat /\ NoDev = 0
  BY VersionAssumption DEF DevTexts, NoDev
<1>2. ASSUME NEW d \in DevTexts, NEW e \in DevTexts
      PROVE  /\ DevGreater(d, e) <=> DevLess(e, d)
             /\ DevLess(d, e) <=> ~(DevLess(e, d) \/ d = e)
  BY <1>1 DEF DevLess, DevGreater
<1>3. ASSUME NEW c \in DevTexts, NEW d \in DevTexts, NEW e \in DevTexts,
             DevLess(c, d), DevLess(d, e)
      PROVE  DevLess(c, e)
  BY <1>1, <1>3 DEF DevLess
<1>4. \A d \in DevTexts \ {NoDev} : DevLess(d, NoDev)
  BY DEF DevLess
<1>. QED
  BY <1>2, <1>3, <1>4

LEMMA FieldsOfVersion ==
    \A v \in Versions : v.major \in Int /\ v.minor \in Int /\ v.build \in Int /\ v.dev \in DevTexts
<1>1. Numbers \subseteq Int
  BY VersionAssumption
<1>2. ASSUME NEW v \in Versions
      PROVE  v.major \in Numbers /\ v.minor \in Numbers /\ v.build \in Numbers /\ v.dev \in DevTexts
  BY DEF Versions, DevTexts
<1>. QED
  BY <1>1, <1>2

\* <, <=, >, >= and == of Version describe one total order, in which the
\* development versions of a release precede it, whatever the numbers are.
THEOREM VersionsOrdered == VersionsAreOrdered
<1>1. ASSUME NEW v \in Versions, NEW w \in Versions
      PROVE  /\ Less(v, w) <=> ~GreaterOrEqual(v, w)
             /\ Greater(v, w) <=> ~LessOrEqual(v, w)
             /\ Greater(v, w) <=> Less(w, v)
             /\ Equal(v, w) <=> v = w
  <2>1. Equal(v, w) <=> v = w
    BY DEF Versions, Equal
  <2>2. Greater(v, w) <=> Less(w, v)
    BY FieldsOfVersion, DevsOrdered DEF Less, Greater
  <2>3. Less(v, w) <=> ~(Less(w, v) \/ Equal(v, w))
    BY FieldsOfVersion, DevsOrdered DEF Less, Equal
  <2>4. Less(w, v) <=> ~(Less(v, w) \/ Equal(v, w))
    BY FieldsOfVersion, DevsOrdered DEF Less, Equal
  <2>. QED
    BY <2>1, <2>2, <2>3, <2>4 DEF GreaterOrEqual, LessOrEqual
<1>2. ASSUME NEW u \in Versions, NEW v \in Versions, NEW w \in Versions,
             Less(u, v), Less(v, w)
      PROVE  Less(u, w)
  BY <1>2, FieldsOfVersion, DevsOrdered DEF Less
<1>3. ASSUME NEW v \in Versions, v.dev # NoDev
      PROVE  Less(v, [v EXCEPT !.dev = NoDev])
  BY <1>3, FieldsOfVersion, DevsOrdered DEF Versions, Less
<1>. QED
  BY <1>1, <1>2, <1>3 DEF VersionsAreOrdered

LEMMA FieldFacts ==
    ASSUME NEW f \in Fields
    PROVE  /\ f.dash \in BOOLEAN /\ f.dev \in Nat \ {0} /\ f.tokens \in Seq(Tokens)
           /\ \A i \in 1..Len(f.tokens) :
                 f.tokens[i].number \in Nat \cup {NoNumber} /\ f.tokens[i].dev \in Nat \ {0}
           /\ f.dash => \A i \in 1..Len(f.tokens) : f.tokens[i].dev # f.dev
           /\ ~f.dash => Len(f.tokens) = 1 /\ f.dev = f.tokens[1].dev
<1>1. ASSUME NEW t \in Tokens PROVE t.number \in Nat \cup {NoNumber} /\ t.dev \in Nat \ {0}
  BY DEF Tokens, NoDev
<1>2. f.dash \in BOOLEAN /\ f.dev \in Nat \ {0} /\ f.tokens \in Seq(Tokens)
  BY DEF Fields, NoDev
<1>3. /\ \A i \in 1..Len(f.tokens) : f.tokens[i] \in Tokens
      /\ DOMAIN f.tokens = 1..Len(f.tokens)
  BY <1>2
<1>4. /\ f.dash => \A i \in DOMAIN f.tokens : f.tokens[i].dev # f.dev
      /\ ~f.dash => Len(f.tokens) = 1 /\ f.dev = f.tokens[1].dev
  BY DEF Fields
<1>. QED
  BY <1>1, <1>2, <1>3, <1>4

\* A version is parsed from its own text as itself, in either form, exactly if
\* its development part has no dash.
THEOREM VersionsKept == VersionsRoundTrip
<1> SUFFICES ASSUME NEW fields \in VersionTexts, Parse(fields) # Thrown
             PROVE  Parse(Str(Parse(fields), fields)) = Parse(fields)
                        <=> ~(Len(fields) = 4 /\ fields[4].dash)
  BY DEF VersionsRoundTrip
<1> DEFINE n == Len(fields)  final == fields[n]  v == Parse(fields)
           Third(tokens) == [dash |-> TRUE, dev |-> NoDev, tokens |-> Digits(v.build).tokens \o tokens]
           Text(third) == <<Digits(v.major), Digits(v.minor), third>>
<1>1. /\ n \in {3, 4} /\ (n = 3 /\ final.dash => Len(final.tokens) = 2)
      /\ v = [major |-> StoI(fields[1].tokens), minor |-> StoI(fields[2].tokens),
              build |-> StoI(fields[3].tokens),
              dev   |-> CASE n = 4 -> final.dev
                          [] n = 3 /\ final.dash -> final.tokens[2].dev
                          [] OTHER -> NoDev]
      /\ NoNumber \notin {v.major, v.minor, v.build}
  BY DEF Parse
<1>2. final \in Fields
  <2>1. fields \in Seq(Fields) /\ n \in 1..Len(fields)
    BY <1>1, VersionAssumption
  <2>. QED
    BY <2>1
<1> HIDE DEF n, final, v
<1>3. /\ final.dash \in BOOLEAN /\ final.dev # NoDev /\ final.tokens \in Seq(Tokens)
      /\ \A i \in 1..Len(final.tokens) : final.tokens[i].dev # NoDev
      /\ final.dash => \A i \in 1..Len(final.tokens) : final.tokens[i].dev # final.dev
      /\ ~final.dash => Len(final.tokens) = 1 /\ final.dev = final.tokens[1].dev
  BY <1>2, FieldFacts DEF NoDev
<1>4. Parse(Text(Digits(v.build))) = [v EXCEPT !.dev = NoDev]
  <2>1. /\ Len(Text(Digits(v.build))) = 3 /\ ~Digits(v.build).dash
        /\ StoI(Digits(v.major).tokens) = v.major /\ StoI(Digits(v.minor).tokens) = v.minor
        /\ StoI(Digits(v.build).tokens) = v.build
    BY DEF Digits, StoI
  <2>2. [v EXCEPT !.dev = NoDev]
            = [major |-> v.major, minor |-> v.minor, build |-> v.build, dev |-> NoDev]
    BY <1>1
  <2>. QED
    BY <1>1, <2>1, <2>2 DEF Parse
<1>5. ASSUME NEW tokens \in Seq(Tokens)
      PROVE  Parse(Text(Third(tokens))) =
                 IF Len(tokens) = 1 THEN [v EXCEPT !.dev = tokens[1].dev] ELSE Thrown
  <2> DEFINE all == Digits(v.build).tokens \o tokens
  <2>1. /\ Len(all) = 1 + Len(tokens) /\ all # <<>>
        /\ all[1].number = v.build
        /\ Len(tokens) = 1 => all[2] = tokens[1]
    <3>1. /\ Digits(v.build).tokens = <<[number |-> v.build, dev |-> NoDev]>>
      BY DEF Digits
    <3>. QED
      BY <3>1
  <2>2. /\ StoI(Digits(v.major).tokens) = v.major /\ StoI(Digits(v.minor).tokens) = v.minor
        /\ StoI(all) = v.build
    BY <2>1 DEF Digits, StoI
  <2> HIDE DEF all
  <2>3. /\ Len(Text(Third(tokens))) = 3 /\ Text(Third(tokens))[1] = Digits(v.major)
        /\ Text(Third(tokens))[2] = Digits(v.minor)
        /\ Text(Third(tokens))[3].dash /\ Text(Third(tokens))[3].tokens = all
    BY DEF all
  <2>4. [v EXCEPT !.dev = tokens[1].dev]
            = [major |-> v.major, minor |-> v.minor, build |-> v.build, dev |-> tokens[1].dev]
    BY <1>1
  <2>5. Len(tokens) \in Nat /\ (Len(all) = 2 <=> Len(tokens) = 1)
    <3>1. Len(tokens) \in Nat
      OBVIOUS
    <3>2. \A k, m \in Nat : k = 1 + m => (k = 2 <=> m = 1)
      OBVIOUS
    <3>3. Len(all) \in Nat
      BY <2>1, <3>1
    <3>. QED
      BY <2>1, <3>1, <3>2, <3>3, Zenon
  <2> DEFINE t == Text(Third(tokens))
  <2>6. Len(t) = 3 /\ t[Len(t)] = t[3] /\ t[3].dash /\ t[3].tokens = all
    BY <2>3
  <2>7. /\ StoI(t[1].tokens) = v.major /\ StoI(t[2].tokens) = v.minor
        /\ StoI(t[3].tokens) = v.build
    BY <2>2, <2>3
  <2> HIDE DEF t
  <2>8. CASE Len(tokens) = 1
    <3>1. Len(all) = 2 /\ all[2].dev = tokens[1].dev
      BY <2>1, <2>5, <2>8
    <3>2. Parse(t) = [major |-> v.major, minor |-> v.minor, build |-> v.build, dev |-> tokens[1].dev]
      BY <1>1, <2>6, <2>7, <3>1 DEF Parse
    <3>. QED
      BY <2>4, <2>8, <3>2 DEF t
  <2>9. CASE Len(tokens) # 1
    <3>1. Len(all) # 2
      BY <2>5, <2>9
    <3>2. Parse(t) = Thrown
      BY <2>6, <3>1 DEF Parse
    <3>. QED
      BY <2>9, <3>2 DEF t
  <2>. QED
    BY <2>8, <2>9
<1>6. v.dev # NoDev => Str(v, fields) = Text(Third(DevTokens(fields)))
  BY DEF Str
<1>7. v.dev = NoDev => Str(v, fields) = Text(Digits(v.build))
  BY DEF Str
<1>8. v # Thrown /\ \A dev : [v EXCEPT !.dev = dev] = v <=> dev = v.dev
  BY <1>1 DEF Thrown
<1> HIDE DEF Text, Third
<1>9. CASE n = 4
  <2>1. v.dev = final.dev /\ v.dev # NoDev /\ DevTokens(fields) = final.tokens
    <3>1. v.dev = final.dev
      BY <1>1, <1>9
    <3>2. DevTokens(fields) = final.tokens
      BY <1>9 DEF DevTokens, n, final
    <3>. QED
      BY <1>3, <3>1, <3>2
  <2>2. Parse(Str(v, fields)) = IF Len(final.tokens) = 1 THEN [v EXCEPT !.dev = final.tokens[1].dev]
                                ELSE Thrown
    BY <1>3, <1>5, <1>6, <2>1
  <2>3. Parse(Str(v, fields)) = v <=> Len(final.tokens) = 1 /\ final.tokens[1].dev = final.dev
    BY <1>8, <2>1, <2>2
  <2>4. Len(final.tokens) = 1 /\ final.tokens[1].dev = final.dev <=> ~final.dash
    BY <1>3
  <2>. QED
    BY <1>9, <2>3, <2>4 DEF n, final, v
<1>10. CASE n = 3 /\ final.dash
  <2>1. /\ v.dev = final.tokens[2].dev /\ v.dev # NoDev /\ DevTokens(fields) = <<final.tokens[2]>>
        /\ final.tokens[2] \in Tokens
    BY <1>1, <1>3, <1>10 DEF DevTokens, n, final
  <2>2. <<final.tokens[2]>> \in Seq(Tokens) /\ Len(<<final.tokens[2]>>) = 1
    BY <2>1
  <2>3. Parse(Str(v, fields)) = [v EXCEPT !.dev = final.tokens[2].dev]
    BY <1>5, <1>6, <2>1, <2>2
  <2>. QED
    BY <1>8, <1>10, <2>1, <2>3 DEF n, v
<1>11. CASE n = 3 /\ ~final.dash
  <2>1. v.dev = NoDev
    BY <1>1, <1>11
  <2>. QED
    BY <1>4, <1>7, <1>8, <1>11, <2>1 DEF n, v
<1>. QED
  BY <1>1, <1>3, <1>9, <1>10, <1>11

-----------------------------------------------------------------------------
(* Updater. *)

Release == [id : Nat \ {0}, tag : Tags \cup {Unreadable}, prerelease : BOOLEAN]

\* Ids descend in the list, and no release has an id that is still to come.
ListInv ==
    /\ releases \in Seq(Release) /\ published \in Nat
    /\ \A i \in 1..Len(releases) : releases[i].id <= published
    /\ \A i, j \in 1..Len(releases) : i < j => releases[i].id > releases[j].id

\* Of releases in order the tags are versions, and descend as the ids do.
OrderInv ==
    inOrder => /\ \A i \in 1..Len(releases) : releases[i].tag \in Tags /\ Less(Zero, releases[i].tag)
               /\ \A i, j \in 1..Len(releases) : i < j => Less(releases[j].tag, releases[i].tag)

\* The id that is kept of a type is not lower than that of the release last
\* announced of it, as long as that one is still announced and, for the preview,
\* releases are in order.
LatestInv ==
    /\ latest \in [Updaters -> [VersionType -> Int]]
    /\ fetched \in [Updaters -> [VersionType -> Int]]
    /\ \A u \in Updaters, type \in VersionType : fetched[u][type] <= published
    /\ \A u \in Updaters : \A i \in 1..Len(releases) :
          /\ StillAnnounced(u, "Stable", i) => fetched[u]["Stable"] <= latest[u]["Stable"]
          /\ inOrder /\ StillAnnounced(u, "Preview", i) =>
                 fetched[u]["Preview"] <= latest[u]["Preview"]

UpdaterInv == ListInv /\ OrderInv /\ LatestInv

\* Of two versions in Versions, neither is both less and greater.
LEMMA LessIsStrict ==
    \A v, w \in Versions : /\ Less(v, w) => ~Less(w, v) /\ ~Greater(v, w)
                           /\ ~Less(v, v) /\ ~Greater(v, v)
<1>1. \A v, w \in Versions : /\ Less(v, w) <=> ~GreaterOrEqual(v, w)
                             /\ Greater(v, w) <=> Less(w, v)
                             /\ Equal(v, w) <=> v = w
  BY VersionsOrdered DEF VersionsAreOrdered
<1>. QED
  BY <1>1 DEF GreaterOrEqual

LEMMA Published ==
    ASSUME NEW s \in Seq(Release), NEW r \in Release
    PROVE  /\ <<r>> \o s \in Seq(Release) /\ Len(<<r>> \o s) = Len(s) + 1
           /\ (<<r>> \o s)[1] = r
           /\ \A i \in 2..Len(s) + 1 : (<<r>> \o s)[i] = s[i - 1]
<1>1. <<r>> \in Seq(Release) /\ Len(<<r>>) = 1 /\ <<r>>[1] = r
  OBVIOUS
<1>2. Len(s) \in Nat
  OBVIOUS
<1>. QED
  BY <1>1, <1>2, ConcatProperties

LEMMA Withdrawn ==
    ASSUME NEW s \in Seq(Release), NEW i \in 1..Len(s)
    PROVE  LET t == SubSeq(s, 1, i - 1) \o SubSeq(s, i + 1, Len(s)) IN
           /\ t \in Seq(Release) /\ Len(t) = Len(s) - 1
           /\ \A k \in 1..Len(t) : t[k] = s[IF k < i THEN k ELSE k + 1]
<1> DEFINE a == SubSeq(s, 1, i - 1)  b == SubSeq(s, i + 1, Len(s))
<1>1. Len(s) \in Nat /\ i \in Nat /\ \A k \in 1..Len(s) : s[k] \in Release
  OBVIOUS
<1>2. /\ a \in Seq(Release) /\ Len(a) = i - 1 /\ \A k \in 1..i - 1 : a[k] = s[k]
  BY <1>1, SubSeqProperties
<1>3. /\ b \in Seq(Release) /\ Len(b) = Len(s) - i /\ \A k \in 1..Len(s) - i : b[k] = s[i + k]
  BY <1>1, SubSeqProperties
<1> HIDE DEF a, b
<1>4. /\ a \o b \in Seq(Release) /\ Len(a \o b) = Len(s) - 1
      /\ \A k \in 1..Len(s) - 1 : (a \o b)[k] = IF k <= i - 1 THEN a[k] ELSE b[k - (i - 1)]
  <2>1. a \in Seq(Release) /\ b \in Seq(Release) /\ Len(a) = i - 1 /\ Len(b) = Len(s) - i
    BY <1>2, <1>3
  <2>2. /\ a \o b \in Seq(Release) /\ Len(a \o b) = Len(a) + Len(b)
        /\ \A k \in 1..Len(a) + Len(b) : (a \o b)[k] = IF k <= Len(a) THEN a[k] ELSE b[k - Len(a)]
    BY <2>1, ConcatProperties
  <2>3. Len(a) + Len(b) = Len(s) - 1
    BY <1>1, <2>1
  <2>. QED
    BY <2>1, <2>2, <2>3
<1>5. ASSUME NEW k \in 1..Len(s) - 1
      PROVE  (a \o b)[k] = s[IF k < i THEN k ELSE k + 1]
  <2>1. CASE k < i
    BY <1>1, <1>2, <1>4, <2>1
  <2>2. CASE ~(k < i)
    <3>1. k - (i - 1) \in 1..Len(s) - i /\ i + (k - (i - 1)) = k + 1
      BY <1>1, <2>2
    <3>. QED
      BY <1>1, <1>3, <1>4, <2>2, <3>1
  <2>. QED
    BY <2>1, <2>2
<1>. QED
  BY <1>4, <1>5 DEF a, b

\* What the list is made of.
LEMMA ListFacts ==
    ASSUME ListInv
    PROVE  /\ Len(releases) \in Nat /\ DOMAIN releases = 1..Len(releases) /\ published \in Nat
           /\ \A i \in 1..Len(releases) :
                 releases[i].id \in Nat \ {0} /\ releases[i].id <= published
<1>1. ASSUME NEW r \in Release PROVE r.id \in Nat \ {0}
  BY DEF Release
<1>2. \A i \in 1..Len(releases) : releases[i] \in Release /\ releases[i].id <= published
  BY DEF ListInv
<1>. QED
  BY <1>1, <1>2 DEF ListInv

\* What LastOf gives: of a set with one element, that one.
LEMMA LastIsIn ==
    /\ \A set : LastOf(set) \subseteq set
    /\ \A k \in Nat : LastOf({k}) = {k}
    /\ LastOf({}) = {}
BY DEF LastOf

LEMMA Taken ==
    ASSUME ListInv
    PROVE  /\ FirstPrerelease \subseteq Prereleases /\ Prereleases \subseteq 1..Len(releases)
           /\ FirstOther \subseteq Others /\ Others \subseteq 1..Len(releases)
<1>1. DOMAIN releases = 1..Len(releases)
  BY DEF ListInv
<1>. QED
  BY <1>1, LastIsIn DEF FirstPrerelease, FirstOther, Prereleases, Others

\* What the loop takes of releases none of which has the tag 0.0.0: the first of all
\* is the first stable one, or else the first prerelease and the second the other.
LEMMA FirstsFound ==
    ASSUME ListInv, \A i \in 1..Len(releases) : releases[i].tag # Zero
    PROVE  /\ FirstPrerelease \subseteq 1..Len(releases) /\ FirstOther \subseteq 1..Len(releases)
           /\ releases # <<>> /\ ~releases[1].prerelease => FirstOther = {1} /\ 1 \notin FirstPrerelease
           /\ releases # <<>> /\ releases[1].prerelease =>
                  /\ FirstPrerelease = {1}
                  /\ FirstOther = IF Len(releases) >= 2 THEN {2} ELSE {}
<1>1. DOMAIN releases = 1..Len(releases) /\ Len(releases) \in Nat
      /\ (releases # <<>> => 1 \in 1..Len(releases))
  BY DEF ListInv
<1>2. FirstPrerelease \subseteq 1..Len(releases) /\ FirstOther \subseteq 1..Len(releases)
  BY Taken
<1>3. ASSUME releases # <<>>, ~releases[1].prerelease
      PROVE  FirstOther = {1} /\ 1 \notin FirstPrerelease
  <2>1. 1 \notin Prereleases
    BY <1>3 DEF Prereleases
  <2>2. \A i \in 1..Len(releases) : i # 1 => 1 \in 1..i - 1
    BY <1>1
  <2>3. 1..1 - 1 = {}
    OBVIOUS
  <2>4. Others = {1}
    BY <1>1, <1>3, <2>1, <2>2, <2>3 DEF Others
  <2>. QED
    BY <2>1, <2>4, LastIsIn, Taken DEF FirstOther
<1>4. ASSUME releases # <<>>, releases[1].prerelease
      PROVE  /\ FirstPrerelease = {1}
             /\ FirstOther = IF Len(releases) >= 2 THEN {2} ELSE {}
  <2>1. Prereleases = {1}
    <3>1. \A i \in 1..Len(releases) : i # 1 => 1 \in 1..i - 1
      BY <1>1
    <3>2. 1..1 - 1 = {}
      OBVIOUS
    <3>. QED
      BY <1>1, <1>4, <3>1, <3>2 DEF Prereleases
  <2>2. \A i \in 1..Len(releases) \ {1} :
            (\A j \in 1..i - 1 : j \notin {1} => releases[j].tag = Zero) <=> i = 2
    <3> SUFFICES ASSUME NEW i \in 1..Len(releases) \ {1}
                 PROVE  (\A j \in 1..i - 1 : j \notin {1} => releases[j].tag = Zero) <=> i = 2
      OBVIOUS
    <3>1. i # 2 => 2 \in 1..i - 1 /\ 2 \in 1..Len(releases)
      BY <1>1
    <3>2. i = 2 => 1..i - 1 = {1}
      BY <1>1
    <3>. QED
      BY <1>1, <3>1, <3>2
  <2>3. Others = {i \in 1..Len(releases) \ {1} : i = 2}
    BY <1>1, <2>1, <2>2 DEF Others
  <2>4. Others = IF Len(releases) >= 2 THEN {2} ELSE {}
    BY <1>1, <2>3
  <2>. QED
    BY <2>1, <2>4, LastIsIn DEF FirstPrerelease, FirstOther
<1>. QED
  BY <1>2, <1>3, <1>4

\* What is taken of releases in order: the tag that is answered for the preview
\* is that of the first, and of no release it is Zero.
LEMMA FirstIsNewest ==
    ASSUME UpdaterInv, inOrder, releases # <<>>
    PROVE  /\ TagOf(Answer("Preview")) = releases[1].tag
           /\ \A old : IdOf(Answer("Preview"), old) = releases[1].id
<1>1. /\ DOMAIN releases = 1..Len(releases) /\ Len(releases) \in Nat /\ 1 \in 1..Len(releases)
      /\ \A i \in 1..Len(releases) : releases[i].tag \in Versions /\ Less(Zero, releases[i].tag)
      /\ \A i \in 1..Len(releases) : 1 < i => Less(releases[i].tag, releases[1].tag)
      /\ Zero \in Versions
  BY UpdaterAssumption DEF UpdaterInv, ListInv, OrderInv
<1>0. \A i \in 1..Len(releases) : releases[i].tag # Zero
  BY <1>1, LessIsStrict
<1>2. \A found \in SUBSET (1..Len(releases)) : 1 \notin found =>
          TagOf(found) \in Versions /\ Less(TagOf(found), releases[1].tag)
  <2> SUFFICES ASSUME NEW found \in SUBSET (1..Len(releases)), 1 \notin found
               PROVE  TagOf(found) \in Versions /\ Less(TagOf(found), releases[1].tag)
    OBVIOUS
  <2>1. CASE found = {}
    BY <1>1, <2>1 DEF TagOf
  <2>2. CASE found # {}
    <3>1. (CHOOSE i \in found : TRUE) \in found
      BY <2>2
    <3>2. \A i \in found : i \in 1..Len(releases) /\ 1 < i
      BY <1>1
    <3>. QED
      BY <1>1, <2>2, <3>1, <3>2 DEF TagOf
  <2>. QED
    BY <2>1, <2>2
<1>3. TagOf({1}) = releases[1].tag /\ \A old : IdOf({1}, old) = releases[1].id
  BY DEF TagOf, IdOf
<1>4. Answer("Preview") = {1}
  <2>1. CASE releases[1].prerelease
    <3>1. FirstPrerelease = {1} /\ 1 \notin FirstOther /\ FirstOther \subseteq 1..Len(releases)
      BY <1>0, <2>1, FirstsFound DEF UpdaterInv
    <3>2. ~StableIsNewer
      BY <1>1, <1>2, <1>3, <3>1, LessIsStrict DEF StableIsNewer
    <3>. QED
      BY <3>1, <3>2 DEF Answer
  <2>2. CASE ~releases[1].prerelease
    <3>1. FirstOther = {1} /\ 1 \notin FirstPrerelease /\ FirstPrerelease \subseteq 1..Len(releases)
      BY <1>0, <2>2, FirstsFound DEF UpdaterInv
    <3>2. StableIsNewer
      <4>1. Less(TagOf(FirstPrerelease), TagOf(FirstOther))
        BY <1>2, <1>3, <3>1
      <4>2. TagOf(FirstPrerelease) \in Versions /\ TagOf(FirstOther) \in Versions
        BY <1>1, <1>2, <1>3, <3>1
      <4>. QED
        BY <4>1, <4>2, VersionsOrdered DEF StableIsNewer, VersionsAreOrdered
    <3>. QED
      BY <3>1, <3>2 DEF Answer
  <2>. QED
    BY <2>1, <2>2
<1>. QED
  BY <1>3, <1>4

\* A stable release that is listed is taken, or one before it, unless its tag
\* counts as none.
LEMMA OtherIsNotOlder ==
    ASSUME ListInv, NEW i \in 1..Len(releases), ~releases[i].prerelease, releases[i].tag # Zero
    PROVE  /\ FirstOther # {}
           /\ \A old : IdOf(FirstOther, old) \in Int /\ IdOf(FirstOther, old) >= releases[i].id
<1>1. /\ Len(releases) \in Nat /\ DOMAIN releases = 1..Len(releases)
      /\ \A k \in 1..Len(releases) : releases[k].id \in Nat
      /\ \A j, k \in 1..Len(releases) : j < k => releases[j].id > releases[k].id
  BY ListFacts DEF ListInv
<1> DEFINE stop == {k \in 1..Len(releases) \ Prereleases : releases[k].tag # Zero}
<1>2. i \in stop
  BY DEF Prereleases
<1>3. PICK k \in stop : \A j \in stop : ~(j < k)
  <2>1. \E k \in stop : \A j \in stop : <<j, k>> \notin OpToRel(<, Nat)
    <3>1. stop \subseteq Nat
      BY <1>1
    <3>. QED
      BY <1>2, <3>1, WFMin, NatLessThanWellFounded, Zenon
  <2>2. PICK k \in stop : \A j \in stop : <<j, k>> \notin OpToRel(<, Nat)
    BY <2>1
  <2>3. ASSUME NEW j \in stop PROVE ~(j < k)
    <3>1. j \in Nat /\ k \in Nat
      BY <1>1
    <3>2. j < k => <<j, k>> \in OpToRel(<, Nat)
      BY <3>1 DEF OpToRel
    <3>. QED
      BY <2>2, <3>2
  <2>. QED
    BY <2>2, <2>3
<1>4. k \in Others
  <2>1. \A j \in 1..k - 1 : j \in 1..Len(releases) /\ j < k
    BY <1>1
  <2>. QED
    BY <1>1, <1>3, <2>1 DEF Others
<1>5. ASSUME NEW m \in Others, NEW n \in stop PROVE m <= n
  <2>1. m \in 1..Len(releases) /\ n \in 1..Len(releases)
    BY Taken
  <2>2. n < m => n \in 1..m - 1
    BY <1>1, <2>1
  <2>. QED
    BY <1>1, <2>1, <2>2 DEF Others
<1>6. k \in FirstOther
  <2>1. \A m \in Others : m <= k
    BY <1>3, <1>5
  <2>. QED
    BY <1>4, <2>1 DEF FirstOther, LastOf
<1>7. ASSUME NEW m \in FirstOther PROVE releases[m].id >= releases[i].id /\ releases[m].id \in Int
  <2>1. m \in 1..Len(releases) /\ (m = i \/ m < i)
    BY <1>1, <1>2, <1>5, Taken
  <2>. QED
    BY <1>1, <2>1
<1>8. (CHOOSE m \in FirstOther : TRUE) \in FirstOther
  BY <1>6
<1>. QED
  BY <1>6, <1>7, <1>8 DEF IdOf

LEMMA IdTyped ==
    ASSUME ListInv, NEW found \in SUBSET (1..Len(releases)), NEW old \in Int, old <= published
    PROVE  IdOf(found, old) \in Int /\ IdOf(found, old) <= published
<1>1. \A k \in 1..Len(releases) : releases[k].id \in Int /\ releases[k].id <= published
  BY ListFacts
<1>2. CASE found = {}
  BY <1>2 DEF IdOf
<1>3. CASE found # {}
  <2>1. (CHOOSE i \in found : TRUE) \in 1..Len(releases)
    BY <1>3
  <2>. QED
    BY <1>1, <1>3, <2>1 DEF IdOf
<1>. QED
  BY <1>2, <1>3

LEMMA IdIsInt ==
    ASSUME ListInv, NEW found \in SUBSET (1..Len(releases)), NEW old \in Int
    PROVE  IdOf(found, old) \in Int
<1>1. \A k \in 1..Len(releases) : releases[k].id \in Int
  BY ListFacts
<1>2. CASE found = {}
  BY <1>2 DEF IdOf
<1>3. CASE found # {}
  <2>1. (CHOOSE i \in found : TRUE) \in 1..Len(releases)
    BY <1>3
  <2>. QED
    BY <1>1, <1>3, <2>1 DEF IdOf
<1>. QED
  BY <1>2, <1>3

LEMMA UpdaterInitial == UpdaterInit => UpdaterInv
<1> SUFFICES ASSUME UpdaterInit PROVE UpdaterInv
  OBVIOUS
<1>1. releases = <<>> /\ Len(releases) = 0 /\ 1..Len(releases) = {}
  BY DEF UpdaterInit
<1>2. ListInv /\ OrderInv
  BY <1>1 DEF UpdaterInit, ListInv, OrderInv
<1>3. LatestInv
  BY <1>1 DEF UpdaterInit, LatestInv, NoRelease
<1>. QED
  BY <1>2, <1>3 DEF UpdaterInv

LEMMA PublishKeeps ==
    ASSUME UpdaterInv, NEW tag \in Tags \cup {Unreadable}, NEW prerelease \in BOOLEAN,
           Publish(tag, prerelease)
    PROVE  UpdaterInv'
<1> DEFINE r == [id |-> published + 1, tag |-> tag, prerelease |-> prerelease]
<1>0. /\ releases \in Seq(Release) /\ published \in Nat /\ Len(releases) \in Nat
      /\ \A i \in 1..Len(releases) : releases[i] \in Release
  BY DEF UpdaterInv, ListInv
<1>1. r \in Release
  BY <1>0 DEF Release
<1>2. /\ releases' = <<r>> \o releases /\ published' = published + 1
      /\ UNCHANGED <<latest, fetched>>
  BY DEF Publish
<1> HIDE DEF r
<1>3. /\ releases' \in Seq(Release) /\ Len(releases') = Len(releases) + 1
      /\ releases'[1] = r
      /\ \A i \in 2..Len(releases) + 1 : releases'[i] = releases[i - 1]
  BY <1>0, <1>1, <1>2, Published
<1>4. r.id = published + 1 /\ r.tag = tag
  BY DEF r
<1>5. \A i \in 1..Len(releases') : i = 1 \/ (i \in 2..Len(releases) + 1 /\ i - 1 \in 1..Len(releases))
  BY <1>0, <1>3
<1>6. ListInv'
  <2>1. \A i \in 1..Len(releases) : releases[i].id \in Nat /\ releases[i].id <= published
    BY ListFacts DEF UpdaterInv
  <2>2. \A i \in 1..Len(releases') : releases'[i].id <= published'
    <3>1. releases'[1].id <= published'
      BY <1>0, <1>2, <1>3, <1>4
    <3>2. ASSUME NEW i \in 2..Len(releases) + 1, i - 1 \in 1..Len(releases)
          PROVE  releases'[i].id <= published'
      <4>1. releases'[i] = releases[i - 1] /\ releases[i - 1].id \in Nat /\ releases[i - 1].id <= published
        BY <1>3, <2>1, <3>2
      <4>. QED
        BY <1>0, <1>2, <4>1
    <3>. QED
      BY <1>5, <3>1, <3>2
  <2>3. ASSUME NEW i \in 1..Len(releases'), NEW j \in 1..Len(releases'), i < j
        PROVE  releases'[i].id > releases'[j].id
    <3>1. j \in 2..Len(releases) + 1 /\ j - 1 \in 1..Len(releases)
      BY <1>5, <2>3
    <3>2. CASE i = 1
      <4>1. releases'[i].id = published + 1
        BY <1>3, <1>4, <3>2
      <4>2. releases'[j] = releases[j - 1] /\ releases[j - 1].id \in Nat /\ releases[j - 1].id <= published
        BY <1>3, <2>1, <3>1
      <4>. QED
        BY <1>0, <4>1, <4>2
    <3>3. CASE i # 1
      <4>1. i \in 2..Len(releases) + 1 /\ i - 1 \in 1..Len(releases) /\ i - 1 < j - 1
        BY <1>5, <2>3, <3>1, <3>3
      <4>2. releases[i - 1].id > releases[j - 1].id
        BY <3>1, <4>1 DEF UpdaterInv, ListInv
      <4>. QED
        BY <1>3, <3>1, <4>1, <4>2
    <3>. QED
      BY <3>2, <3>3
  <2>4. published' \in Nat
    BY <1>0, <1>2
  <2>. QED
    BY <1>3, <2>2, <2>3, <2>4 DEF ListInv
<1>7. OrderInv'
  <2> SUFFICES ASSUME inOrder'
               PROVE  /\ \A i \in 1..Len(releases') :
                             releases'[i].tag \in Tags /\ Less(Zero, releases'[i].tag)
                      /\ \A i, j \in 1..Len(releases') :
                             i < j => Less(releases'[j].tag, releases'[i].tag)
    BY DEF OrderInv
  <2>1. /\ inOrder /\ tag \in Tags /\ Less(Zero, tag)
        /\ \A i \in 1..Len(releases) : Less(releases[i].tag, tag)
    <3>1. DOMAIN releases = 1..Len(releases)
      BY <1>0
    <3>. QED
      BY <3>1 DEF Publish
  <2>2. /\ \A i \in 1..Len(releases) : releases[i].tag \in Tags /\ Less(Zero, releases[i].tag)
        /\ \A i, j \in 1..Len(releases) : i < j => Less(releases[j].tag, releases[i].tag)
    BY <2>1 DEF UpdaterInv, OrderInv
  <2>3. \A i \in 1..Len(releases') : releases'[i].tag \in Tags /\ Less(Zero, releases'[i].tag)
    BY <1>3, <1>4, <1>5, <2>1, <2>2
  <2>4. ASSUME NEW i \in 1..Len(releases'), NEW j \in 1..Len(releases'), i < j
        PROVE  Less(releases'[j].tag, releases'[i].tag)
    <3>1. j \in 2..Len(releases) + 1 /\ j - 1 \in 1..Len(releases)
      BY <1>5, <2>4
    <3>2. CASE i = 1
      BY <1>3, <1>4, <2>1, <3>1, <3>2
    <3>3. CASE i # 1
      <4>1. i \in 2..Len(releases) + 1 /\ i - 1 \in 1..Len(releases) /\ i - 1 < j - 1
        BY <1>5, <2>4, <3>1, <3>3
      <4>. QED
        BY <1>3, <2>2, <3>1, <4>1
    <3>. QED
      BY <3>2, <3>3
  <2>. QED
    BY <2>3, <2>4
<1>8. LatestInv'
  <2>1. /\ latest' \in [Updaters -> [VersionType -> Int]]
        /\ fetched' \in [Updaters -> [VersionType -> Int]]
        /\ \A u \in Updaters, type \in VersionType :
              fetched'[u][type] <= published /\ published < published'
    BY <1>0, <1>2 DEF UpdaterInv, LatestInv
  <2>2. ASSUME NEW u \in Updaters, NEW i \in 1..Len(releases')
        PROVE  /\ StillAnnounced(u, "Stable", i)' => fetched'[u]["Stable"] <= latest'[u]["Stable"]
               /\ inOrder' /\ StillAnnounced(u, "Preview", i)' =>
                      fetched'[u]["Preview"] <= latest'[u]["Preview"]
    <3>1. CASE i = 1
      <4>1. fetched'[u]["Stable"] <= published /\ fetched'[u]["Preview"] <= published
            /\ fetched'[u]["Stable"] \in Int /\ fetched'[u]["Preview"] \in Int
        BY <2>1 DEF VersionType
      <4>. QED
        BY <1>0, <1>3, <1>4, <3>1, <4>1 DEF StillAnnounced
    <3>2. CASE i # 1
      <4>1. i - 1 \in 1..Len(releases) /\ releases'[i] = releases[i - 1]
        BY <1>3, <1>5, <3>2
      <4>2. inOrder' => inOrder
        BY DEF Publish
      <4>. QED
        BY <1>2, <4>1, <4>2 DEF UpdaterInv, LatestInv, StillAnnounced
    <3>. QED
      BY <3>1, <3>2
  <2>. QED
    BY <1>0, <1>2, <2>1, <2>2 DEF LatestInv, VersionType
<1>. QED
  BY <1>6, <1>7, <1>8 DEF UpdaterInv

LEMMA WithdrawKeeps ==
    ASSUME UpdaterInv, NEW i \in 1..Len(releases), Withdraw(i)
    PROVE  UpdaterInv'
<1> DEFINE from(k) == IF k < i THEN k ELSE k + 1
<1>0. releases \in Seq(Release) /\ Len(releases) \in Nat /\ published \in Nat
  BY DEF UpdaterInv, ListInv
<1>1. /\ releases' \in Seq(Release) /\ Len(releases') = Len(releases) - 1
      /\ \A k \in 1..Len(releases') : releases'[k] = releases[from(k)]
      /\ UNCHANGED <<published, inOrder, latest, fetched>>
  BY <1>0, Withdrawn DEF Withdraw
<1>2. /\ \A k \in 1..Len(releases') : from(k) \in 1..Len(releases)
      /\ \A j, k \in 1..Len(releases') : j < k => from(j) < from(k)
  BY <1>0, <1>1
<1> HIDE DEF from
<1>3. ListInv'
  BY <1>0, <1>1, <1>2 DEF UpdaterInv, ListInv
<1>4. OrderInv'
  <2> SUFFICES ASSUME inOrder'
               PROVE  /\ \A k \in 1..Len(releases') :
                             releases'[k].tag \in Tags /\ Less(Zero, releases'[k].tag)
                      /\ \A j, k \in 1..Len(releases') :
                             j < k => Less(releases'[k].tag, releases'[j].tag)
    BY DEF OrderInv
  <2>. QED
    BY <1>1, <1>2 DEF UpdaterInv, OrderInv
<1>5. LatestInv'
  BY <1>1, <1>2 DEF UpdaterInv, LatestInv, StillAnnounced
<1>. QED
  BY <1>3, <1>4, <1>5 DEF UpdaterInv

LEMMA FetchKeeps ==
    ASSUME UpdaterInv, NEW u \in Updaters, NEW type \in VersionType,
           FetchCurrentVersion(u, type)
    PROVE  UpdaterInv'
<1>0. ListInv /\ OrderInv /\ LatestInv /\ published \in Nat
  BY DEF UpdaterInv, ListInv
<1>1. UNCHANGED <<releases, published, inOrder>>
  BY DEF FetchCurrentVersion
<1>2. ListInv'
  BY <1>0, <1>1 DEF ListInv
<1>3. OrderInv'
  BY <1>0, <1>1 DEF OrderInv
<1>4. CASE UNCHANGED <<latest, fetched>>
  BY <1>0, <1>1, <1>2, <1>3, <1>4 DEF LatestInv, UpdaterInv, StillAnnounced
<1>5. CASE /\ latest' = [latest EXCEPT ![u] = Ids(@)]
           /\ fetched' = [fetched EXCEPT ![u][type] = IdOf(Answer(type), NoRelease)]
  <2>1. /\ FirstOther \in SUBSET (1..Len(releases)) /\ FirstPrerelease \in SUBSET (1..Len(releases))
        /\ Answer(type) \in SUBSET (1..Len(releases))
    BY <1>0, Taken DEF Answer
  <2>2. /\ latest[u] \in [VersionType -> Int] /\ fetched[u] \in [VersionType -> Int]
        /\ latest[u]["Stable"] \in Int /\ latest[u]["Preview"] \in Int
    BY <1>0 DEF LatestInv, VersionType
  <2>3. Ids(latest[u]) \in [VersionType -> Int]
    BY <1>0, <2>1, <2>2, IdIsInt DEF Ids, VersionType
  <2>4. /\ IdOf(Answer(type), NoRelease) \in Int
        /\ IdOf(Answer(type), NoRelease) <= published
    BY <1>0, <2>1, IdTyped DEF NoRelease
  <2>5. /\ latest' \in [Updaters -> [VersionType -> Int]]
        /\ fetched' \in [Updaters -> [VersionType -> Int]]
    BY <1>0, <1>5, <2>2, <2>3, <2>4 DEF LatestInv
  <2>6. \A v \in Updaters, t \in VersionType :
            fetched'[v][t] \in {fetched[v][t], IdOf(Answer(type), NoRelease)}
    BY <1>0, <1>5, <2>2 DEF LatestInv
  <2>7. \A v \in Updaters, t \in VersionType : fetched'[v][t] <= published'
    BY <1>0, <1>1, <2>4, <2>6 DEF LatestInv
  <2>8. ASSUME NEW v \in Updaters \ {u}
        PROVE  latest'[v] = latest[v] /\ fetched'[v] = fetched[v]
    BY <1>0, <1>5 DEF LatestInv
  <2>9. /\ latest'[u] = Ids(latest[u])
        /\ \A t \in VersionType \ {type} : fetched'[u][t] = fetched[u][t]
        /\ fetched'[u][type] = IdOf(Answer(type), NoRelease)
    BY <1>0, <1>5, <2>2 DEF LatestInv
  <2>10. ASSUME NEW i \in 1..Len(releases), releases[i].id = fetched'[u]["Stable"],
                ~releases[i].prerelease, releases[i].tag # Zero
         PROVE  fetched'[u]["Stable"] <= latest'[u]["Stable"]
    <3>1. \A old : IdOf(FirstOther, old) \in Int /\ IdOf(FirstOther, old) >= releases[i].id
      BY <1>0, <2>10, OtherIsNotOlder
    <3>2. latest'[u]["Stable"] = IdOf(FirstOther, latest[u]["Stable"])
      BY <2>9 DEF Ids
    <3>3. releases[i].id \in Int
      BY <1>0, ListFacts
    <3>. QED
      BY <2>10, <3>1, <3>2, <3>3
  <2>11. ASSUME NEW i \in 1..Len(releases), inOrder, releases[i].id = fetched'[u]["Preview"]
         PROVE  fetched'[u]["Preview"] <= latest'[u]["Preview"]
    <3>1. releases # <<>> /\ Len(releases) \in Nat /\ 1 \in 1..Len(releases)
      BY <1>0 DEF ListInv
    <3>2. \A old : IdOf(Answer("Preview"), old) = releases[1].id
      BY <2>11, <3>1, FirstIsNewest
    <3>3. latest'[u]["Preview"] = releases[1].id
      BY <2>9, <3>2 DEF Ids, Answer
    <3>4. releases[i].id <= releases[1].id
      <4>1. releases[i].id \in Nat /\ releases[1].id \in Nat
        BY <1>0, <3>1, ListFacts
      <4>. QED
        BY <1>0, <3>1, <4>1 DEF ListInv
    <3>. QED
      BY <2>11, <3>3, <3>4
  <2>12. LatestInv'
    BY <1>0, <1>1, <2>5, <2>7, <2>8, <2>10, <2>11 DEF LatestInv, StillAnnounced
  <2>. QED
    BY <1>2, <1>3, <2>12 DEF UpdaterInv
<1>. QED
  BY <1>4, <1>5 DEF FetchCurrentVersion

LEMMA AssignKeeps ==
    ASSUME UpdaterInv, NEW u \in Updaters, NEW v \in Updaters, AssignUpdater(u, v)
    PROVE  UpdaterInv'
<1>1. /\ ListInv' /\ UNCHANGED <<releases, published, inOrder>>
  BY DEF AssignUpdater, UpdaterInv, ListInv
<1>2. OrderInv'
  BY <1>1 DEF UpdaterInv, OrderInv
<1>3. LatestInv'
  BY <1>1 DEF AssignUpdater, UpdaterInv, LatestInv, StillAnnounced
<1>. QED
  BY <1>1, <1>2, <1>3 DEF UpdaterInv

LEMMA UpdaterStepKeeps == UpdaterInv /\ [UpdaterNext]_updaterVars => UpdaterInv'
<1> SUFFICES ASSUME UpdaterInv, [UpdaterNext]_updaterVars PROVE UpdaterInv'
  OBVIOUS
<1>1. CASE UNCHANGED <<releases, published, inOrder, latest, fetched>>
  BY <1>1 DEF UpdaterInv, ListInv, OrderInv, LatestInv, StillAnnounced
<1>2. DOMAIN releases = 1..Len(releases)
  BY DEF UpdaterInv, ListInv
<1>. QED
  BY <1>1, <1>2, PublishKeeps, WithdrawKeeps, FetchKeeps, AssignKeeps
     DEF UpdaterNext, DownloadUpdate, updaterVars

LEMMA NewestAnnounced == UpdaterInv => AnnouncesNewest
<1> SUFFICES ASSUME UpdaterInv PROVE AnnouncesNewest
  OBVIOUS
<1>0. ListInv /\ DOMAIN releases = 1..Len(releases) /\ Len(releases) \in Nat
  BY DEF UpdaterInv, ListInv
<1>1. ASSUME ~TwoPrereleasesFirst, \A i \in 1..Len(releases) : releases[i].tag # Zero
      PROVE  FirstOther = {i \in StableReleases : \A j \in StableReleases : i <= j}
  <2>1. CASE releases = <<>>
    BY <1>0, <1>1, <2>1, FirstsFound DEF StableReleases
  <2>2. CASE releases # <<>> /\ ~releases[1].prerelease
    <3>1. 1 \in StableReleases /\ \A j \in StableReleases : j \in Nat /\ 1 <= j
      BY <1>0, <2>2 DEF StableReleases
    <3>. QED
      BY <1>0, <1>1, <2>2, <3>1, FirstsFound
  <2>3. CASE releases # <<>> /\ releases[1].prerelease
    <3>1. 1 \notin StableReleases /\ \A j \in StableReleases : j \in 2..Len(releases)
      BY <1>0, <2>3 DEF StableReleases
    <3>2. Len(releases) >= 2 => 2 \in StableReleases
      BY <1>0, <1>1, <2>3 DEF StableReleases, TwoPrereleasesFirst
    <3>. QED
      BY <1>0, <1>1, <2>3, <3>1, <3>2, FirstsFound
  <2>. QED
    BY <2>1, <2>2, <2>3
<1>2. Answer("Stable") = FirstOther
  BY DEF Answer
<1>. QED
  BY <1>0, <1>1, <1>2, FirstIsNewest DEF AnnouncesNewest

\* What has the announced id or a higher one was not published before, and is not
\* older if tags descend as ids do.
LEMMA DownloadIsNotOlder ==
    ASSUME UpdaterInv, NEW u \in Updaters, NEW type \in VersionType, DownloadUpdate(u, type)
    PROVE  DownloadsAnnounced(u, type)
<1> SUFFICES ASSUME NEW i \in DOMAIN releases, NEW j \in DOMAIN releases,
                    StillAnnounced(u, type, i), releases[j].id = target'
             PROVE  /\ type = "Stable" => releases[j].id >= releases[i].id
                    /\ inOrder => ~Less(releases[j].tag, releases[i].tag)
  BY DEF DownloadsAnnounced
<1>1. /\ DOMAIN releases = 1..Len(releases) /\ Len(releases) \in Nat
      /\ releases[i].id \in Nat /\ releases[j].id \in Nat \ {0}
  BY ListFacts DEF UpdaterInv
<1>2. target' = latest[u][type]
  BY <1>1 DEF DownloadUpdate, NoFile
<1>3. type = "Stable" \/ inOrder => fetched[u][type] <= latest[u][type]
  BY <1>1 DEF UpdaterInv, LatestInv, VersionType
<1>4. type = "Stable" \/ inOrder => releases[j].id >= releases[i].id
  BY <1>1, <1>2, <1>3 DEF StillAnnounced
<1>5. ASSUME inOrder PROVE ~Less(releases[j].tag, releases[i].tag)
  <2>1. releases[i].tag \in Versions /\ releases[j].tag \in Versions
    BY <1>1, <1>5, UpdaterAssumption DEF UpdaterInv, OrderInv
  <2>2. j = i \/ j < i
    BY <1>1, <1>4, <1>5 DEF UpdaterInv, ListInv
  <2>3. j < i => Less(releases[i].tag, releases[j].tag)
    BY <1>1, <1>5 DEF UpdaterInv, OrderInv
  <2>. QED
    BY <2>1, <2>2, <2>3, LessIsStrict
<1>. QED
  BY <1>4, <1>5

\* For any updaters, versions and number of releases: while the announced release
\* is listed, a stable download was not published before it; and of releases that
\* are published in the order of their versions (inOrder), updaters announce the
\* newest and download none that is older than what they announced, whatever is
\* withdrawn, fetched and copied in between. Of a preview out of order nothing is
\* said: there the download may be older.
THEOREM UpdatesCurrent == UpdaterSpec => UpdatesAreCurrent
<1>1. UpdaterInv /\ [UpdaterNext]_updaterVars =>
          [\A u \in Updaters, type \in VersionType :
              DownloadUpdate(u, type) => DownloadsAnnounced(u, type)]_updaterVars
  BY DownloadIsNotOlder
<1>. QED
  BY <1>1, UpdaterInitial, UpdaterStepKeeps, NewestAnnounced, PTL DEF UpdaterSpec, UpdatesAreCurrent

-----------------------------------------------------------------------------
(* PasswordGenerator. *)

\* The flags stay while a password is made, and it has only such characters.
PasswordInv ==
    /\ contentFlags \subseteq PasswordContent /\ password \in Seq(PasswordContent)
    /\ generating => \A i \in 1..Len(password) : password[i] \in contentFlags

LEMMA PasswordStepKeeps ==
    PasswordInv /\ [PasswordNext]_passwordVars =>
        PasswordInv' /\ [\A i \in DOMAIN password' : password'[i] \in contentFlags]_password
<1> SUFFICES ASSUME PasswordInv, [PasswordNext]_passwordVars
             PROVE  PasswordInv' /\ [\A i \in DOMAIN password' : password'[i] \in contentFlags]_password
  OBVIOUS
<1>1. CASE UNCHANGED passwordVars
  BY <1>1 DEF PasswordInv, passwordVars
<1>2. ASSUME NEW flags \in SUBSET PasswordContent, setContentFlags(flags)
      PROVE  PasswordInv' /\ UNCHANGED password
  BY <1>2 DEF PasswordInv, setContentFlags
<1>3. ASSUME NEW length, Begin(length)
      PROVE  PasswordInv' /\ password' = <<>>
  BY <1>3 DEF PasswordInv, Begin
<1>4. ASSUME NEW type \in DrawnTypes, DrawType(type)
      PROVE  PasswordInv' /\ \A i \in DOMAIN password' : password'[i] \in contentFlags
  <2>1. UNCHANGED <<contentFlags, generating>> /\ generating
    BY <1>4 DEF DrawType
  <2>2. CASE type \notin contentFlags
    <3>1. UNCHANGED password
      BY <1>4, <2>2 DEF DrawType
    <3>. QED
      BY <2>1, <3>1 DEF PasswordInv
  <2>3. CASE type \in contentFlags
    <3>1. password' = Append(password, type) /\ type \in PasswordContent
      BY <1>4, <2>3 DEF DrawType, PasswordInv
    <3>. QED
      BY <2>1, <2>3, <3>1 DEF PasswordInv
  <2>. QED
    BY <2>2, <2>3
<1>5. ASSUME Return PROVE PasswordInv' /\ UNCHANGED password
  BY <1>5 DEF PasswordInv, Return
<1>. QED
  BY <1>1, <1>2, <1>3, <1>4, <1>5 DEF PasswordNext, passwordVars

\* A password has characters of the flagged types only, whatever was flagged
\* before, for any length. That next() ends is left to the run: it takes chance.
THEOREM PasswordsFlagged == PasswordSpec => OnlyFlagged
<1>1. PasswordInit => PasswordInv
  BY DEF PasswordInit, PasswordInv
<1>. QED
  BY <1>1, PasswordStepKeeps, PTL DEF PasswordSpec, OnlyFlagged

-----------------------------------------------------------------------------
(* Credentials. *)

CredentialTypeOK ==
    /\ entries \subseteq Credential
    /\ secret \in [Programs -> Passwords \cup {NoPassword}]
    /\ updating \in [Programs -> Credential \cup {NoCredential}]

\* While nobody was misled, a program goes by a "not found" only while there is no
\* entry: what it creates replaces none.
MissingIsTrue == misled \/ missing = {} \/ entries = {}

CredentialInv == CredentialTypeOK /\ MissingIsTrue /\ SecretsAreHeld

LEMMA KeptCredential ==
    \A c \in Credential : Kept(c) \in Credential /\ Kept(c).password = c.password
BY DEF Kept, Credential

\* What is added is held then, and what was held still is, unless it was replaced.
LEMMA AddedHolds ==
    ASSUME entries \subseteq Credential, NEW c \in Credential, Added(c)
    PROVE  /\ entries' \subseteq Credential
           /\ \E e \in entries' : e.password = c.password
           /\ manager = "MacOS" \/ entries = {} => entries \subseteq entries'
BY KeptCredential DEF Added

LEMMA UpdatedIsTyped ==
    ASSUME entries \subseteq Credential, NEW c \in Credential, Updated(c)
    PROVE  entries' \subseteq Credential
BY KeptCredential DEF Updated

LEMMA CredentialStepKeeps ==
    CredentialInv /\ [CredentialsNext]_credentialVars => CredentialInv'
<1> SUFFICES ASSUME CredentialInv, [CredentialsNext]_credentialVars PROVE CredentialInv'
  OBVIOUS
<1> USE DEF CredentialInv, CredentialTypeOK, MissingIsTrue, SecretsAreHeld
<1>n. NoSecrets \in [Programs -> Passwords \cup {NoPassword}]
      /\ \A p \in Programs : NoSecrets[p] = NoPassword
  BY DEF NoSecrets
<1>1. ASSUME NEW c \in Credential, add(c) PROVE CredentialInv'
  <2>1. /\ Added(c) /\ entries' \subseteq Credential
        /\ manager = "MacOS" => entries \subseteq entries'
    BY <1>1, AddedHolds DEF add
  <2>2. CASE manager = "MacOS"
    BY <1>1, <2>1, <2>2 DEF add, Record
  <2>3. CASE manager # "MacOS"
    BY <1>1, <1>n, <2>1, <2>3 DEF add, Record, ByChoice
  <2>. QED
    BY <2>2, <2>3
<1>2. ASSUME NEW p \in Programs, NEW c \in Credential, Lookup(p, c) PROVE CredentialInv'
  BY <1>2 DEF Lookup
<1>3. ASSUME NEW p \in Programs, get(p) PROVE CredentialInv'
  <2>1. ASSUME NEW e \in entries, secret' = [secret EXCEPT ![p] = e.password], UNCHANGED missing
        PROVE  CredentialInv'
    <3>1. e.password \in Passwords \cup {NoPassword}
      BY DEF Credential
    <3>2. \A q \in Programs : secret'[q] = IF q = p THEN e.password ELSE secret[q]
      BY <2>1
    <3>. QED
      BY <1>3, <2>1, <3>1, <3>2 DEF get, Record
  <2>2. CASE missing' = missing \cup {p} /\ UNCHANGED secret
    BY <1>3, <2>2 DEF get, Record
  <2>. QED
    BY <1>3, <2>1, <2>2 DEF get
<1>4. ASSUME NEW p \in Programs, create(p) PROVE CredentialInv'
  <2>0. p \in missing /\ missing' = missing \ {p} /\ Record /\ UNCHANGED <<manager, updating>>
    BY <1>4 DEF create
  <2>1. ASSUME NEW w \in Passwords, Added([username |-> "default", password |-> w]),
               secret' = [secret EXCEPT ![p] = w]
        PROVE  CredentialInv'
    <3> DEFINE c == [username |-> "default", password |-> w]
    <3>1. c \in Credential /\ c.password = w
      BY DEF Credential
    <3> HIDE DEF c
    <3>2. /\ entries' \subseteq Credential /\ \E e \in entries' : e.password = w
          /\ manager = "MacOS" \/ entries = {} => entries \subseteq entries'
      BY <2>1, <3>1, AddedHolds DEF c
    <3>3. \A q \in Programs : secret'[q] = IF q = p THEN w ELSE secret[q]
      BY <2>1
    <3>4. ASSUME NEW q \in Programs, secret'[q] # NoPassword, misled' => manager = "MacOS"
          PROVE  \E e \in entries' : e.password = secret'[q]
      <4>1. CASE q = p
        BY <3>2, <3>3, <4>1
      <4>2. CASE q # p
        <5>1. \E e \in entries : e.password = secret[q]
          BY <2>0, <3>3, <3>4, <4>2 DEF Record
        <5>2. manager = "MacOS" \/ entries = {}
          BY <2>0, <3>4 DEF Record
        <5>. QED
          BY <3>2, <3>3, <4>2, <5>1, <5>2
      <4>. QED
        BY <4>1, <4>2
    <3>5. secret' \in [Programs -> Passwords \cup {NoPassword}]
      BY <2>1
    <3>. QED
      BY <2>0, <3>2, <3>4, <3>5 DEF Record
  <2>2. CASE UNCHANGED <<entries, secret>>
    BY <2>0, <2>2 DEF Record
  <2>. QED
    BY <1>4, <2>1, <2>2 DEF create
<1>5. ASSUME NEW p \in Programs, update(p) PROVE CredentialInv'
  <2>1. updating[p] \in Credential /\ UNCHANGED <<manager, missing>> /\ Record
        /\ updating' \in [Programs -> Credential \cup {NoCredential}]
    BY <1>5 DEF update
  <2>2. CASE Updated(updating[p]) /\ ByChoice
    <3>1. entries' \subseteq Credential
      BY <2>1, <2>2, UpdatedIsTyped
    <3>. QED
      BY <1>n, <2>1, <2>2, <3>1 DEF ByChoice, Record
  <2>3. CASE UNCHANGED <<entries, secret>>
    BY <2>1, <2>3 DEF Record
  <2>. QED
    BY <1>5, <2>2, <2>3 DEF update
<1>6. CASE remove
  BY <1>6, <1>n DEF remove, ByChoice
<1>7. ASSUME NEW p \in Programs, Exit(p) PROVE CredentialInv'
  <2>1. \A q \in Programs : secret'[q] = IF q = p THEN NoPassword ELSE secret[q]
    BY <1>7 DEF Exit
  <2>. QED
    BY <1>7, <2>1 DEF Exit
<1>8. CASE UNCHANGED credentialVars
  BY <1>8 DEF credentialVars
<1>. QED
  BY <1>1, <1>2, <1>3, <1>4, <1>5, <1>6, <1>7, <1>8 DEF CredentialsNext

\* For any number of programs, the password that a program was given is held until
\* it is changed by choice: on macOS always, elsewhere as long as no program went
\* by a "not found" when there was an entry.
THEOREM SecretsHeld == CredentialsSpec => []SecretsAreHeld
<1>1. CredentialsInit => CredentialInv
  BY DEF CredentialsInit, CredentialInv, CredentialTypeOK, MissingIsTrue, SecretsAreHeld, NoSecrets
<1>2. CredentialInv => SecretsAreHeld
  BY DEF CredentialInv
<1>. QED
  BY <1>1, <1>2, CredentialStepKeeps, PTL DEF CredentialsSpec

-----------------------------------------------------------------------------
(* ProcessUsage. *)

Times == 0..MaxTime

UsageTypeOK ==
    /\ systemTime \in Times /\ processTime \in Times
    /\ last \in [user : Times, system : Times]
    /\ call \in [UsageCallers -> [at : {"idle", "stat", "measure"}, user : Times, system : Times]]
    /\ deltas \in [user : Nat, system : Nat, gap : Nat]
    /\ gap \in [before : Nat, now : Nat]
    /\ overlapped \in BOOLEAN

\* The process has had at most the time since the system's was read last, and
\* what passed before that and after its own was read; each call in between
\* has read times that keep this true.
CallInv(c) ==
    /\ call[c].at # "idle" =>
          /\ last.user <= call[c].user /\ call[c].user <= processTime
    /\ call[c].at = "stat" =>
          /\ call[c].user + last.system + gap.now <= last.user + systemTime + gap.before
          /\ processTime <= call[c].user + gap.now
    /\ call[c].at = "measure" =>
          /\ last.system <= call[c].system /\ call[c].system <= systemTime
          /\ call[c].user + last.system + gap.now
                <= last.user + call[c].system + gap.before
          /\ processTime + call[c].system <= call[c].user + systemTime + gap.now

UsageInv ==
    /\ UsageTypeOK /\ UsageIsMeasured
    /\ processTime <= systemTime
    /\ ~overlapped =>
          /\ last.user <= processTime /\ last.system <= systemTime
          /\ \A c, d \in UsageCallers : call[c].at # "idle" /\ call[d].at # "idle" => c = d
          /\ (\A c \in UsageCallers : call[c].at = "idle") =>
                /\ gap.now = 0
                /\ processTime + last.system <= last.user + systemTime + gap.before
          /\ \A c \in UsageCallers : CallInv(c)

\* A difference of times that are in order does not wrap.
LEMMA NoWrap ==
    ASSUME NEW s \in Times, NEW t \in Times, s <= t
    PROVE  (t - s) % Width = t - s
BY UsageAssumption DEF Times

LEMMA DeltaIsNat == \A s, t \in Times : (t - s) % Width \in Nat
BY UsageAssumption DEF Times

LEMMA UsageInitial == UsageInit => UsageInv
<1> SUFFICES ASSUME UsageInit PROVE UsageInv
  OBVIOUS
<1>0. 0 \in Times
  BY UsageAssumption DEF Times
<1>1. UsageTypeOK
  BY <1>0 DEF UsageInit, UsageTypeOK, Idle
<1>. QED
  BY <1>1 DEF UsageInit, UsageInv, UsageIsMeasured, CallInv, Idle

LEMMA UsageTypeStep == UsageTypeOK /\ processTime <= systemTime /\ [UsageNext]_usageVars => UsageTypeOK'
<1> SUFFICES ASSUME UsageTypeOK, processTime <= systemTime, [UsageNext]_usageVars
             PROVE  UsageTypeOK'
  OBVIOUS
<1> USE DEF UsageTypeOK
<1>1. ASSUME NEW busy \in BOOLEAN, Tick(busy) PROVE UsageTypeOK'
  BY <1>1, UsageAssumption DEF Tick, Times
<1>2. ASSUME NEW c \in UsageCallers, ReadProc(c) PROVE UsageTypeOK'
  BY <1>2, UsageAssumption DEF ReadProc, Times
<1>3. ASSUME NEW c \in UsageCallers, ReadStat(c) PROVE UsageTypeOK'
  BY <1>3 DEF ReadStat
<1>4. ASSUME NEW c \in UsageCallers, Measure(c) PROVE UsageTypeOK'
  <2>1. deltas' \in [user : Nat, system : Nat, gap : Nat]
    BY <1>4, DeltaIsNat DEF Measure
  <2>2. Idle \in [at : {"idle", "stat", "measure"}, user : Times, system : Times]
    BY UsageAssumption DEF Idle, Times
  <2>. QED
    BY <1>4, <2>1, <2>2 DEF Measure
<1>5. CASE UNCHANGED usageVars
  BY <1>5 DEF usageVars
<1>. QED
  BY <1>1, <1>2, <1>3, <1>4, <1>5 DEF UsageNext

LEMMA UsageStepKeeps == UsageInv /\ [UsageNext]_usageVars => UsageInv'
<1> SUFFICES ASSUME UsageInv, [UsageNext]_usageVars PROVE UsageInv'
  OBVIOUS
<1>0. UsageTypeOK /\ UsageTypeOK'
  BY UsageTypeStep DEF UsageInv
<1> USE DEF UsageInv, UsageIsMeasured, CallInv
<1>1. ASSUME NEW busy \in BOOLEAN, Tick(busy) PROVE UsageInv'
  BY <1>0, <1>1, UsageAssumption DEF Tick, UsageTypeOK, Times
<1>2. ASSUME NEW c \in UsageCallers, ReadProc(c) PROVE UsageInv'
  <2>1. CASE overlapped'
    BY <1>0, <1>2, <2>1 DEF ReadProc
  <2>2. CASE ~overlapped'
    <3>1. ~overlapped /\ \A d \in UsageCallers : call[d].at = "idle"
      BY <1>0, <1>2, <2>2 DEF ReadProc, UsageTypeOK
    <3>2. /\ call'[c] = [at |-> "stat", user |-> processTime, system |-> 0]
          /\ \A d \in UsageCallers \ {c} : call'[d].at = "idle"
      BY <1>0, <1>2, <3>1 DEF ReadProc, UsageTypeOK
    <3>3. CallInv(c)'
      BY <1>0, <1>2, <3>1, <3>2, UsageAssumption DEF ReadProc, UsageTypeOK, Times
    <3>. QED
      BY <1>0, <1>2, <2>2, <3>1, <3>2, <3>3 DEF ReadProc
  <2>. QED
    BY <1>0, <2>1, <2>2 DEF UsageTypeOK
<1>3. ASSUME NEW c \in UsageCallers, ReadStat(c) PROVE UsageInv'
  BY <1>0, <1>3, UsageAssumption DEF ReadStat, UsageTypeOK, Times
<1>4. ASSUME NEW c \in UsageCallers, Measure(c) PROVE UsageInv'
  <2>1. CASE overlapped
    BY <1>0, <1>4, <2>1 DEF Measure
  <2>2. CASE ~overlapped
    <3>1. /\ deltas'.user = call[c].user - last.user
          /\ deltas'.system = call[c].system - last.system
          /\ deltas'.gap = gap.before
      BY <1>0, <1>4, <2>2, NoWrap DEF Measure, UsageTypeOK
    <3>2. \A d \in UsageCallers : call'[d].at = "idle"
      BY <1>0, <1>4, <2>2 DEF Measure, UsageTypeOK, Idle
    <3>3. UsageIsMeasured'
      BY <1>0, <1>4, <2>2, <3>1, UsageAssumption DEF Measure, UsageTypeOK, Times
    <3>. QED
      BY <1>0, <1>4, <2>2, <3>2, <3>3, UsageAssumption DEF Measure, UsageTypeOK, Times, Idle
  <2>. QED
    BY <2>1, <2>2
<1>5. CASE UNCHANGED usageVars
  BY <1>0, <1>5 DEF usageVars
<1>. QED
  BY <1>1, <1>2, <1>3, <1>4, <1>5 DEF UsageNext

\* As long as no call of getCPUUsage() overlaps another, the process is given
\* no more time than passed, but for what passed between the two readings of
\* the call before, and no difference wraps.
THEOREM UsageMeasured == UsageSpec => []UsageIsMeasured
<1>1. UsageInv => UsageIsMeasured
  BY DEF UsageInv
<1>. QED
  BY <1>1, UsageInitial, UsageStepKeeps, PTL DEF UsageSpec

-----------------------------------------------------------------------------
(* Base 64. *)

\* Three bytes come back from their digits, none of which looks like a pad; of
\* the first byte or two only the digits before the pads are needed.
GroupComesBack(b1, b2, b3) ==
    LET d == DigitsOf(b1, b2, b3) IN
    /\ \A k \in {1, 2, 3, 4} : d[k] \in 0..63
    /\ \A x, y \in Int : /\ BytesOf(d[1], d[2], x, y)[1] = b1
                         /\ BytesOf(x, d[2], d[3], y)[2] = b2
                         /\ BytesOf(x, y, d[3], d[4])[3] = b3

LEMMA GroupsComeBack ==
    ASSUME NEW b1 \in ByteValues, NEW b2 \in ByteValues, NEW b3 \in ByteValues
    PROVE  GroupComesBack(b1, b2, b3)
<1> DEFINE d1 == b1 \div 4
           d2 == (b1 % 4) * 16 + b2 \div 16
           d3 == (b2 % 16) * 4 + b3 \div 64
           d4 == b3 % 64
<1>1. DigitsOf(b1, b2, b3) = <<d1, d2, d3, d4>>
  BY DEF DigitsOf
<1>2. d1 \in 0..63 /\ d2 \in 0..63 /\ d3 \in 0..63 /\ d4 \in 0..63
  BY DEF ByteValues
<1>3. /\ (d1 % 64) * 4 + (d2 % 64) \div 16 = b1
      /\ (d2 % 16) * 16 + (d3 % 64) \div 4 = b2
      /\ (d3 % 4) * 64 + (d4 % 64) = b3
  BY DEF ByteValues
<1> HIDE DEF d1, d2, d3, d4
<1>4. \A x, y \in Int : BytesOf(d1, d2, x, y)[1] = b1
  BY <1>3 DEF BytesOf
<1>5. \A x, y \in Int : BytesOf(x, d2, d3, y)[2] = b2
  BY <1>3 DEF BytesOf
<1>6. \A x, y \in Int : BytesOf(x, y, d3, d4)[3] = b3
  BY <1>3 DEF BytesOf
<1>. QED
  BY <1>1, <1>2, <1>4, <1>5, <1>6 DEF GroupComesBack

\* The digits of an encoded text: its first are no pads, the missing ones are.
LEMMA EncodedDigits ==
    ASSUME NEW n \in Nat, NEW bytes \in [1..n -> ByteValues]
    PROVE  /\ Len(Encode(bytes)) = 4 * Groups(bytes) /\ Groups(bytes) \in Nat
           /\ n <= 3 * Groups(bytes) /\ 3 * Groups(bytes) <= n + 2
           /\ \A i \in 1..4 * Groups(bytes) :
                 /\ Encode(bytes)[i] \in Int
                 /\ Encode(bytes)[i] = Pad <=> i > Groups(bytes) + n
                 /\ i <= Groups(bytes) + n => Encode(bytes)[i] = Digit(bytes, i)
<1> DEFINE g == Groups(bytes)
<1>1. Len(bytes) = n /\ bytes \in Seq(ByteValues)
  OBVIOUS
<1>2. g \in Nat /\ n <= 3 * g /\ 3 * g <= n + 2
  BY <1>1 DEF Groups
<1> HIDE DEF g
<1>3. \A i \in Nat \ {0} : Byte(bytes, i) \in ByteValues
  BY <1>1 DEF Byte, ByteValues
<1>4. ASSUME NEW i \in 1..4 * g PROVE Digit(bytes, i) \in 0..63
  <2> DEFINE index == 3 * ((i - 1) \div 4)
             b1 == Byte(bytes, index + 1)  b2 == Byte(bytes, index + 2)
             b3 == Byte(bytes, index + 3)
  <2>1. index \in Nat /\ ((i - 1) % 4) + 1 \in {1, 2, 3, 4}
    BY <1>2
  <2>2. Digit(bytes, i) = DigitsOf(b1, b2, b3)[((i - 1) % 4) + 1]
    BY DEF Digit
  <2>3. b1 \in ByteValues /\ b2 \in ByteValues /\ b3 \in ByteValues
    BY <1>3, <2>1
  <2> HIDE DEF index, b1, b2, b3
  <2>4. \A k \in {1, 2, 3, 4} : DigitsOf(b1, b2, b3)[k] \in 0..63
    BY <2>3, GroupsComeBack DEF GroupComesBack
  <2>. QED
    BY <2>1, <2>2, <2>4
<1>5. Encode(bytes) = [i \in 1..4 * g |-> IF i > g + n THEN Pad ELSE Digit(bytes, i)]
  <2>1. \A i \in 1..4 * g : i > 4 * g - (3 * g - n) <=> i > g + n
    BY <1>2
  <2>. QED
    BY <1>1, <2>1 DEF Encode, g
<1>6. Len(Encode(bytes)) = 4 * g
  BY <1>2, <1>5
<1>7. ASSUME NEW i \in 1..4 * g
      PROVE  /\ Encode(bytes)[i] \in Int
             /\ Encode(bytes)[i] = Pad <=> i > g + n
             /\ i <= g + n => Encode(bytes)[i] = Digit(bytes, i)
  <2>1. Encode(bytes)[i] = IF i > g + n THEN Pad ELSE Digit(bytes, i)
    BY <1>5
  <2>2. Digit(bytes, i) \in 0..63 /\ i \in Int /\ g + n \in Int
    BY <1>2, <1>4
  <2>3. CASE i > g + n
    <3>1. Encode(bytes)[i] = Pad /\ Pad \in Int
      BY <2>1, <2>3 DEF Pad
    <3>2. ~(i <= g + n)
      BY <1>2, <2>3
    <3>. QED
      BY <2>3, <3>1, <3>2
  <2>4. CASE ~(i > g + n)
    <3>1. Encode(bytes)[i] = Digit(bytes, i)
      BY <2>1, <2>4
    <3>2. \A d \in 0..63 : d # Pad /\ d \in Int
      BY DEF Pad
    <3>3. Digit(bytes, i) # Pad /\ Digit(bytes, i) \in Int
      BY <1>4, <3>2, Zenon
    <3>. QED
      BY <2>4, <3>1, <3>3
  <2>. QED
    BY <2>3, <2>4
<1>. QED
  BY <1>2, <1>6, <1>7 DEF g

LEMMA Thirds ==
    ASSUME NEW i \in Nat \ {0}
    PROVE  LET q == (i - 1) \div 3 IN
           /\ q \in Nat
           /\ \/ i = 3 * q + 1 /\ (i - 1) % 3 = 0
              \/ i = 3 * q + 2 /\ (i - 1) % 3 = 1
              \/ i = 3 * q + 3 /\ (i - 1) % 3 = 2
OBVIOUS

\* decode() undoes encode(), whatever the bytes and how many there are.
THEOREM Base64Kept ==
    /\ Base64RoundTrips
    /\ \A n \in Nat : \A bytes \in [1..n -> ByteValues] : Decode(Encode(bytes)) = bytes
<1>1. ASSUME NEW n \in Nat, NEW bytes \in [1..n -> ByteValues]
      PROVE  Decode(Encode(bytes)) = bytes
  <2> DEFINE e == Encode(bytes)  g == Groups(bytes)
             kept == {i \in 1..3 * (Len(e) \div 4) : e[LastDigit(i)] # Pad}
             nth(j) == CHOOSE i \in kept : Cardinality({h \in kept : h <= i}) = j
  <2>1. /\ Len(e) = 4 * g /\ g \in Nat /\ n <= 3 * g /\ 3 * g <= n + 2
        /\ \A i \in 1..4 * g : /\ e[i] \in Int
                               /\ e[i] = Pad <=> i > g + n
                               /\ i <= g + n => e[i] = Digit(bytes, i)
    BY EncodedDigits
  <2>2. DOMAIN e = 1..4 * g /\ Len(bytes) = n
    BY <2>1 DEF Encode
  <2> HIDE DEF e, g
  <2>3. CASE n = 0
    <3>1. g = 0 /\ DOMAIN e = {}
      BY <2>1, <2>2, <2>3
    <3>2. e = <<>>
      BY <3>1 DEF e, Encode
    <3>3. bytes = <<>>
      BY <2>3
    <3>. QED
      BY <3>2, <3>3 DEF Decode, e
  <2>4. CASE n # 0
    <3>1. e # <<>> /\ Len(e) % 4 = 0 /\ Len(e) \div 4 = g
      BY <2>1, <2>2, <2>4
    <3>2. kept = 1..n
      <4>1. ASSUME NEW i \in 1..3 * g
            PROVE  LastDigit(i) \in 1..4 * g /\ (LastDigit(i) > g + n <=> i > n)
        <5> DEFINE q == (i - 1) \div 3
        <5>1. /\ q \in Nat
              /\ \/ i = 3 * q + 1 /\ (i - 1) % 3 = 0
                 \/ i = 3 * q + 2 /\ (i - 1) % 3 = 1
                 \/ i = 3 * q + 3 /\ (i - 1) % 3 = 2
          BY <2>1, Thirds
        <5>2. LastDigit(i) = 4 * q + ((i - 1) % 3) + 2
          BY DEF LastDigit
        <5> HIDE DEF q
        <5>3. LastDigit(i) = i + q + 1
          BY <5>1, <5>2
        <5>4. i \in Nat /\ i >= 1 /\ i <= 3 * g /\ n \in Nat
          BY <2>1
        <5>5. q < g
          BY <2>1, <5>1, <5>4
        <5>6. LastDigit(i) \in 1..4 * g
          BY <2>1, <5>1, <5>3, <5>4, <5>5
        <5>7. i > n => q = g - 1
          BY <2>1, <5>1, <5>4, <5>5
        <5>. QED
          BY <2>1, <5>1, <5>3, <5>4, <5>5, <5>6, <5>7
      <4>2. \A i \in 1..3 * g : e[LastDigit(i)] # Pad <=> i \in 1..n
        BY <2>1, <4>1
      <4>3. 1..n \subseteq 1..3 * g
        BY <2>1
      <4>4. kept = {i \in 1..3 * g : e[LastDigit(i)] # Pad}
        BY <3>1
      <4> HIDE DEF kept
      <4>5. \A i : i \in kept <=> i \in 1..n
        BY <4>2, <4>3, <4>4
      <4>. QED
        BY <4>5
    <3>5. Decode(e) = [j \in 1..Cardinality(kept) |-> Decoded(e, nth(j))]
      BY <3>1 DEF Decode
    <3>6. \A j : nth(j) = CHOOSE i \in kept : Cardinality({h \in kept : h <= i}) = j
      OBVIOUS
    <3> HIDE DEF kept, nth
    <3>3. Cardinality(kept) = n
      BY <3>2, FS_Interval
    <3>4. ASSUME NEW j \in 1..n PROVE nth(j) = j
      <4>1. \A i \in 1..n : {h \in 1..n : h <= i} = 1..i /\ Cardinality(1..i) = i
        BY FS_Interval
      <4>2. \A i \in kept : Cardinality({h \in kept : h <= i}) = i
        BY <3>2, <4>1
      <4>. QED
        BY <3>2, <3>6, <4>2
    <3>7. ASSUME NEW i \in 1..n PROVE Decoded(e, i) = bytes[i]
      <4> DEFINE q == (i - 1) \div 3
                 b1 == Byte(bytes, 3 * q + 1)  b2 == Byte(bytes, 3 * q + 2)
                 b3 == Byte(bytes, 3 * q + 3)
      <4>0. /\ q \in Nat
            /\ \/ i = 3 * q + 1 /\ (i - 1) % 3 = 0
               \/ i = 3 * q + 2 /\ (i - 1) % 3 = 1
               \/ i = 3 * q + 3 /\ (i - 1) % 3 = 2
        BY Thirds
      <4>6. Decoded(e, i) = BytesOf(e[4 * q + 1], e[4 * q + 2], e[4 * q + 3], e[4 * q + 4])
                                [((i - 1) % 3) + 1]
        BY DEF Decoded
      <4> HIDE DEF q
      <4>1. /\ q < g
            /\ \A k \in {1, 2, 3, 4} : 4 * q + k \in 1..4 * g
            /\ i = 3 * q + 1 => 4 * q + 2 <= g + n
            /\ i = 3 * q + 2 => 4 * q + 3 <= g + n
            /\ i = 3 * q + 3 => 4 * q + 4 <= g + n
        <5>1. i \in Nat /\ i >= 1 /\ i <= n /\ i <= 3 * g
          BY <2>1
        <5>2. q < g
          BY <2>1, <4>0, <5>1
        <5>. QED
          BY <2>1, <4>0, <5>1, <5>2
      <4>2. \A k \in {1, 2, 3, 4} : /\ (4 * q + k) - 1 = 4 * q + (k - 1)
                                    /\ (4 * q + (k - 1)) \div 4 = q /\ (4 * q + (k - 1)) % 4 = k - 1
        BY <4>0
      <4>3. ASSUME NEW k \in {1, 2, 3, 4}
            PROVE  Digit(bytes, 4 * q + k) = DigitsOf(b1, b2, b3)[k]
        <5>1. ((4 * q + k) - 1) \div 4 = q /\ (((4 * q + k) - 1) % 4) + 1 = k
          BY <4>0, <4>2
        <5>. QED
          BY <5>1, Zenon DEF Digit
      <4>4. \A k \in Nat \ {0} : Byte(bytes, k) \in ByteValues /\ (k <= n => Byte(bytes, k) = bytes[k])
        BY <2>2 DEF Byte, ByteValues
      <4>5. b1 \in ByteValues /\ b2 \in ByteValues /\ b3 \in ByteValues
        BY <4>0, <4>4
      <4>7. \A k \in {1, 2, 3, 4} : /\ e[4 * q + k] \in Int
                                    /\ 4 * q + k <= g + n => e[4 * q + k] = DigitsOf(b1, b2, b3)[k]
        BY <2>1, <4>1, <4>3
      <4>8. /\ i = 3 * q + 1 => bytes[i] = b1
            /\ i = 3 * q + 2 => bytes[i] = b2
            /\ i = 3 * q + 3 => bytes[i] = b3
        <5>1. i \in Nat \ {0} /\ i <= n
          OBVIOUS
        <5>2. bytes[i] = Byte(bytes, i)
          BY <4>4, <5>1
        <5>. QED
          BY <5>2
      <4> HIDE DEF b1, b2, b3
      <4>9. \A k \in {1, 2, 3, 4} : e[4 * q + k] \in Int
        BY <2>1, <4>1
      <4>10. GroupComesBack(b1, b2, b3)
        BY <4>5, GroupsComeBack
      <4>11. CASE i = 3 * q + 1
        <5>1. e[4 * q + 1] = DigitsOf(b1, b2, b3)[1] /\ e[4 * q + 2] = DigitsOf(b1, b2, b3)[2]
          BY <2>1, <4>0, <4>1, <4>7, <4>11
        <5>2. ((i - 1) % 3) + 1 = 1
          BY <4>0, <4>11
        <5>. QED
          BY <4>6, <4>8, <4>9, <4>10, <4>11, <5>1, <5>2 DEF GroupComesBack
      <4>12. CASE i = 3 * q + 2
        <5>1. e[4 * q + 2] = DigitsOf(b1, b2, b3)[2] /\ e[4 * q + 3] = DigitsOf(b1, b2, b3)[3]
          BY <2>1, <4>0, <4>1, <4>7, <4>12
        <5>2. ((i - 1) % 3) + 1 = 2
          BY <4>0, <4>12
        <5>. QED
          BY <4>6, <4>8, <4>9, <4>10, <4>12, <5>1, <5>2 DEF GroupComesBack
      <4>13. CASE i = 3 * q + 3
        <5>1. e[4 * q + 3] = DigitsOf(b1, b2, b3)[3] /\ e[4 * q + 4] = DigitsOf(b1, b2, b3)[4]
          BY <2>1, <4>0, <4>1, <4>7, <4>13
        <5>2. ((i - 1) % 3) + 1 = 3
          BY <4>0, <4>13
        <5>. QED
          BY <4>6, <4>8, <4>9, <4>10, <4>13, <5>1, <5>2 DEF GroupComesBack
      <4>. QED
        BY <4>0, <4>11, <4>12, <4>13
    <3>. QED
      BY <3>3, <3>4, <3>5, <3>7 DEF e
  <2>. QED
    BY <2>3, <2>4
<1>2. ASSUME NEW n \in 0..MaxBytes, NEW bytes \in [1..n -> Bytes]
      PROVE  n \in Nat /\ bytes \in [1..n -> ByteValues]
  BY Base64Assumption
<1>. QED
  BY <1>1, <1>2 DEF Base64RoundTrips

-----------------------------------------------------------------------------
(* Addresses. *)

\* Of a byte the digits are read as the byte.
LEMMA DigitsAreRead ==
    \A n \in 0..255 :
        /\ ReadNumber(Decimal(n), 10) = n /\ ReadNumber(Hexadecimal(n), 16) = n
        /\ IsByte(n)
<1> TAKE n \in 0..255
<1>1. ReadNumber(Decimal(n), 10) = n
  <2>1. PICK q \in 0..9, r \in 0..9, d \in 0..9 : n = q * 100 + r * 10 + d
    OBVIOUS
  <2>2. n \div 100 = q /\ (n \div 10) % 10 = r /\ n % 10 = d /\ (q = 0 => n \div 10 = r)
    <3>1. \A u \in 0..9 : \A v \in 0..9 : \A w \in 0..9 :
              /\ (u * 100 + v * 10 + w) \div 100 = u
              /\ ((u * 100 + v * 10 + w) \div 10) % 10 = v
              /\ (u * 100 + v * 10 + w) % 10 = w
              /\ u = 0 => (u * 100 + v * 10 + w) \div 10 = v
      OBVIOUS
    <3>. QED
      BY <2>1, <3>1
  <2>3. CASE n < 10
    BY <2>3 DEF ReadNumber, Decimal
  <2>4. CASE ~(n < 10) /\ n < 100
    <3>1. Decimal(n) = <<r, d>> /\ n = r * 10 + d
      BY <2>1, <2>2, <2>4 DEF Decimal
    <3>. QED
      BY <3>1 DEF ReadNumber
  <2>5. CASE ~(n < 10) /\ ~(n < 100)
    <3>1. Decimal(n) = <<q, r, d>> /\ n = (q * 10 + r) * 10 + d
      BY <2>1, <2>2, <2>5 DEF Decimal
    <3>. QED
      BY <3>1 DEF ReadNumber
  <2>. QED
    BY <2>3, <2>4, <2>5
<1>2. ReadNumber(Hexadecimal(n), 16) = n
  <2>1. PICK q \in 0..15, r \in 0..15 : n = q * 16 + r
    OBVIOUS
  <2>2. \A u \in 0..15 : \A v \in 0..15 : (u * 16 + v) \div 16 = u /\ (u * 16 + v) % 16 = v
    OBVIOUS
  <2>3. Hexadecimal(n) = <<q, r>>
    BY <2>1, <2>2 DEF Hexadecimal
  <2>. QED
    BY <2>1, <2>3 DEF ReadNumber
<1>. QED
  BY <1>1, <1>2 DEF IsByte

\* A text whose parts are read as the bytes of an address is parsed as the address.
LEMMA TextIsParsed ==
    ASSUME NEW n \in Nat, NEW a \in [1..n -> 0..255], NEW base,
           NEW text, DOMAIN text = 1..n, Len(text) = n,
           \A i \in 1..n : ReadNumber(text[i], base) = a[i]
    PROVE  Parsed(text, base, n) = a
<1> DEFINE numbers == [i \in DOMAIN text |-> ReadNumber(text[i], base)]
<1>1. numbers = a
  OBVIOUS
<1>2. \A i \in 1..n : IsByte(numbers[i])
  BY <1>1, DigitsAreRead
<1> HIDE DEF numbers
<1>. QED
  BY <1>1, <1>2 DEF Parsed, numbers

\* An address is what comes back from its number and from its text, for all bytes.
THEOREM AddressesKept ==
    /\ AddressesRoundTrip
    /\ \A a \in [1..4 -> 0..255] :
          FromLong(getNetworkByteOrder(a)) = a /\ ParseIPv4(StrIPv4(a)) = a
    /\ \A a \in [1..6 -> 0..255] : ParseMac(StrMac(a)) = a
<1>1. ASSUME NEW a \in [1..4 -> 0..255] PROVE FromLong(getNetworkByteOrder(a)) = a
  <2>1. /\ a[1] \in 0..255 /\ a[2] \in 0..255 /\ a[3] \in 0..255 /\ a[4] \in 0..255
        /\ \A b \in 0..255 : \E c \in 0..255 : c = b
    OBVIOUS
  <2>w. PICK w \in 0..255 : w = a[1]
    BY <2>1
  <2>x. PICK x \in 0..255 : x = a[2]
    BY <2>1
  <2>y. PICK y \in 0..255 : y = a[3]
    BY <2>1
  <2>z. PICK z \in 0..255 : z = a[4]
    BY <2>1
  <2>2. PICK n \in Nat : n = w * (256 * 256 * 256) + x * (256 * 256) + y * 256 + z
    OBVIOUS
  <2>3. /\ (n \div (256 * 256 * 256)) % 256 = w /\ (n \div (256 * 256)) % 256 = x
        /\ (n \div 256) % 256 = y /\ (n \div 1) % 256 = z
    <3>1. \A q \in Nat : \A r \in 0..255 : (q * 256 + r) \div 256 = q /\ (q * 256 + r) % 256 = r
      OBVIOUS
    <3>2. \A q, r \in Nat : r < 256 * 256 => (q * (256 * 256) + r) \div (256 * 256) = q
      OBVIOUS
    <3>3. \A q, r \in Nat :
              r < 256 * 256 * 256 => (q * (256 * 256 * 256) + r) \div (256 * 256 * 256) = q
      OBVIOUS
    <3>4. PICK q2 \in Nat : q2 = w * 256 + x
      OBVIOUS
    <3>5. PICK q3 \in Nat : q3 = q2 * 256 + y
      OBVIOUS
    <3>6. PICK r1 \in Nat : r1 < 256 * 256 * 256 /\ r1 = x * (256 * 256) + y * 256 + z
      OBVIOUS
    <3>7. PICK r2 \in Nat : r2 < 256 * 256 /\ r2 = y * 256 + z
      OBVIOUS
    <3>8. n = w * (256 * 256 * 256) + r1 /\ n = q2 * (256 * 256) + r2 /\ n = q3 * 256 + z
      BY <2>2, <3>4, <3>5, <3>6, <3>7
    <3>9. n \div (256 * 256 * 256) = w /\ n \div (256 * 256) = q2 /\ n \div 256 = q3
      <4>1. n \div (256 * 256 * 256) = w
        BY <3>3, <3>6, <3>8
      <4>2. n \div (256 * 256) = q2
        BY <3>2, <3>7, <3>8
      <4>3. n \div 256 = q3
        BY <3>1, <3>8
      <4>. QED
        BY <4>1, <4>2, <4>3
    <3>10. w % 256 = w /\ q2 % 256 = x /\ q3 % 256 = y /\ n % 256 = z
      <4>1. q2 % 256 = x
        BY <3>4
      <4>2. q3 % 256 = y
        BY <3>5
      <4>3. n % 256 = z
        BY <3>8
      <4>. QED
        BY <4>1, <4>2, <4>3
    <3>11. n \div 1 = n
      OBVIOUS
    <3>. QED
      BY <3>9, <3>10, <3>11
  <2>4. \A i \in 1..4 : Octet(n, i) = a[i]
    BY <2>3, <2>w, <2>x, <2>y, <2>z DEF Octet, Weight
  <2>5. getNetworkByteOrder(a) = n
    BY <2>2, <2>w, <2>x, <2>y, <2>z DEF getNetworkByteOrder, Weight
  <2>. QED
    BY <2>4, <2>5 DEF FromLong
<1>2. ASSUME NEW a \in [1..4 -> 0..255] PROVE ParseIPv4(StrIPv4(a)) = a
  <2>1. \A i \in 1..4 : ReadNumber(StrIPv4(a)[i], 10) = a[i]
    BY DigitsAreRead DEF StrIPv4
  <2>2. Parsed(StrIPv4(a), 10, 4) = a
    <3>1. DOMAIN StrIPv4(a) = 1..4 /\ Len(StrIPv4(a)) = 4
      BY DEF StrIPv4
    <3>. QED
      BY <2>1, <3>1, TextIsParsed
  <2>3. StrIPv4(a) # Localhost
    <3>1. DOMAIN StrIPv4(a) = 1..4 /\ 1 \in 1..4 /\ DOMAIN Localhost = {}
      BY DEF StrIPv4, Localhost
    <3>. QED
      BY <3>1
  <2>. QED
    BY <2>2, <2>3 DEF ParseIPv4
<1>3. ASSUME NEW a \in [1..6 -> 0..255] PROVE ParseMac(StrMac(a)) = a
  <2>1. \A i \in 1..6 : ReadNumber(StrMac(a)[i], 16) = a[i]
    BY DigitsAreRead DEF StrMac
  <2>2. DOMAIN StrMac(a) = 1..6 /\ Len(StrMac(a)) = 6
    BY DEF StrMac
  <2>. QED
    <3>1. Parsed(StrMac(a), 16, 6) = a
      BY <2>1, <2>2, TextIsParsed
    <3>. QED
      BY <3>1 DEF ParseMac
<1>4. /\ \A a \in [1..4 -> Octets] : a \in [1..4 -> 0..255]
      /\ \A a \in [1..6 -> Octets] : a \in [1..6 -> 0..255]
  BY AddressAssumption
<1>. QED
  BY <1>1, <1>2, <1>3, <1>4 DEF AddressesRoundTrip

-----------------------------------------------------------------------------
(* WindowGeometry. *)

\* A geometry comes back from its JSON, and a value that is missing there or of
\* another kind is replaced by its default alone, whatever the numbers are.
THEOREM GeometriesKept == GeometryRoundTrips
<1> SUFFICES ASSUME NEW g \in Geometries
             PROVE  /\ FromJson(Json(g)) = g
                    /\ \A lost \in SUBSET DOMAIN g, other \in DOMAIN g :
                          FromJson([key \in DOMAIN g \ lost |->
                                       IF key = other THEN [kind |-> "string", is |-> "text"]
                                       ELSE Json(g)[key]])
                              = [key \in DOMAIN g |->
                                    IF key \in lost \cup {other} THEN Default[key] ELSE g[key]]
  BY DEF GeometryRoundTrips
<1> DEFINE keys == {"Width", "Height", "IsMaximized", "X", "Y"}
           Kind(key) == IF key = "IsMaximized" THEN "bool" ELSE "int64"
<1>1. DOMAIN g = keys /\ g = [key \in keys |-> g[key]]
  BY DEF Geometries
<1>2. DOMAIN Default = keys
  BY DEF Default
<1> HIDE DEF keys
<1>3. /\ Json(g) = [key \in keys |-> [kind |-> Kind(key), is |-> g[key]]]
      /\ Json(Default) = [key \in keys |-> [kind |-> Kind(key), is |-> Default[key]]]
  BY <1>1, <1>2 DEF Json
<1>4. \A key \in keys : /\ Json(g)[key].kind = Kind(key) /\ Json(g)[key].is = g[key]
                        /\ Json(Default)[key].kind = Kind(key)
  BY <1>3
<1>5. \A key : Kind(key) # "string"
  OBVIOUS
<1> HIDE DEF Kind
<1>6. FromJson(Json(g)) = g
  <2>1. DOMAIN Json(g) = keys
    BY <1>3
  <2>2. FromJson(Json(g)) = [key \in keys |-> g[key]]
    BY <1>2, <1>4, <2>1 DEF FromJson
  <2>. QED
    BY <1>1, <2>2
<1>7. ASSUME NEW lost \in SUBSET keys, NEW other \in keys
      PROVE  FromJson([key \in keys \ lost |->
                          IF key = other THEN [kind |-> "string", is |-> "text"] ELSE Json(g)[key]])
                 = [key \in keys |-> IF key \in lost \cup {other} THEN Default[key] ELSE g[key]]
  <2> DEFINE json == [key \in keys \ lost |->
                         IF key = other THEN [kind |-> "string", is |-> "text"] ELSE Json(g)[key]]
  <2>1. DOMAIN json = keys \ lost
    OBVIOUS
  <2>2. \A key \in keys \ lost :
            json[key].kind = (IF key = other THEN "string" ELSE Kind(key))
            /\ (key # other => json[key].is = g[key])
    BY <1>4
  <2> HIDE DEF json
  <2>3. \A key \in keys :
            (IF key \in DOMAIN json /\ json[key].kind = Json(Default)[key].kind
             THEN json[key].is ELSE Default[key])
                = IF key \in lost \cup {other} THEN Default[key] ELSE g[key]
    BY <1>4, <1>5, <2>1, <2>2
  <2>4. FromJson(json) = [key \in keys |-> IF key \in lost \cup {other} THEN Default[key] ELSE g[key]]
    BY <1>2, <2>3 DEF FromJson
  <2>. QED
    BY <2>4 DEF json
<1>. QED
  BY <1>1, <1>6, <1>7, SMTT(30)

-----------------------------------------------------------------------------
(* What comes first in the places and the languages. *)

\* What CHOOSE picks where both components take the first that fits.
LEMMA FirstIsThere ==
    ASSUME NEW s, DOMAIN s \subseteq Nat, NEW found \in SUBSET DOMAIN s, found # {}
    PROVE  (CHOOSE i \in found : \A j \in found : i <= j) \in found
<1>0. found \subseteq Nat
  OBVIOUS
<1>1. PICK i \in found : \A j \in found : ~(<<j, i>> \in OpToRel(<, Nat))
  BY <1>0, WFMin, NatLessThanWellFounded, Zenon
<1>2. \A j \in found : ~(j < i)
  BY <1>0, <1>1 DEF OpToRel
<1>3. \A j \in found : i <= j
  BY <1>0, <1>2
<1>. QED
  BY <1>3

-----------------------------------------------------------------------------
(* Environment. *)

\* The map and the answer name files of the pair's name, or none.
MapInv ==
    /\ files \subseteq FilePaths
    /\ \A pair \in DOMAIN dependencies :
          dependencies[pair] = NoPath \/ dependencies[pair].name = pair[1]

\* PATH is a sequence of directories, whatever it was set to.
PathInv ==
    /\ env = [key \in DOMAIN Settings |-> env[key]]
    /\ env["PATH"] \in Settings["PATH"] \cup {<<>>, Unset}

\* What was answered last is usable.
AnswerInv == answer # NoAnswer => Usable(answer)

EnvironmentInv == MapInv /\ PathInv /\ AnswerInv

LEMMA NoPathIsNoFile == NoPath \notin FilePaths
BY EnvironmentAssumption DEF NoPath, FilePaths

LEMMA DirsAreIndexed ==
    ASSUME PathInv, NEW option \in DependencySearchOption
    PROVE  DOMAIN SearchDirs(option) \subseteq Nat
<1> DEFINE S == Seq(STRING)
<1>1. getPath \in Seq(S)
  <2>1. <<>> \in Seq(S)
    OBVIOUS
  <2>. QED
    BY <2>1, EnvironmentAssumption DEF PathInv, getPath, getVariable, hasVariable
<1>2. <<ExecutableDirectory>> \o getPath \in Seq(S)
  <2>1. ExecutableDirectory \in S
    BY EnvironmentAssumption
  <2> HIDE DEF S
  <2>2. <<ExecutableDirectory>> \in Seq(S)
    BY <2>1
  <2>. QED
    BY <1>1, <2>2
<1>3. \A s \in Seq(Seq(STRING)) : DOMAIN s \subseteq Nat
  OBVIOUS
<1>4. DOMAIN <<ExecutableDirectory>> \subseteq Nat /\ DOMAIN <<Directory("LocalData")>> \subseteq Nat
  OBVIOUS
<1>. QED
  BY <1>1, <1>2, <1>3, <1>4 DEF SearchDirs, DependencySearchOption

\* Where is searched depends on the variables, not on the files or the map.
LEMMA SearchStays ==
    ASSUME UNCHANGED directoryVars
    PROVE  /\ \A option : Searched(option)' = Searched(option)
           /\ \A pair, i : Candidate(pair, i)' = Candidate(pair, i)
<1>1. /\ Directory("LocalData")' = Directory("LocalData")
      /\ getPath' = getPath
      /\ Extension' = Extension
  <2>1. getPath' = getPath /\ Extension' = Extension
    BY DEF directoryVars, getPath, getVariable, hasVariable, Extension
  <2>2. Directory("LocalData")' = Directory("LocalData")
    BY DEF directoryVars, Directory, getKnownDir, Home, Base, BelowHome, Named, getXDGDir,
           getVariable, hasVariable
  <2>. QED
    BY <2>1, <2>2
<1>2. \A option : SearchDirs(option)' = SearchDirs(option)
  BY <1>1 DEF SearchDirs
<1>3. \A option : Searched(option)' = Searched(option)
  BY <1>2 DEF Searched
<1>4. \A pair, i : Candidate(pair, i)' = Candidate(pair, i)
  BY <1>1, <1>2 DEF Candidate
<1>. QED
  BY <1>3, <1>4

\* A search takes a file of the right name that is there, or there is none.
LEMMA SearchFinds ==
    ASSUME MapInv, PathInv, NEW pair \in Pairs
    PROVE  \/ Search(pair) \in files /\ Search(pair).name = pair[1] /\ Search(pair) # NoPath
           \/ /\ Search(pair) = NoPath
              /\ \A i \in Searched(pair[2]) : Candidate(pair, i) \notin files
<1> DEFINE dirs == SearchDirs(pair[2])
           found == {i \in Searched(pair[2]) : Candidate(pair, i) \in files}
           first == CHOOSE i \in found : \A j \in found : i <= j
<1>1. CASE found = {}
  BY <1>1 DEF Search
<1>2. CASE found # {}
  <2>1. pair[2] \in DependencySearchOption
    BY DEF Pairs
  <2>2. DOMAIN dirs \subseteq Nat
    BY <2>1, DirsAreIndexed
  <2>3. found \in SUBSET DOMAIN dirs
    BY DEF Searched
  <2> HIDE DEF found
  <2>4. first \in found
    BY <1>2, <2>2, <2>3, FirstIsThere
  <2> HIDE DEF first
  <2>5. Candidate(pair, first) \in files /\ Candidate(pair, first).name = pair[1]
    BY <2>4 DEF found, Candidate
  <2>6. Search(pair) = Candidate(pair, first)
    BY <1>2 DEF Search, found, first
  <2>. QED
    BY <2>5, <2>6, NoPathIsNoFile DEF MapInv
<1>. QED
  BY <1>1, <1>2

LEMMA EnvironmentInitial == EnvironmentInit => EnvironmentInv
<1> SUFFICES ASSUME EnvironmentInit PROVE EnvironmentInv
  OBVIOUS
<1>1. PathInv
  BY EnvironmentAssumption DEF EnvironmentInit, PathInv
<1>2. MapInv /\ AnswerInv
  BY DEF EnvironmentInit, SearchInit, MapInv, AnswerInv, NoAnswer
<1>. QED
  BY <1>1, <1>2 DEF EnvironmentInv

\* An answer is of a file that is there, or comes from a search.
LEMMA FindStep ==
    ASSUME EnvironmentInv, NEW pair \in Pairs, findDependency(pair)
    PROVE  /\ EnvironmentInv'
           /\ \A p \in DOMAIN dependencies :
                 dependencies[p] \in files => dependencies'[p] = dependencies[p]
<1> DEFINE kept == Sought(pair) /\ dependencies[pair] \in files
           path == IF kept THEN dependencies[pair] ELSE Search(pair)
<1> USE DEF EnvironmentInv
<1>1. /\ dependencies' = [p \in {pair} \cup DOMAIN dependencies |->
                             IF p = pair THEN path ELSE dependencies[p]]
      /\ answer' = [of |-> pair, path |-> path]
      /\ UNCHANGED <<directoryVars, files>>
  BY DEF findDependency, Remember
<1>2. \/ path \in files /\ path.name = pair[1] /\ path # NoPath
      \/ path = NoPath /\ \A i \in Searched(pair[2]) : Candidate(pair, i) \notin files
  <2>1. CASE kept
    BY <2>1, NoPathIsNoFile DEF MapInv, Sought
  <2>2. CASE ~kept
    BY <2>2, SearchFinds
  <2>. QED
    BY <2>1, <2>2
<1>3. \A p \in DOMAIN dependencies :
          dependencies[p] \in files => dependencies'[p] = dependencies[p]
  BY <1>1 DEF Sought
<1> HIDE DEF path
<1>4. MapInv' /\ PathInv'
  BY <1>1, <1>2 DEF MapInv, PathInv, directoryVars, FilePaths, Extension
<1>5. AnswerInv'
  <2>1. \A i : Candidate(pair, i)' = Candidate(pair, i)
    BY <1>1, SearchStays
  <2>2. Searched(pair[2])' = Searched(pair[2])
    BY <1>1, SearchStays
  <2>3. answer'.of = pair /\ answer'.path = path /\ UNCHANGED files
    BY <1>1
  <2>. QED
    BY <1>2, <2>1, <2>2, <2>3 DEF AnswerInv, Usable
<1>. QED
  BY <1>3, <1>4, <1>5

LEMMA EnvironmentStepKeeps ==
    EnvironmentInv /\ [EnvironmentNext]_environmentVars =>
        /\ EnvironmentInv'
        /\ [\A pair \in DOMAIN dependencies :
               dependencies[pair] \in files => dependencies'[pair] = dependencies[pair]]_dependencies
<1> SUFFICES ASSUME EnvironmentInv, [EnvironmentNext]_environmentVars
             PROVE  /\ EnvironmentInv'
                    /\ \/ \A pair \in DOMAIN dependencies :
                             dependencies[pair] \in files =>
                                 dependencies'[pair] = dependencies[pair]
                       \/ UNCHANGED dependencies
  OBVIOUS
<1> USE DEF EnvironmentInv
<1>1. ASSUME NEW pair \in Pairs, findDependency(pair)
      PROVE  /\ EnvironmentInv'
             /\ \A p \in DOMAIN dependencies :
                   dependencies[p] \in files => dependencies'[p] = dependencies[p]
  BY <1>1, FindStep
<1>2. ASSUME NEW file \in FilePaths, Install(file) \/ Uninstall(file)
      PROVE  EnvironmentInv' /\ UNCHANGED dependencies
  BY <1>2 DEF Install, Uninstall, directoryVars, MapInv, PathInv, AnswerInv, Usable, FilePaths, Extension
<1>3. ASSUME NEW key \in DOMAIN Settings,
             (\E value \in Settings[key] : setVariable(key, value)) \/ clearVariable(key),
             answer' = NoAnswer, UNCHANGED <<files, dependencies>>
      PROVE  EnvironmentInv' /\ UNCHANGED dependencies
  <2>1. MapInv' /\ AnswerInv'
    BY <1>3 DEF setVariable, clearVariable, MapInv, AnswerInv, Usable, FilePaths, Extension
  <2>2. PathInv'
    <3>1. PICK value \in Settings[key] \cup {<<>>, Unset} :
              env' = [env EXCEPT ![key] = value]
      BY <1>3 DEF setVariable, clearVariable
    <3>2. CASE key = "PATH"
      BY <3>1, <3>2 DEF PathInv
    <3>3. CASE key # "PATH"
      BY <3>1, <3>3 DEF PathInv
    <3>. QED
      BY <3>2, <3>3
  <2>. QED
    BY <1>3, <2>1, <2>2
<1>4. CASE UNCHANGED environmentVars
  <2>1. MapInv' /\ PathInv'
    BY <1>4 DEF environmentVars, directoryVars, searchVars, MapInv, PathInv, FilePaths, Extension
  <2>2. AnswerInv'
    <3>1. UNCHANGED directoryVars /\ UNCHANGED <<files, answer>>
      BY <1>4 DEF environmentVars, searchVars
    <3>2. /\ Searched(answer.of[2])' = Searched(answer.of[2])
          /\ \A i : Candidate(answer.of, i)' = Candidate(answer.of, i)
      BY <3>1, SearchStays
    <3>. QED
      BY <3>1, <3>2 DEF AnswerInv, Usable
  <2>. QED
    BY <1>4, <2>1, <2>2 DEF environmentVars, searchVars
<1>. QED
  BY <1>1, <1>2, <1>3, <1>4 DEF EnvironmentNext

\* What is found exists, nothing is found only if no place of the option has it,
\* and an answer stays what it was until its file is gone, for any number of
\* places, names and values of PATH.
THEOREM DependencyUsable == EnvironmentSpec => DependencyIsUsable
<1>1. EnvironmentInv => (answer # NoAnswer => Usable(answer))
  BY DEF EnvironmentInv, AnswerInv
<1>. QED
  BY <1>1, EnvironmentInitial, EnvironmentStepKeeps, PTL DEF EnvironmentSpec, DependencyIsUsable

-----------------------------------------------------------------------------
(* Localization. *)

Page == page \notin {NoPage, HelpPage, C} => page \in langs /\ IsPrefix(page, locale)

\* Translations are off exactly when C was chosen last; the list of languages
\* does not change once one was found, so what was chosen from it stays in it.
LanguageInv ==
    /\ translationsOff \in BOOLEAN /\ (translationsOff <=> chosen = C)
    /\ langs \subseteq ToSet(Languages) /\ locale \in Locales
    /\ env = [key \in DOMAIN Settings |-> env[key]]
    /\ chosen \in langs \ {C} => env["LANGUAGE"] = chosen
    /\ chosen = SystemDefault => getVariable("LANGUAGE") = <<>>
    /\ chosen \notin {NotChosen, SystemDefault, C} => chosen \in langs
    /\ Page

LEMMA LanguagesNamed ==
    /\ ToSet(Languages) \cap {SystemDefault, NotChosen} = {}
    /\ DOMAIN Languages \subseteq Nat
BY LocalizationAssumption DEF ToSet, SystemDefault, NotChosen

LEMMA ListKept ==
    ASSUME LanguageInv
    PROVE  /\ AvailableLanguages \subseteq ToSet(Languages)
           /\ langs \subseteq AvailableLanguages
           /\ langs # {} => AvailableLanguages = langs
BY DEF LanguageInv, AvailableLanguages

\* A page is in the language of the locale, or in its first part.
LEMMA PageFits ==
    ASSUME LanguageInv, PageLanguage # C
    PROVE  PageLanguage \in AvailableLanguages /\ IsPrefix(PageLanguage, locale)
<1> DEFINE fits == {i \in DOMAIN Languages :
                       Languages[i] \in AvailableLanguages \cap {locale, <<locale[1]>>}}
           first == CHOOSE i \in fits : \A j \in fits : i <= j
<1>1. locale \notin English /\ fits # {} /\ PageLanguage = Languages[first]
  BY DEF PageLanguage
<1>2. first \in fits
  <2>1. fits \in SUBSET DOMAIN Languages
    OBVIOUS
  <2> HIDE DEF fits
  <2>. QED
    BY <1>1, <2>1, LanguagesNamed, FirstIsThere
<1> HIDE DEF first
<1>3. PageLanguage \in AvailableLanguages /\ PageLanguage \in {locale, <<locale[1]>>}
  BY <1>1, <1>2
<1>4. locale \in Seq(STRING) /\ locale # <<>>
  BY <1>1, LocalizationAssumption DEF LanguageInv, English
<1>5. IsPrefix(locale, locale) /\ IsPrefix(<<locale[1]>>, locale)
  BY <1>4 DEF IsPrefix
<1>. QED
  BY <1>3, <1>5

LEMMA LanguageInitial == LocalizationInit => LanguageInv
<1> SUFFICES ASSUME LocalizationInit PROVE LanguageInv
  OBVIOUS
<1>1. env = [key \in DOMAIN Settings |-> env[key]]
  BY DEF LocalizationInit
<1>2. NotChosen # C /\ NotChosen # SystemDefault
  BY DEF NotChosen, C, SystemDefault
<1>. QED
  BY <1>1, <1>2 DEF LocalizationInit, GettextInit, LanguageInv, Page

LEMMA LanguageStepKeeps == LanguageInv /\ [LocalizationNext]_localizationVars => LanguageInv'
<1> SUFFICES ASSUME LanguageInv, [LocalizationNext]_localizationVars PROVE LanguageInv'
  OBVIOUS
<1>0. LanguageInv
  OBVIOUS
<1> USE DEF LanguageInv, Page
<1>1. ASSUME NEW name \in DOMAIN DomainOf, init(name) PROVE LanguageInv'
  BY <1>1 DEF init, directoryVars, getVariable, hasVariable
<1>2. ASSUME getAvailableLanguages PROVE LanguageInv'
  BY <1>0, <1>2, ListKept, LanguagesNamed
     DEF getAvailableLanguages, directoryVars, getVariable, hasVariable
<1>3. ASSUME NEW language \in ToSet(Languages) \cup {SystemDefault, C}, changeLanguage(language)
      PROVE  LanguageInv'
  <2>1. CASE /\ language = SystemDefault
             /\ IF hasVariable("LANGUAGE") THEN clearVariable("LANGUAGE")
                ELSE UNCHANGED directoryVars
             /\ Take(language, FALSE) /\ UNCHANGED langs
    <3>1. env' = [key \in DOMAIN Settings |-> env'[key]]
      BY <2>1 DEF clearVariable, setVariable, directoryVars
    <3>2. getVariable("LANGUAGE")' = <<>>
      BY <2>1, LocalizationAssumption
         DEF clearVariable, setVariable, directoryVars, getVariable, hasVariable
    <3>. QED
      BY <2>1, <3>1, <3>2, LanguagesNamed DEF Take, SystemDefault, C
  <2>2. CASE /\ language = C /\ Take(language, TRUE) /\ UNCHANGED <<directoryVars, langs>>
    BY <2>2 DEF Take, directoryVars, SystemDefault, C
  <2>3. CASE /\ language \in AvailableLanguages /\ language \notin {SystemDefault, C}
             /\ langs' = AvailableLanguages
             /\ setVariable("LANGUAGE", language) /\ Take(language, FALSE)
    <3>1. /\ env' = [key \in DOMAIN Settings |-> env'[key]]
          /\ env'["LANGUAGE"] = language
      BY <2>3, LocalizationAssumption DEF setVariable, SystemDefault
    <3>. QED
      BY <1>0, <2>3, <3>1, ListKept, LanguagesNamed DEF Take
  <2>4. CASE getAvailableLanguages
    BY <1>2, <2>4
  <2>. QED
    BY <1>3, <2>1, <2>2, <2>3, <2>4 DEF changeLanguage
<1>4. CASE getHelpUrl
  <2>1. UNCHANGED <<env, chosen, locale, translationsOff>>
    BY <1>4 DEF getHelpUrl, directoryVars
  <2>2. /\ langs' \in {langs, AvailableLanguages}
        /\ page' = HelpPage \/ page' = PageLanguage
        /\ page' \notin {HelpPage, C} => langs' = AvailableLanguages
    BY <1>4 DEF getHelpUrl, PageLanguage
  <2>3. Page'
    BY <1>0, <2>1, <2>2, PageFits
  <2>. QED
    BY <1>0, <2>1, <2>2, <2>3, ListKept, LanguagesNamed DEF getVariable, hasVariable
<1>5. ASSUME NEW catalog \in Catalogs, ChangeCatalogs(catalog) PROVE LanguageInv'
  BY <1>5 DEF ChangeCatalogs, directoryVars, getVariable, hasVariable
<1>6. CASE UNCHANGED localizationVars
  BY <1>6 DEF localizationVars, gettextVars, directoryVars, getVariable, hasVariable
<1>. QED
  BY <1>1, <1>2, <1>3, <1>4, <1>5, <1>6 DEF LocalizationNext

\* Messages are shown in the language that was taken last, on every path through
\* the four functions, and pages are in a language of the reader, for any
\* languages and locales, whatever is installed and refused in between.
THEOREM LanguageHonoured == LocalizationSpec => []LanguageIsHonoured
<1>1. LanguageInv => LanguageIsHonoured
  BY DEF LanguageInv, Page, LanguageIsHonoured, dgettext, dngettext, pgettext, pngettext,
         GettextOf, Form
<1>. QED
  BY <1>1, LanguageInitial, LanguageStepKeeps, PTL DEF LocalizationSpec

-----------------------------------------------------------------------------
(* Values. *)

\* Versions are ordered and come back from their texts, and so do texts, arguments, bytes,
\* addresses and geometries: what the runs look at in one state, for all values.
THEOREM ValuesKept == Spec => []ValuesCompareAndConvert
<1>1. ValuesCompareAndConvert
  BY VersionsOrdered, VersionsKept, ArgumentsKept, TrimKeepsTheRest, ReplacedAsJoined,
     Base64Kept, AddressesKept, GeometriesKept DEF ValuesCompareAndConvert
<1>. QED
  BY <1>1, PTL
=============================================================================
