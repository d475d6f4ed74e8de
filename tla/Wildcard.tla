------------------------------- MODULE Wildcard -------------------------------
(* Asterisk patterns: pkg/wildcard/pattern.go, and the prefix patterns of the *)
(* environment allow lists of pkg/gateway/session_policy.go.  Texts are       *)
(* sequences of characters, an asterisk is the character "*".                 *)
EXTENDS Naturals, Sequences, FiniteSetsExt

CONSTANTS Alphabet, MaxLength  \* the texts Match is compared with Glob on

LOCAL Star == "*"
LOCAL From(text, n) == SubSeq(text, n + 1, Len(text))
LOCAL FoldText(op(_, _), base, text) == MapThenFoldSet(op, base, LAMBDA i : text[i], Max, DOMAIN text)

\* A text cut before its last element.
Front(text) == SubSeq(text, 1, Len(text) - 1)
Last(text) == text[Len(text)]

\* strings.HasPrefix and strings.HasSuffix
HasPrefix(text, part) == Len(part) <= Len(text) /\ SubSeq(text, 1, Len(part)) = part
HasSuffix(text, part) == Len(part) <= Len(text) /\ From(text, Len(text) - Len(part)) = part

\* strings.Split(pattern, "*")
SplitStars(pattern) ==
  FoldText(LAMBDA ch, parts : IF ch = Star THEN Append(parts, <<>>)
                              ELSE [parts EXCEPT ![Len(parts)] = Append(@, ch)],
           << <<>> >>, pattern)

\* strings.Index: the offsets at which part occurs in text.
Offsets(text, part) ==
  {n \in 0..(Len(text) - Len(part)) : HasPrefix(From(text, n), part)}

\* The text after the first occurrence of part; the last one is the mutation.
AfterLast(text, part) == From(text, Max(Offsets(text, part)) + Len(part))
After(text, part) == From(text, Min(Offsets(text, part)) + Len(part))

\* The loop over the middle parts: what is left of rest, or nothing at all.
Middle(rest, parts) ==
  FoldText(LAMBDA part, left :
             IF left = {} THEN {}
             ELSE LET text == CHOOSE t \in left : TRUE IN
                  IF Offsets(text, part) = {} THEN {} ELSE {After(text, part)},
           {rest}, parts)

Match(pattern, value) ==
  \/ pattern = value
  \/ /\ Star \in Range(pattern)
     /\ LET parts == SplitStars(pattern) IN
        /\ HasPrefix(value, Head(parts))
        /\ \E rest \in Middle(From(value, Len(Head(parts))), Tail(Front(parts))) :
             HasSuffix(rest, Last(parts))

\* An empty list matches nothing.
MatchAny(patterns, value) == \E pattern \in patterns : Match(pattern, value)

\* envAllowlistAllows, of texts in upper case.
EnvAllowlistAllows(allowlist, key) ==
  \E p \in allowlist :
    IF p # <<>> /\ Last(p) = Star THEN HasPrefix(key, Front(p)) ELSE key = p

-----------------------------------------------------------------------------
\* What the comment of Match promises: the value is the pattern with a text, which may be
\* empty, in the place of every asterisk.
Glob(pattern, value) ==
  LET fits[i \in 0..Len(pattern), j \in 0..Len(value)] ==
        IF i = 0 THEN j = 0
        ELSE IF pattern[i] = Star THEN fits[i - 1, j] \/ (j > 0 /\ fits[i, j - 1])
        ELSE j > 0 /\ pattern[i] = value[j] /\ fits[i - 1, j - 1]
  IN fits[Len(pattern), Len(value)]

\* The greedy scan of Match, with the first occurrence of every part and the last part as a
\* suffix, finds a match exactly if there is one.
ScanIsGlob ==
  LET texts(chars) == UNION {[1..n -> chars] : n \in 0..MaxLength} IN
  \A pattern \in texts(Alphabet \cup {Star}), value \in texts(Alphabet) :
    Match(pattern, value) = Glob(pattern, value)
===============================================================================
