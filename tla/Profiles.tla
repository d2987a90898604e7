------------------------------ MODULE Profiles ------------------------------
(***************************************************************************)
(* Profiles and their names: which of them change_profile picks for a      *)
(* network. A name is a sequence of character codes, so that the order of  *)
(* std::map<std::string, Profile_s> is the order of the code.              *)
(***************************************************************************)
EXTENDS Integers, Sequences

Star     == 42  \* '*'
Colon    == 58  \* ':'
Question == 63  \* '?'
Default  == <<100>>  \* stands for "default"
NoProfile == <<>>

\* Mutant: a star needs a character.
MatchFrom_StarNeedsOne(needle, haystack, i, rest) ==
    LET h == Len(haystack) IN
    {j \in 1..(h + 1) :
       IF needle[i] = Star THEN \E k \in (j + 1)..(h + 1) : k \in rest
       ELSE j <= h /\ needle[i] \in {Question, haystack[j]} /\ j + 1 \in rest}

\* Where in the haystack the needle matches to the end from its i-th character on, when
\* `rest` is where it does from the next one on. A star that is not the last character
\* is tried on every rest of the haystack but the empty one.
MatchFrom(needle, haystack, i, rest) ==
    LET h == Len(haystack) IN
    {j \in 1..(h + 1) :
       IF needle[i] = Star THEN i = Len(needle) \/ \E k \in j..h : k \in rest
       ELSE j <= h /\ needle[i] \in {Question, haystack[j]} /\ j + 1 \in rest}

wildcard_match(needle, haystack) ==
    LET n == Len(needle)
        from[i \in 1..(n + 1)] ==
          IF i > n THEN {Len(haystack) + 1}
          ELSE MatchFrom(needle, haystack, i, from[i + 1])
    IN  1 \in from[1]

\* std::less<std::string>.
Before(s, t) ==
    \/ Len(s) < Len(t) /\ \A i \in 1..Len(s) : s[i] = t[i]
    \/ \E i \in 1..Len(s) \cap 1..Len(t) :
         s[i] < t[i] /\ \A j \in 1..(i - 1) : s[j] = t[j]

First(names) == CHOOSE p \in names : \A q \in names : p = q \/ Before(p, q)

\* Mutant: Profiles.find("default") is used without a look at its result.
Chosen_DefaultUnchecked(profiles, name) ==
    LET matching == {p \in profiles : wildcard_match(p, name)}
    IN  IF matching # {} THEN First(matching) ELSE Default

\* What change_profile makes the current profile, of a set of profile names and
\* for the name of a network; NoProfile when it returns -1 and changes nothing.
Chosen(profiles, name) ==
    LET matching == {p \in profiles : wildcard_match(p, name)}
    IN  IF matching # {} THEN First(matching)
        ELSE IF Default \in profiles THEN Default ELSE NoProfile

-----------------------------------------------------------------------------
(* What matching a pattern means, to compare with.                         *)

\* The haystack can be cut so that every character of the needle gets its piece:
\* any piece for a star, one character for the others.
Matches(needle, haystack) ==
    LET n == Len(needle)  h == Len(haystack) IN
    \E cut \in [1..(n + 1) -> 1..(h + 1)] :
       /\ cut[1] = 1 /\ cut[n + 1] = h + 1
       /\ \A i \in 1..n :
            IF needle[i] = Star THEN cut[i] <= cut[i + 1]
            ELSE cut[i + 1] = cut[i] + 1 /\ needle[i] \in {Question, haystack[cut[i]]}

StarsApart(needle) == \A i \in 1..(Len(needle) - 1) : {needle[i], needle[i + 1]} # {Star}

\* A profile name that wildcard_match accepts matches in the usual sense of stars and
\* question marks, and one without two stars in a row is accepted whenever it matches.
MatchesAsMeant(needle, haystack) ==
    /\ wildcard_match(needle, haystack) => Matches(needle, haystack)
    /\ Matches(needle, haystack) /\ StarsApart(needle) => wildcard_match(needle, haystack)
=============================================================================
