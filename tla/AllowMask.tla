----------------------------- MODULE AllowMask -----------------------------
(***************************************************************************)
(* The remote-address whitelist of CIOInBound                              *)
(* (src/walleve/walleve/netio/iocontainer.cpp): BuildWhiteList turns each  *)
(* allow mask into a boost::regex by regex_replace of "*" with ".*", "?"   *)
(* with "." and "." with "\.", and IsAllowedRemote regex_matches the       *)
(* remote's address text against every entry.                              *)
(*                                                                         *)
(* Masks and addresses are sequences of one-character strings, because    *)
(* what is checked is the character-level conversion.  The characters are *)
(* digits, "." and the wildcards; for them the replaced text is always a   *)
(* valid regex, and RegexMatch is regex_match for the regexes it yields:   *)
(* a literal, "\." or "." atom, each optionally followed by "*".           *)
(***************************************************************************)
EXTENDS Naturals, Sequences, SequencesExt

\* the regex_replace of one mask character: "(\*)|(\?)|(\.)" with
\* format "(?1.*)(?2.)(?3\\.)"; any other character is copied
RegexOfChar(c) ==
    CASE c = "*" -> <<".", "*">>
      [] c = "?" -> <<".">>
      [] c = "." -> <<"\\", ".">>
      [] OTHER   -> <<c>>

\* Mutation of MaskToRegex: "." copied, so it matches any character
MaskToRegexDotUnescaped(mask) ==
    FlattenSeq([i \in DOMAIN mask |-> IF mask[i] = "." THEN <<".">> ELSE RegexOfChar(mask[i])])

MaskToRegex(mask) == FlattenSeq([i \in DOMAIN mask |-> RegexOfChar(mask[i])])

\* BuildWhiteList: vWhiteList cleared, one regex per mask, in order
BuildWhiteList(masks) == [i \in DOMAIN masks |-> MaskToRegex(masks[i])]

\* the first atom of a regex: [len, any, ch], len characters long
Atom(re) ==
    IF re[1] = "\\" THEN [len |-> 2, any |-> FALSE, ch |-> re[2]]
    ELSE [len |-> 1, any |-> re[1] = ".", ch |-> re[1]]

AtomMatches(a, c) == a.any \/ a.ch = c

\* boost::regex_match: the whole text s matches the regex re
RECURSIVE RegexMatch(_, _)
RegexMatch(re, s) ==
    IF re = <<>> THEN s = <<>>
    ELSE LET a    == Atom(re)
             rest == SubSeq(re, a.len + 1, Len(re))
         IN IF rest # <<>> /\ rest[1] = "*"
            THEN \/ RegexMatch(Tail(rest), s)
                 \/ s # <<>> /\ AtomMatches(a, s[1]) /\ RegexMatch(re, Tail(s))
            ELSE s # <<>> /\ AtomMatches(a, s[1]) /\ RegexMatch(rest, Tail(s))

\* IsAllowedRemote: some whitelist entry matches, or the whitelist is empty
IsAllowedRemote(wl, addr) ==
    (\E i \in DOMAIN wl : RegexMatch(wl[i], addr)) \/ wl = <<>>

\* Reference: a mask read as a shell glob, "*" any text and "?" any one
\* character, every other character itself
RECURSIVE GlobMatch(_, _)
GlobMatch(g, s) ==
    IF g = <<>> THEN s = <<>>
    ELSE IF g[1] = "*"
    THEN GlobMatch(Tail(g), s) \/ (s # <<>> /\ GlobMatch(g, Tail(s)))
    ELSE /\ s # <<>>
         /\ (g[1] = "?" \/ g[1] = s[1])
         /\ GlobMatch(Tail(g), Tail(s))

\* the remotes an allow list admits, by the reference reading
AllowedByMasks(masks, addr) ==
    masks = <<>> \/ \E i \in DOMAIN masks : GlobMatch(masks[i], addr)

=============================================================================
