----------------------------- MODULE TopicMatch -----------------------------
(***************************************************************************)
(* mini-business-infra/src/message_queue.c: mq_topic_match, which walks a  *)
(* pattern and a routing key character by character, against matching word *)
(* by word.  A string is a sequence of characters of Chars.                *)
(***************************************************************************)
EXTENDS Naturals, Sequences, SequencesExt

CONSTANTS Letters,      \* characters other than ".", "*" and "#"
          MaxPattern, MaxKey

VARIABLES pattern, routing_key

Chars == Letters \cup {"."}

\* Where the word of the key that holds position k ends.
OneCharacter(key, k) == k + 1    \* Mutant: a star stands for one character.
WordEnd(key, k) ==
    CHOOSE e \in k .. Len(key) + 1 :
        /\ e = Len(key) + 1 \/ key[e] = "."
        /\ \A x \in k .. e - 1 : key[x] # "."

\* From position p of the pattern and k of the key; the position past the end is the NUL.
Matches(pat, key) ==
    LET P == Len(pat) + 1
        K == Len(key) + 1
        m[p \in 1 .. P, k \in 1 .. K] ==
            CASE p = P -> k = K
              [] p < P /\ k = K -> pat[p] = "#" /\ p + 1 = P
              [] p < P /\ k < K /\ pat[p] = "#" -> p + 1 = P \/ \E x \in k .. K - 1 : m[p + 1, x]
              [] p < P /\ k < K /\ pat[p] = "*" ->
                    LET e == WordEnd(key, k)
                    IN IF e < K /\ p + 1 < P /\ pat[p + 1] = "." THEN m[p + 2, e + 1] ELSE m[p + 1, e]
              [] OTHER -> pat[p] = key[k] /\ m[p + 1, k + 1]
    IN m[1, 1]

----------------------------------------------------------------------------
(* The strings grow from nothing, so that every pair of them is a state.   *)
(* Words are not empty, and "*" and "#" are words of their own.            *)

Follows(s, c) ==
    /\ c = "." => s # <<>> /\ Last(s) # "."
    /\ c \in {"*", "#"} => s = <<>> \/ Last(s) = "."
    /\ c \in Letters => s = <<>> \/ Last(s) \notin {"*", "#"}

Init == pattern = <<>> /\ routing_key = <<>>

GrowPattern ==
    /\ Len(pattern) < MaxPattern /\ routing_key = <<>>
    /\ \E c \in {c \in Chars \cup {"*", "#"} : Follows(pattern, c)} : pattern' = Append(pattern, c)
    /\ UNCHANGED routing_key

GrowKey ==
    /\ Len(routing_key) < MaxKey
    /\ \E c \in {c \in Chars : Follows(routing_key, c)} : routing_key' = Append(routing_key, c)
    /\ UNCHANGED pattern

Next == GrowPattern \/ GrowKey
----------------------------------------------------------------------------

Bounds(s) == SetToSortSeq({0, Len(s) + 1} \cup {x \in DOMAIN s : s[x] = "."}, LAMBDA x, y : x < y)
Words(s) == [n \in 1 .. Len(Bounds(s)) - 1 |-> SubSeq(s, Bounds(s)[n] + 1, Bounds(s)[n + 1] - 1)]
Complete(s) == s # <<>> /\ Last(s) # "."

\* A star is one word, a hash any number of words from least on.
WordsMatch(pat, key, least) ==
    LET m[p \in 1 .. Len(pat) + 1, k \in 1 .. Len(key) + 1] ==
            CASE p > Len(pat) -> k > Len(key)
              [] p <= Len(pat) /\ pat[p] = <<"#">> -> \E x \in k + least .. Len(key) + 1 : m[p + 1, x]
              [] p <= Len(pat) /\ pat[p] # <<"#">> ->
                    k <= Len(key) /\ pat[p] \in {key[k], <<"*">>} /\ m[p + 1, k + 1]
    IN m[1, 1]

\* mq_topic_match decides by characters what its comment (message_queue.c:579-580) defines by
\* words.  On patterns and keys made of words it accepts no key that the comment excludes, and
\* it accepts every key that the comment admits with a word for each hash.  In between the code
\* falls short of the comment: a hash that has to stand for no word at all is not matched
\* ("a.#" does not accept "a", because the dot before the hash finds no partner in the key).
TopicAgrees ==
    Complete(pattern) /\ Complete(routing_key) =>
        LET pat == Words(pattern)
            key == Words(routing_key)
        IN  /\ Matches(pattern, routing_key) => WordsMatch(pat, key, 0)
            /\ WordsMatch(pat, key, 1) => Matches(pattern, routing_key)
============================================================================
