---- MODULE ReplyText ----
(***************************************************************************)
(* extract_json_object (bluesec1_agent/llm.py): the part of a reply of the *)
(* LLM that is taken for its JSON object.                                  *)
(*                                                                         *)
(* A reply is a sequence of tokens: the fence and its language, braces, a  *)
(* space, and "x" for everything else.  Braces inside of JSON strings are  *)
(* "x" too.                                                                *)
(***************************************************************************)
EXTENDS Integers, Sequences, FiniteSetsExt

Tokens == {"fence", "json", "lbrace", "rbrace", "space", "x"}

Places(text, token) == {i \in DOMAIN text : text[i] = token}

\* str.strip
Strip(text) ==
    LET kept == DOMAIN text \ Places(text, "space")
    IN  IF kept = {} THEN << >> ELSE SubSeq(text, Min(kept), Max(kept))

StartsWith(text, token) == text # << >> /\ Head(text) = token
EndsWith(text, token) == text # << >> /\ text[Len(text)] = token

Without(text, token) == IF StartsWith(text, token) THEN Tail(text) ELSE text

\* The two substitutions for a reply that starts with a fence.
Unfence(text) ==
    LET body == Strip(Without(Tail(text), "json"))
    IN  IF EndsWith(body, "fence") THEN Strip(SubSeq(body, 1, Len(body) - 1)) ELSE body

\* Mutant of Embedded: the pattern is not greedy.
EmbeddedShortest(text) ==
    LET opens == Places(text, "lbrace")
        closes == {j \in Places(text, "rbrace") : \E i \in opens : i < j}
    IN  IF closes = {} THEN text ELSE SubSeq(text, Min(opens), Min(closes))

\* The first match of \{.*\}: from the first opening brace to the last closing
\* one after it.
Embedded(text) ==
    LET opens == Places(text, "lbrace")
        closes == {j \in Places(text, "rbrace") : \E i \in opens : i < j}
    IN  IF closes = {} THEN text ELSE SubSeq(text, Min(opens), Max(closes))

ExtractJsonObject(raw) ==
    LET stripped == Strip(raw)
        text == IF StartsWith(stripped, "fence") THEN Unfence(stripped) ELSE stripped
    IN  IF StartsWith(text, "lbrace") /\ EndsWith(text, "rbrace") THEN text ELSE Embedded(text)

----
\* The JSON objects: an opening brace and the closing brace that matches it are
\* the first token and the last.
Depth(text, n) ==
    Cardinality({i \in Places(text, "lbrace") : i <= n})
    - Cardinality({i \in Places(text, "rbrace") : i <= n})

IsObject(text) ==
    /\ StartsWith(text, "lbrace")
    /\ Depth(text, Len(text)) = 0
    /\ \A n \in 1 .. Len(text) - 1 : Depth(text, n) > 0

====
