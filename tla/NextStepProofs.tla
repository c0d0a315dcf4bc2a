---- MODULE NextStepProofs ----
(***************************************************************************)
(* Theorems about NextStep, for every calendar and for all texts that a    *)
(* reply may have, however long.                                           *)
(***************************************************************************)
EXTENDS NextStep, SharedLemmas, SequenceTheorems

----
(* Boundaries *)

LEMMA ProductGrows ==
    ASSUME NEW a \in Int, NEW b \in Int, NEW n \in Nat, a <= b
    PROVE  a * n <= b * n
<1> DEFINE T == {k \in Nat : a * k <= b * k}
<1>1. 0 \in T
  OBVIOUS
<1>2. \A k \in Nat : k \in T => k + 1 \in T
  <2>1. SUFFICES ASSUME NEW k \in T
                 PROVE  a * (k + 1) <= b * (k + 1)
    OBVIOUS
  <2>2. a * (k + 1) = a * k + a /\ b * (k + 1) = b * k + b
    OBVIOUS
  <2>3. a * k \in Int /\ b * k \in Int /\ a * k <= b * k
    OBVIOUS
  <2>4. QED
    BY <2>2, <2>3
<1>3. Nat \subseteq T
  <2> HIDE DEF T
  <2>1. QED
    BY <1>1, <1>2, SetInduction
<1>4. QED
  BY <1>3

\* The day d begins with the tick d * n and ends before (d + 1) * n.
LEMMA DayOfTick ==
    ASSUME NEW n \in Nat \ {0}, NEW u \in Nat, NEW d \in Nat
    PROVE  /\ u \div n >= d <=> u >= d * n
           /\ u \div n <= d <=> u <= d * n + n - 1
<1> DEFINE q == u \div n
           r == u % n
<1>1. q \in Nat /\ r \in 0 .. n - 1 /\ u = q * n + r
  OBVIOUS
<1>2. q * n \in Int /\ d * n \in Int /\ (q + 1) * n = q * n + n /\ (d + 1) * n = d * n + n
  BY <1>1
<1> HIDE DEF q, r
<1>3. q >= d => q * n >= d * n
  BY <1>1, ProductGrows
<1>4. q < d => q * n + n <= d * n
  <2>1. q + 1 <= d => (q + 1) * n <= d * n
    BY <1>1, ProductGrows
  <2>2. QED
    BY <1>1, <1>2, <2>1
<1>5. q <= d => q * n <= d * n
  BY <1>1, ProductGrows
<1>6. q > d => d * n + n <= q * n
  <2>1. d + 1 <= q => (d + 1) * n <= q * n
    BY <1>1, ProductGrows
  <2>2. QED
    BY <1>1, <1>2, <2>1
<1>7. q >= d <=> u >= d * n
  BY <1>1, <1>2, <1>3, <1>4
<1>8. q <= d <=> u <= d * n + n - 1
  BY <1>1, <1>2, <1>5, <1>6
<1>9. QED
  BY <1>7, <1>8 DEF q

LEMMA DaysAreInstants ==
    ASSUME NEW d \in 0 .. Days - 1
    PROVE  /\ StartOfDay(d) \in Instants
           /\ EndOfDay(d) \in Instants
           /\ StartOfDay(d) <= EndOfDay(d)
<1>1. 0 * TicksPerDay <= d * TicksPerDay /\ (d + 1) * TicksPerDay <= Days * TicksPerDay
  BY ProductGrows, TimeWindowAssumption
<1>2. (d + 1) * TicksPerDay = d * TicksPerDay + TicksPerDay
  BY TimeWindowAssumption
<1>3. d * TicksPerDay \in Int /\ Days * TicksPerDay \in Int
  BY TimeWindowAssumption
<1> DEFINE D == d * TicksPerDay
           E == Days * TicksPerDay
<1>4. D \in Int /\ E \in Int /\ 0 <= D /\ D + TicksPerDay <= E
  BY <1>1, <1>2, <1>3, TimeWindowAssumption
<1>5. StartOfDay(d) = D /\ EndOfDay(d) = D + TicksPerDay - 1 /\ Instants = 0 .. E - 1
  BY DEF StartOfDay, EndOfDay, Instants
<1> HIDE DEF D, E
<1>6. QED
  BY <1>4, <1>5, TimeWindowAssumption

\* What a boundary is read as: an instant of the calendar that admits, from below
\* or from above, what the text admits; or an error, which is a ValueError only
\* where the boundary is malformed.
LEMMA BoundaryAdmits ==
    ASSUME NEW b \in Boundaries, NEW upper \in BOOLEAN,
           ParseTimeBoundary(b, upper).status = "time"
    PROVE  /\ ParseTimeBoundary(b, upper).at \in Instants
           /\ ~upper => \A u \in Instants :
                NotBefore(u, b) <=> u >= ParseTimeBoundary(b, upper).at
           /\ upper => \A u \in Instants :
                NotAfter(u, b) <=> u <= ParseTimeBoundary(b, upper).at
<1>1. Instants \subseteq Nat
  BY DEF Instants
<1>2. CASE b.form = "day"
  <2>1. b.at \in 0 .. Days - 1
    BY <1>2 DEF Boundaries
  <2>2. ParseTimeBoundary(b, upper).at = IF upper THEN EndOfDay(b.at) ELSE StartOfDay(b.at)
    BY <1>2 DEF ParseTimeBoundary, Time
  <2>3. \A u \in Instants :
          /\ NotBefore(u, b) <=> u >= StartOfDay(b.at)
          /\ NotAfter(u, b) <=> u <= EndOfDay(b.at)
    BY <1>1, <1>2, <2>1, DayOfTick, TimeWindowAssumption
       DEF NotBefore, NotAfter, StartOfDay, EndOfDay
  <2>4. QED
    BY <2>1, <2>2, <2>3, DaysAreInstants
<1>3. CASE b.form = "instant"
  <2>1. b.at \in Int /\ b.offset \in Int
    BY <1>3, TimeWindowAssumption DEF Boundaries, Instants
  <2>2. ToUtc(b) \in Instants /\ ParseTimeBoundary(b, upper).at = ToUtc(b)
    BY <1>3 DEF ParseTimeBoundary, Time, Error
  <2>3. \A u \in Instants :
          /\ NotBefore(u, b) <=> u >= ToUtc(b)
          /\ NotAfter(u, b) <=> u <= ToUtc(b)
    BY <1>1, <1>3, <2>1 DEF NotBefore, NotAfter, ToUtc
  <2>4. QED
    BY <2>2, <2>3
<1>4. CASE b.form = "malformed"
  BY <1>4 DEF ParseTimeBoundary, Error
<1>5. QED
  BY <1>2, <1>3, <1>4 DEF Boundaries

LEMMA BoundaryStatus ==
    ASSUME NEW b \in Boundaries, NEW upper \in BOOLEAN
    PROVE  /\ ParseTimeBoundary(b, upper).status \in {"time", "ValueError", "OverflowError"}
           /\ ParseTimeBoundary(b, upper).status = "ValueError" => b.form = "malformed"
BY DEF Boundaries, ParseTimeBoundary, Time, Error

LEMMA WindowAdmits ==
    ASSUME NEW from \in Boundaries, NEW to \in Boundaries
    PROVE  LET admitted == {u \in Instants : NotBefore(u, from) /\ NotAfter(u, to)}
           IN  CASE ValidateWindow(from, to) = "window" ->
                       admitted # {} /\ Interval(from, to) = admitted
                 [] ValidateWindow(from, to) = "ValueError" ->
                       "malformed" \in {from.form, to.form} \/ admitted = {}
                 [] OTHER -> TRUE
<1> DEFINE f == ParseTimeBoundary(from, FALSE)
           t == ParseTimeBoundary(to, TRUE)
           admitted == {u \in Instants : NotBefore(u, from) /\ NotAfter(u, to)}
           errors == {f.status, t.status} \ {"time"}
<1>1. /\ f.status \in {"time", "ValueError", "OverflowError"}
      /\ f.status = "ValueError" => from.form = "malformed"
      /\ t.status \in {"time", "ValueError", "OverflowError"}
      /\ t.status = "ValueError" => to.form = "malformed"
  BY BoundaryStatus
<1>2. f.status = "time" =>
        f.at \in Instants /\ \A u \in Instants : NotBefore(u, from) <=> u >= f.at
  BY BoundaryAdmits
<1>3. t.status = "time" =>
        t.at \in Instants /\ \A u \in Instants : NotAfter(u, to) <=> u <= t.at
  BY BoundaryAdmits
<1>4. ValidateWindow(from, to) =
        CASE "OverflowError" \in errors -> "OverflowError"
          [] errors = {"ValueError"} -> "ValueError"
          [] errors = {} -> IF f.at > t.at THEN "ValueError" ELSE "window"
  BY DEF ValidateWindow
<1>5. Interval(from, to) = f.at .. t.at
  BY DEF Interval
<1>6. Instants \subseteq Nat /\ \A u, v \in Instants : u .. v \subseteq Instants
  <2>1. Days * TicksPerDay \in Int
    BY TimeWindowAssumption
  <2>2. QED
    BY <2>1 DEF Instants
<1> HIDE DEF f, t
<1>7. CASE f.status = "time" /\ t.status = "time"
  <2>1. errors = {} /\ ValidateWindow(from, to) = IF f.at > t.at THEN "ValueError" ELSE "window"
    BY <1>4, <1>7
  <2>2. admitted = {u \in Instants : f.at <= u /\ u <= t.at}
    BY <1>2, <1>3, <1>6, <1>7
  <2>3. f.at \in Instants /\ t.at \in Instants /\ f.at .. t.at \subseteq Instants
    BY <1>2, <1>3, <1>6, <1>7
  <2>4. admitted = f.at .. t.at
    <3>1. \A u \in f.at .. t.at : f.at <= u /\ u <= t.at
      BY <1>6, <2>3
    <3>2. \A u \in Instants : f.at <= u /\ u <= t.at => u \in f.at .. t.at
      BY <1>6, <2>3
    <3> HIDE DEF admitted
    <3>3. QED
      BY <2>2, <2>3, <3>1, <3>2
  <2>5. f.at > t.at <=> f.at .. t.at = {}
    <3>1. f.at \in Int /\ t.at \in Int
      <4>1. \A u \in Instants : u \in Int
        BY <1>6
      <4>2. QED
        BY <1>2, <1>3, <1>7, <4>1
    <3>2. CASE f.at > t.at
      BY <3>1, <3>2
    <3>3. CASE f.at <= t.at
      <4>1. f.at \in f.at .. t.at
        BY <3>1, <3>3
      <4>2. QED
        BY <3>1, <3>3, <4>1
    <3>4. QED
      BY <3>1, <3>2, <3>3
  <2>6. QED
    BY <1>5, <2>1, <2>4, <2>5
<1>8. CASE "ValueError" \in {f.status, t.status}
  BY <1>1, <1>4, <1>8
<1>9. CASE "OverflowError" \in {f.status, t.status}
  BY <1>4, <1>9
<1>10. QED
  BY <1>1, <1>7, <1>8, <1>9

----
(* The replies *)

ReplyTyped == reply \in Replies \cup {None}

LEMMA ReplyIsTyped == Spec => []ReplyTyped
<1>1. Init => ReplyTyped
  BY DEF Init, ReplyTyped
<1>2. ReplyTyped /\ [Next]_vars => ReplyTyped'
  BY DEF ReplyTyped, vars, Next, Call, Receive, ReturnStep, Repair, GiveUp, Escape
<1>3. QED
  BY <1>1, <1>2, PTL DEF Spec

LEMMA WindowsTyped ==
    ASSUME NEW r \in Replies, r.payload.window # None
    PROVE  r.payload.window \in Windows
<1>1. Unusable.payload = Plain /\ Plain.window = None
  BY DEF Unusable, Plain
<1>2. \A p \in AllPayloads : p.window \in Windows \cup {None}
  BY DEF AllPayloads
<1>3. r.payload = Plain \/ r.payload \in Payloads
  BY <1>1 DEF Replies
<1>4. QED
  BY <1>1, <1>2, <1>3, NextStepAssumption

\* For every calendar, number of ticks and largest offset: the window that is
\* stored for a search admits exactly the instants that its boundaries admit.
THEOREM WindowHoldsWhatItSays == Spec => []WindowIsInclusive
<1>1. ReplyTyped => WindowIsInclusive
  <2>1. SUFFICES ASSUME reply \in Replies, reply.payload.window # None
                 PROVE  WindowIsInclusive
    BY DEF ReplyTyped, WindowIsInclusive
  <2>2. reply.payload.window.from \in Boundaries /\ reply.payload.window.to \in Boundaries
    BY <2>1, WindowsTyped DEF Windows
  <2>3. QED
    BY <2>2, WindowAdmits DEF WindowIsInclusive
<1>2. QED
  BY <1>1, ReplyIsTyped, PTL

----
(* The text of a reply *)

\* Hidden in most of the proofs: what they need of it is TextFacts.
AllTexts == Seq(Tokens)

Braces(text) == Places(text, "lbrace") \cup Places(text, "rbrace")

\* The closing braces after some opening one.
Closing(text) == {j \in Places(text, "rbrace") : \E i \in Places(text, "lbrace") : i < j}

\* t is a part of the text with all of its braces.
Trims(text, t) ==
    \E a \in 1 .. Len(text) + 1, b \in 0 .. Len(text) :
        /\ a <= b + 1
        /\ t = SubSeq(text, a, b)
        /\ Braces(text) \subseteq a .. b

\* x is the first opening brace and y the last closing one after it.
Spans(text, x, y) ==
    /\ x \in Places(text, "lbrace") /\ \A i \in Places(text, "lbrace") : x <= i
    /\ y \in Closing(text) /\ \A j \in Closing(text) : j <= y

LEMMA SequenceFacts ==
    ASSUME NEW S, NEW s \in Seq(S)
    PROVE  /\ Len(s) \in Nat
           /\ DOMAIN s = 1 .. Len(s)
           /\ \A i \in 1 .. Len(s) : s[i] \in S
           /\ s # << >> => Len(s) >= 1
           /\ Head(s) = s[1]
           /\ Tail(s) = SubSeq(s, 2, Len(s))
<1>1. Len(s) \in Nat /\ DOMAIN s = 1 .. Len(s) /\ \A i \in 1 .. Len(s) : s[i] \in S
  BY LenProperties, ElementOfSeq
<1>2. s # << >> => Len(s) >= 1
  <2>1. s # << >> => Len(s) \in Nat \ {0}
    BY EmptySeq
  <2>2. QED
    BY <2>1
<1>3. Head(s) = s[1]
  OBVIOUS
<1>4. Tail(s) = SubSeq(s, 2, Len(s))
  OBVIOUS
<1>5. QED
  BY <1>1, <1>2, <1>3, <1>4

LEMMA PartFacts ==
    ASSUME NEW S, NEW s \in Seq(S), NEW a \in 1 .. Len(s) + 1, NEW b \in 0 .. Len(s), a <= b + 1
    PROVE  /\ SubSeq(s, a, b) \in Seq(S)
           /\ Len(SubSeq(s, a, b)) = b - a + 1
           /\ \A i \in 1 .. b - a + 1 : SubSeq(s, a, b)[i] = s[a + i - 1]
<1>1. \A i \in a .. b : s[i] \in S
  BY SequenceFacts
<1>2. a \in Int /\ b \in Int
  BY SequenceFacts
<1>3. /\ SubSeq(s, a, b) \in Seq(S)
      /\ Len(SubSeq(s, a, b)) = IF a <= b THEN b - a + 1 ELSE 0
      /\ \A i \in 1 .. b - a + 1 : SubSeq(s, a, b)[i] = s[a + i - 1]
  BY <1>1, <1>2, SubSeqProperties
<1>4. (IF a <= b THEN b - a + 1 ELSE 0) = b - a + 1
  BY <1>2
<1>5. QED
  BY <1>3, <1>4, Zenon

LEMMA TextFacts ==
    ASSUME NEW text \in AllTexts
    PROVE  /\ Len(text) \in Nat
           /\ DOMAIN text = 1 .. Len(text)
           /\ text # << >> => Len(text) >= 1
           /\ Head(text) = text[1]
           /\ Tail(text) = SubSeq(text, 2, Len(text))
BY SequenceFacts, Zenon DEF AllTexts

LEMMA PartOfText ==
    ASSUME NEW text \in AllTexts, NEW a \in 1 .. Len(text) + 1, NEW b \in 0 .. Len(text),
           a <= b + 1
    PROVE  /\ SubSeq(text, a, b) \in AllTexts
           /\ Len(SubSeq(text, a, b)) = b - a + 1
           /\ \A i \in 1 .. b - a + 1 : SubSeq(text, a, b)[i] = text[a + i - 1]
BY PartFacts, Zenon DEF AllTexts

LEMMA PartOfPart ==
    ASSUME NEW text \in AllTexts, NEW a \in 1 .. Len(text) + 1, NEW b \in 0 .. Len(text),
           a <= b + 1,
           NEW c \in 1 .. b - a + 2, NEW d \in 0 .. b - a + 1, c <= d + 1
    PROVE  SubSeq(SubSeq(text, a, b), c, d) = SubSeq(text, a + c - 1, a + d - 1)
<1>1. CASE c <= d
  <2>1. a \in 1 .. Len(text) /\ b \in 1 .. Len(text)
    BY <1>1
  <2>2. c \in 1 .. b - a + 1 /\ d \in 1 .. b - a + 1
    BY <1>1
  <2>3. QED
    <3>1. text \in Seq(Tokens)
      BY DEF AllTexts
    <3>2. QED
      BY <2>1, <2>2, <3>1, SubSeqOfSubSeq
<1>2. CASE c = d + 1
  <2>1. SubSeq(SubSeq(text, a, b), c, d) = << >>
    BY <1>2, SubSeqEmpty
  <2>2. SubSeq(text, a + c - 1, a + d - 1) = << >>
    BY <1>2, SubSeqEmpty
  <2>3. QED
    BY <2>1, <2>2
<1>3. QED
  BY <1>1, <1>2

LEMMA PlacesInText ==
    ASSUME NEW text \in AllTexts, NEW token
    PROVE  Places(text, token) \subseteq 1 .. Len(text)
BY TextFacts DEF Places

\* A part with all braces has them where the text has them.
LEMMA TrimsPlaces ==
    ASSUME NEW text \in AllTexts, NEW a \in 1 .. Len(text) + 1, NEW b \in 0 .. Len(text),
           a <= b + 1, Braces(text) \subseteq a .. b, NEW token \in {"lbrace", "rbrace"}
    PROVE  /\ \A i \in Places(SubSeq(text, a, b), token) : a + i - 1 \in Places(text, token)
           /\ \A i \in Places(text, token) : i - a + 1 \in Places(SubSeq(text, a, b), token)
<1> DEFINE t == SubSeq(text, a, b)
<1>1. t \in AllTexts /\ Len(t) = b - a + 1 /\ \A i \in 1 .. b - a + 1 : t[i] = text[a + i - 1]
  BY PartOfText
<1>2. Places(text, token) \subseteq a .. b
  BY DEF Braces
<1> HIDE DEF t
<1>3. \A i \in Places(t, token) : a + i - 1 \in Places(text, token)
  <2>1. SUFFICES ASSUME NEW i \in Places(t, token)
                 PROVE  a + i - 1 \in Places(text, token)
    OBVIOUS
  <2>2. i \in 1 .. b - a + 1 /\ t[i] = token
    BY <1>1, PlacesInText DEF Places
  <2>3. a + i - 1 \in 1 .. Len(text)
    BY <2>2, TextFacts
  <2>4. text[a + i - 1] = token
    BY <1>1, <2>2
  <2>5. QED
    BY <2>3, <2>4, TextFacts DEF Places
<1>4. \A i \in Places(text, token) : i - a + 1 \in Places(t, token)
  <2>1. SUFFICES ASSUME NEW i \in Places(text, token)
                 PROVE  i - a + 1 \in Places(t, token)
    OBVIOUS
  <2>2. i \in a .. b /\ text[i] = token
    BY <1>2 DEF Places
  <2>3. i - a + 1 \in 1 .. b - a + 1 /\ a + (i - a + 1) - 1 = i
    BY <2>2, TextFacts
  <2>4. t[i - a + 1] = text[a + (i - a + 1) - 1]
    BY <1>1, <2>3
  <2>5. QED
    BY <1>1, <2>2, <2>3, <2>4, TextFacts DEF Places
<1>5. QED
  BY <1>3, <1>4 DEF t

LEMMA TrimsItself ==
    ASSUME NEW text \in AllTexts
    PROVE  Trims(text, text)
<1>1. SubSeq(text, 1, Len(text)) = text
  BY SubSeqFull, Zenon DEF AllTexts
<1>2. Braces(text) \subseteq 1 .. Len(text)
  BY PlacesInText DEF Braces
<1>3. 1 \in 1 .. Len(text) + 1 /\ Len(text) \in 0 .. Len(text) /\ 1 <= Len(text) + 1
  OBVIOUS
<1>4. QED
  BY <1>1, <1>2, <1>3 DEF Trims

LEMMA TrimsType ==
    ASSUME NEW text \in AllTexts, NEW t, Trims(text, t)
    PROVE  t \in AllTexts
BY PartOfText DEF Trims

LEMMA TrimsTwice ==
    ASSUME NEW text \in AllTexts, NEW t, NEW s, Trims(text, t), Trims(t, s)
    PROVE  Trims(text, s)
<1>1. PICK a \in 1 .. Len(text) + 1, b \in 0 .. Len(text) :
        a <= b + 1 /\ t = SubSeq(text, a, b) /\ Braces(text) \subseteq a .. b
  BY DEF Trims
<1>2. t \in AllTexts /\ Len(t) = b - a + 1
  BY <1>1, PartOfText
<1>3. PICK c \in 1 .. Len(t) + 1, d \in 0 .. Len(t) :
        c <= d + 1 /\ s = SubSeq(t, c, d) /\ Braces(t) \subseteq c .. d
  BY DEF Trims
<1>4. c \in 1 .. b - a + 2 /\ d \in 0 .. b - a + 1
  BY <1>1, <1>2, <1>3
<1>5. s = SubSeq(text, a + c - 1, a + d - 1)
  BY <1>1, <1>3, <1>4, PartOfPart
<1>6. Braces(text) \subseteq a + c - 1 .. a + d - 1
  <2>1. SUFFICES ASSUME NEW i \in Braces(text)
                 PROVE  i \in a + c - 1 .. a + d - 1
    OBVIOUS
  <2>2. i - a + 1 \in Braces(t)
    BY <1>1, TrimsPlaces DEF Braces
  <2>3. i \in a .. b /\ i - a + 1 \in c .. d
    BY <1>1, <1>3, <2>2
  <2>4. QED
    BY <1>4, <2>3
<1>7. a + c - 1 \in 1 .. Len(text) + 1 /\ a + d - 1 \in 0 .. Len(text) /\ a + c - 1 <= a + d - 1 + 1
  BY <1>1, <1>3, <1>4
<1>8. QED
  BY <1>5, <1>6, <1>7 DEF Trims

\* A part from which no brace is missing trims the text.
LEMMA TrimsIntro ==
    ASSUME NEW text \in AllTexts, NEW a \in 1 .. Len(text) + 1, NEW b \in 0 .. Len(text),
           a <= b + 1,
           \A i \in 1 .. Len(text) : text[i] \in {"lbrace", "rbrace"} => i \in a .. b
    PROVE  Trims(text, SubSeq(text, a, b))
<1>1. Braces(text) \subseteq a .. b
  BY TextFacts DEF Braces, Places
<1>2. QED
  BY <1>1 DEF Trims

LEMMA StripTrims ==
    ASSUME NEW text \in AllTexts
    PROVE  Trims(text, Strip(text))
<1> DEFINE kept == DOMAIN text \ Places(text, "space")
<1>1. kept \in SUBSET (1 .. Len(text)) /\ kept \in SUBSET Nat /\ Len(text) \in Nat
  BY TextFacts
<1>2. \A i \in 1 .. Len(text) : text[i] \in {"lbrace", "rbrace"} => i \in kept
  BY TextFacts DEF Places
<1>3. Strip(text) = IF kept = {} THEN << >> ELSE SubSeq(text, Min(kept), Max(kept))
  BY DEF Strip
<1> HIDE DEF kept
<1>4. CASE kept = {}
  <2>1. Trims(text, SubSeq(text, 1, 0))
    BY <1>1, <1>2, <1>4, TrimsIntro
  <2>2. SubSeq(text, 1, 0) = << >>
    BY SubSeqEmpty
  <2>3. QED
    BY <1>3, <1>4, <2>1, <2>2
<1>5. CASE kept # {}
  <2>1. Min(kept) \in kept /\ \A i \in kept : Min(kept) <= i
    BY <1>1, <1>5, MinProperties
  <2>2. Max(kept) \in kept /\ \A i \in kept : i <= Max(kept)
    BY <1>1, <1>5, MaxProperties
  <2>3. Min(kept) \in 1 .. Len(text) /\ Max(kept) \in 1 .. Len(text) /\ Min(kept) <= Max(kept)
    BY <1>1, <2>1, <2>2
  <2>4. \A i \in 1 .. Len(text) : text[i] \in {"lbrace", "rbrace"} => i \in Min(kept) .. Max(kept)
    BY <1>1, <1>2, <2>1, <2>2, <2>3
  <2>5. Trims(text, SubSeq(text, Min(kept), Max(kept)))
    <3> DEFINE a == Min(kept)
               b == Max(kept)
    <3>1. a \in 1 .. Len(text) + 1 /\ b \in 0 .. Len(text) /\ a <= b + 1
      BY <2>3
    <3>2. \A i \in 1 .. Len(text) : text[i] \in {"lbrace", "rbrace"} => i \in a .. b
      BY <2>4
    <3> HIDE DEF a, b
    <3>3. Trims(text, SubSeq(text, a, b))
      BY <3>1, <3>2, TrimsIntro
    <3>4. QED
      BY <3>3 DEF a, b
  <2>6. QED
    BY <1>3, <1>5, <2>5
<1>6. QED
  BY <1>4, <1>5

LEMMA TailTrims ==
    ASSUME NEW text \in AllTexts, text # << >>, Head(text) \notin {"lbrace", "rbrace"}
    PROVE  Trims(text, Tail(text))
<1>1. Tail(text) = SubSeq(text, 2, Len(text))
  BY TextFacts
<1>2. Len(text) >= 1 /\ Len(text) \in Nat /\ Len(text) \in 0 .. Len(text) /\ text[1] \notin {"lbrace", "rbrace"}
  BY TextFacts
<1>3. \A i \in 1 .. Len(text) : text[i] \in {"lbrace", "rbrace"} => i \in 2 .. Len(text)
  BY <1>2
<1>4. 2 \in 1 .. Len(text) + 1 /\ 2 <= Len(text) + 1
  BY <1>2
<1>5. Trims(text, SubSeq(text, 2, Len(text)))
  BY <1>2, <1>3, <1>4, TrimsIntro
<1>6. QED
  BY <1>1, <1>5

LEMMA FrontTrims ==
    ASSUME NEW text \in AllTexts, text # << >>, text[Len(text)] \notin {"lbrace", "rbrace"}
    PROVE  Trims(text, SubSeq(text, 1, Len(text) - 1))
<1>1. Len(text) >= 1 /\ Len(text) \in Nat
  BY TextFacts
<1>2. \A i \in 1 .. Len(text) : text[i] \in {"lbrace", "rbrace"} => i \in 1 .. Len(text) - 1
  BY <1>1
<1>3. QED
  BY <1>1, <1>2, TrimsIntro

\* The fences, the language and the spaces that are cut off have no braces.
LEMMA UnfenceTrims ==
    ASSUME NEW text \in AllTexts, StartsWith(text, "fence")
    PROVE  Trims(text, Unfence(text))
<1> DEFINE tail == Tail(text)
           bare == Without(tail, "json")
           body == Strip(bare)
           front == SubSeq(body, 1, Len(body) - 1)
<1>1. Trims(text, tail)
  BY TailTrims DEF StartsWith
<1>2. tail \in AllTexts
  BY <1>1, TrimsType
<1>3. Unfence(text) = IF EndsWith(body, "fence") THEN Strip(front) ELSE body
  BY DEF Unfence
<1> HIDE DEF tail
<1>4. Trims(tail, bare)
  BY <1>2, TrimsItself, TailTrims DEF Without, StartsWith
<1>5. Trims(text, bare) /\ bare \in AllTexts
  BY <1>1, <1>2, <1>4, TrimsTwice, TrimsType
<1> HIDE DEF bare
<1>6. Trims(text, body) /\ body \in AllTexts
  BY <1>5, StripTrims, TrimsTwice, TrimsType
<1> HIDE DEF body
<1>7. CASE EndsWith(body, "fence")
  <2>1. Trims(body, front)
    BY <1>6, <1>7, FrontTrims DEF EndsWith
  <2>2. Trims(text, front) /\ front \in AllTexts
    BY <1>6, <2>1, TrimsTwice, TrimsType
  <2> HIDE DEF front
  <2>3. Trims(text, Strip(front))
    BY <2>2, StripTrims, TrimsTwice
  <2>4. QED
    BY <1>3, <1>7, <2>3
<1>8. CASE ~EndsWith(body, "fence")
  BY <1>3, <1>6, <1>8
<1>9. QED
  BY <1>7, <1>8

----
(* The object in a text *)

LEMMA SpanIsEmbedded ==
    ASSUME NEW text \in AllTexts, NEW x, NEW y, Spans(text, x, y)
    PROVE  Embedded(text) = SubSeq(text, x, y)
<1> DEFINE opens == Places(text, "lbrace")
           closes == {j \in Places(text, "rbrace") : \E i \in opens : i < j}
<1>1. opens \in SUBSET (1 .. Len(text)) /\ closes \in SUBSET (1 .. Len(text)) /\ Len(text) \in Nat
  BY PlacesInText, TextFacts
<1>2. x \in opens /\ (\A i \in opens : x <= i) /\ y \in closes /\ \A j \in closes : j <= y
  BY DEF Spans, Closing
<1>3. Embedded(text) = IF closes = {} THEN text ELSE SubSeq(text, Min(opens), Max(closes))
  BY DEF Embedded
<1> HIDE DEF opens, closes
<1>4. Min(opens) \in opens /\ \A i \in opens : Min(opens) <= i
  BY <1>1, <1>2, MinProperties
<1>5. Max(closes) \in closes /\ \A j \in closes : j <= Max(closes)
  BY <1>1, <1>2, MaxProperties
<1>6. opens \subseteq Int /\ closes \subseteq Int
  BY <1>1
<1>7. Min(opens) <= x /\ x <= Min(opens) /\ Max(closes) <= y /\ y <= Max(closes)
  BY <1>2, <1>4, <1>5
<1>8. Min(opens) = x /\ Max(closes) = y
  <2>1. Min(opens) \in Int /\ x \in Int /\ Max(closes) \in Int /\ y \in Int
    BY <1>2, <1>4, <1>5, <1>6
  <2>2. \A m, n \in Int : m <= n /\ n <= m => m = n
    OBVIOUS
  <2>3. QED
    BY <1>7, <2>1, <2>2
<1>9. QED
  BY <1>2, <1>3, <1>8

LEMMA SpanExists ==
    ASSUME NEW text \in AllTexts, Closing(text) # {}
    PROVE  \E x \in 1 .. Len(text), y \in 1 .. Len(text) : x < y /\ Spans(text, x, y)
<1> DEFINE opens == Places(text, "lbrace")
           closes == Closing(text)
<1>1. opens \in SUBSET (1 .. Len(text)) /\ closes \in SUBSET (1 .. Len(text)) /\ Len(text) \in Nat
  BY PlacesInText, TextFacts DEF Closing
<1>2. PICK i \in opens, j \in closes : i < j
  BY DEF Closing
<1> HIDE DEF opens, closes
<1>3. Min(opens) \in opens /\ \A k \in opens : Min(opens) <= k
  BY <1>1, <1>2, MinProperties
<1>4. Max(closes) \in closes /\ \A k \in closes : k <= Max(closes)
  BY <1>1, <1>2, MaxProperties
<1>5. Min(opens) < Max(closes)
  <2>1. opens \subseteq Int /\ closes \subseteq Int
    BY <1>1
  <2>2. Min(opens) <= i /\ j <= Max(closes)
    BY <1>2, <1>3, <1>4
  <2>3. QED
    <3>1. Min(opens) \in Int /\ i \in Int /\ Max(closes) \in Int /\ j \in Int
      BY <1>2, <1>3, <1>4, <2>1
    <3>2. \A k, l, m, n \in Int : k <= l /\ l < m /\ m <= n => k < n
      OBVIOUS
    <3>3. QED
      BY <1>2, <2>2, <3>1, <3>2
<1>6. Spans(text, Min(opens), Max(closes))
  BY <1>3, <1>4 DEF Spans, opens, closes
<1>7. QED
  BY <1>1, <1>3, <1>4, <1>5, <1>6

LEMMA NoClosing ==
    ASSUME NEW text \in AllTexts, Closing(text) = {}
    PROVE  Embedded(text) = text
BY DEF Embedded, Closing

\* The braces decide what is embedded, and a part with all of them has the same.
LEMMA TrimsKeepSpan ==
    ASSUME NEW text \in AllTexts, NEW a \in 1 .. Len(text) + 1, NEW b \in 0 .. Len(text),
           a <= b + 1, Braces(text) \subseteq a .. b,
           NEW x \in 1 .. Len(text), NEW y \in 1 .. Len(text), Spans(text, x, y)
    PROVE  Spans(SubSeq(text, a, b), x - a + 1, y - a + 1)
<1> DEFINE t == SubSeq(text, a, b)
<1>1. /\ \A i \in Places(t, "lbrace") : a + i - 1 \in Places(text, "lbrace")
      /\ \A i \in Places(text, "lbrace") : i - a + 1 \in Places(t, "lbrace")
      /\ \A i \in Places(t, "rbrace") : a + i - 1 \in Places(text, "rbrace")
      /\ \A i \in Places(text, "rbrace") : i - a + 1 \in Places(t, "rbrace")
  BY TrimsPlaces
<1>2. t \in AllTexts
  BY PartOfText
<1> HIDE DEF t
<1>3. /\ Places(t, "lbrace") \subseteq Int /\ Places(t, "rbrace") \subseteq Int
      /\ Places(text, "lbrace") \subseteq Int /\ Places(text, "rbrace") \subseteq Int
      /\ a \in Int /\ x \in Int /\ y \in Int
  BY <1>2, PlacesInText, TextFacts
<1>4. x - a + 1 \in Places(t, "lbrace") /\ \A i \in Places(t, "lbrace") : x - a + 1 <= i
  BY <1>1, <1>3 DEF Spans
<1>5. y - a + 1 \in Closing(t)
  <2>1. PICK i \in Places(text, "lbrace") : i < y
    BY DEF Spans, Closing
  <2>2. i - a + 1 < y - a + 1
    BY <1>3, <2>1
  <2>3. QED
    BY <1>1, <2>1, <2>2 DEF Spans, Closing
<1>6. ASSUME NEW j \in Closing(t)
      PROVE  j <= y - a + 1
  <2>1. PICK i \in Places(t, "lbrace") : i < j
    BY DEF Closing
  <2>2. j \in Places(t, "rbrace")
    BY DEF Closing
  <2>3. a + i - 1 < a + j - 1
    BY <1>3, <2>1, <2>2
  <2>4. a + j - 1 \in Closing(text)
    BY <1>1, <2>1, <2>2, <2>3 DEF Closing
  <2>5. a + j - 1 <= y
    BY <2>4 DEF Spans
  <2>6. QED
    BY <1>3, <2>2, <2>5
<1>7. QED
  BY <1>4, <1>5, <1>6 DEF Spans, t

LEMMA TrimsKeepEmbedded ==
    ASSUME NEW text \in AllTexts, NEW t, Trims(text, t), Closing(text) # {}
    PROVE  Embedded(t) = Embedded(text)
<1>1. PICK a \in 1 .. Len(text) + 1, b \in 0 .. Len(text) :
        a <= b + 1 /\ t = SubSeq(text, a, b) /\ Braces(text) \subseteq a .. b
  BY DEF Trims
<1>2. PICK x \in 1 .. Len(text), y \in 1 .. Len(text) : x < y /\ Spans(text, x, y)
  BY SpanExists
<1>3. Spans(t, x - a + 1, y - a + 1)
  BY <1>1, <1>2, TrimsKeepSpan
<1>4. t \in AllTexts
  BY TrimsType
<1>5. Embedded(t) = SubSeq(t, x - a + 1, y - a + 1)
  BY <1>3, <1>4, SpanIsEmbedded
<1>6. x \in a .. b /\ y \in a .. b
  BY <1>1, <1>2 DEF Spans, Closing, Braces
<1>7. SubSeq(t, x - a + 1, y - a + 1) = SubSeq(text, x, y)
  <2>1. x - a + 1 \in 1 .. b - a + 2 /\ y - a + 1 \in 0 .. b - a + 1 /\ x - a + 1 <= y - a + 1 + 1
    BY <1>2, <1>6
  <2>2. SubSeq(t, x - a + 1, y - a + 1) = SubSeq(text, a + (x - a + 1) - 1, a + (y - a + 1) - 1)
    BY <1>1, <2>1, PartOfPart
  <2>3. a + (x - a + 1) - 1 = x /\ a + (y - a + 1) - 1 = y
    BY <1>6
  <2>4. QED
    BY <2>2, <2>3
<1>8. Embedded(text) = SubSeq(text, x, y)
  BY <1>2, SpanIsEmbedded
<1>9. QED
  BY <1>5, <1>7, <1>8

LEMMA TrimsKeepNoClosing ==
    ASSUME NEW text \in AllTexts, NEW t, Trims(text, t), Closing(text) = {}
    PROVE  Closing(t) = {}
<1>1. PICK a \in 1 .. Len(text) + 1, b \in 0 .. Len(text) :
        a <= b + 1 /\ t = SubSeq(text, a, b) /\ Braces(text) \subseteq a .. b
  BY DEF Trims
<1>2. SUFFICES ASSUME NEW j \in Places(t, "rbrace"), NEW i \in Places(t, "lbrace"), i < j
               PROVE  FALSE
  BY DEF Closing
<1>3. a + i - 1 \in Places(text, "lbrace") /\ a + j - 1 \in Places(text, "rbrace")
  BY <1>1, TrimsPlaces
<1>4. i \in Int /\ j \in Int
  BY TrimsType, PlacesInText
<1>5. a + i - 1 < a + j - 1
  BY <1>2, <1>4
<1>6. QED
  BY <1>3, <1>5 DEF Closing

\* A text between braces is embedded in itself.
LEMMA EmbeddedInItself ==
    ASSUME NEW text \in AllTexts, StartsWith(text, "lbrace"), EndsWith(text, "rbrace")
    PROVE  Embedded(text) = text
<1>1. Len(text) \in Nat /\ Len(text) >= 1 /\ text[1] = "lbrace" /\ text[Len(text)] = "rbrace"
  BY TextFacts DEF StartsWith, EndsWith
<1>2. 1 < Len(text)
  BY <1>1
<1>3. 1 \in Places(text, "lbrace") /\ Len(text) \in Places(text, "rbrace")
  BY <1>1, TextFacts DEF Places
<1>4. Places(text, "lbrace") \subseteq 1 .. Len(text) /\ Places(text, "rbrace") \subseteq 1 .. Len(text)
  BY PlacesInText
<1>5. Spans(text, 1, Len(text))
  BY <1>1, <1>2, <1>3, <1>4 DEF Spans, Closing
<1>6. SubSeq(text, 1, Len(text)) = text
  BY SubSeqFull, Zenon DEF AllTexts
<1>7. QED
  BY <1>5, <1>6, SpanIsEmbedded

\* What is extracted is what is embedded in a part with all braces: the spaces
\* and fences make no difference to it.
LEMMA ExtractsEmbedded ==
    ASSUME NEW text \in AllTexts
    PROVE  \E t \in AllTexts : Trims(text, t) /\ ExtractJsonObject(text) = Embedded(t)
<1> DEFINE stripped == Strip(text)
           t == IF StartsWith(stripped, "fence") THEN Unfence(stripped) ELSE stripped
<1>1. Trims(text, stripped) /\ stripped \in AllTexts
  BY StripTrims, TrimsType
<1>2. ExtractJsonObject(text) =
        IF StartsWith(t, "lbrace") /\ EndsWith(t, "rbrace") THEN t ELSE Embedded(t)
  BY DEF ExtractJsonObject
<1> HIDE DEF stripped
<1>3. Trims(text, t) /\ t \in AllTexts
  BY <1>1, UnfenceTrims, TrimsTwice, TrimsType
<1> HIDE DEF t
<1>4. QED
  BY <1>2, <1>3, EmbeddedInItself

\* An object closes with its last token: if the depth is positive before a token
\* and zero with it, that token is a closing brace.
LEMMA ObjectEnds ==
    ASSUME NEW text \in AllTexts, IsObject(text)
    PROVE  StartsWith(text, "lbrace") /\ EndsWith(text, "rbrace") /\ Len(text) > 1
<1> DEFINE n == Len(text)
           o(k) == {i \in Places(text, "lbrace") : i <= k}
           c(k) == {i \in Places(text, "rbrace") : i <= k}
<1>1. /\ text # << >> /\ n \in Nat /\ n >= 1
      /\ text[1] = "lbrace" /\ 1 \in Places(text, "lbrace")
  BY TextFacts DEF IsObject, StartsWith, Places
<1>2. /\ Cardinality(o(n)) - Cardinality(c(n)) = 0
      /\ n > 1 => Cardinality(o(n - 1)) - Cardinality(c(n - 1)) > 0
  BY <1>1 DEF IsObject, Depth
<1>3. ASSUME NEW k \in Nat
      PROVE  /\ IsFiniteSet(o(k)) /\ IsFiniteSet(c(k))
             /\ Cardinality(o(k)) \in Nat /\ Cardinality(c(k)) \in Nat
  <2>1. o(k) \subseteq 1 .. n /\ c(k) \subseteq 1 .. n
    BY PlacesInText
  <2>2. IsFiniteSet(1 .. n)
    BY <1>1, FS_Interval
  <2> HIDE DEF n, o, c
  <2>3. IsFiniteSet(o(k)) /\ IsFiniteSet(c(k))
    BY <2>1, <2>2, FS_Subset
  <2>4. QED
    BY <2>3, FS_CardinalityType
<1>4. n # 1
  <2>1. SUFFICES ASSUME n = 1
                 PROVE  FALSE
    OBVIOUS
  <2>2. c(n) = {}
    BY <1>1, <2>1, PlacesInText DEF Places
  <2>3. o(n) # {}
    BY <1>1
  <2>4. IsFiniteSet(o(n)) /\ Cardinality(o(n)) \in Nat
    BY <1>1, <1>3
  <2> HIDE DEF o, c
  <2>5. Cardinality(o(n)) # 0 /\ Cardinality(c(n)) = 0
    BY <2>2, <2>3, <2>4, FS_EmptySet
  <2>6. QED
    BY <1>2, <2>4, <2>5
<1>5. n > 1
  <2> HIDE DEF n
  <2>1. QED
    BY <1>1, <1>4
<1>6. text[n] = "rbrace"
  <2>1. SUFFICES ASSUME text[n] # "rbrace"
                 PROVE  FALSE
    OBVIOUS
  <2>2. n - 1 \in Nat
    BY <1>1
  <2>3. c(n) = c(n - 1)
    <3>1. \A i \in Places(text, "rbrace") : i \in 1 .. n /\ i # n
      BY <2>1, PlacesInText DEF Places
    <3>2. \A i \in Places(text, "rbrace") : i <= n <=> i <= n - 1
      BY <1>1, <3>1
    <3>3. QED
      BY <3>2
  <2>4. o(n - 1) \subseteq o(n)
    <3>1. \A i \in Places(text, "lbrace") : i <= n - 1 => i <= n
      BY <1>1, PlacesInText
    <3>2. QED
      BY <3>1
  <2>5. /\ IsFiniteSet(o(n)) /\ Cardinality(o(n)) \in Nat /\ Cardinality(c(n)) \in Nat
        /\ Cardinality(o(n - 1)) \in Nat
    BY <1>1, <1>3, <2>2
  <2> HIDE DEF o, c
  <2>6. Cardinality(o(n - 1)) <= Cardinality(o(n))
    BY <2>4, <2>5, FS_Subset
  <2>7. QED
    BY <1>2, <1>5, <2>3, <2>5, <2>6
<1>7. QED
  BY <1>1, <1>5, <1>6 DEF IsObject, EndsWith

\* The spaces and fences that extract_json_object cuts off, and its shortcut for a text
\* between braces, make no difference to what it finds: for every text it is what the
\* pattern alone finds in the reply, or there is no object.
THEOREM WrappersMakeNoDifference ==
    ASSUME NEW text \in AllTexts
    PROVE  IF Closing(text) = {}
           THEN ~IsObject(ExtractJsonObject(text))
           ELSE ExtractJsonObject(text) = Embedded(text)
<1>1. PICK t \in AllTexts : Trims(text, t) /\ ExtractJsonObject(text) = Embedded(t)
  BY ExtractsEmbedded
<1>2. CASE Closing(text) = {}
  <2>1. Closing(t) = {} /\ ExtractJsonObject(text) = t
    BY <1>1, <1>2, TrimsKeepNoClosing, NoClosing
  <2>2. SUFFICES ASSUME IsObject(t)
                 PROVE  FALSE
    BY <1>2, <2>1
  <2>3. Len(t) \in Nat /\ 1 < Len(t) /\ t[1] = "lbrace" /\ t[Len(t)] = "rbrace" /\ DOMAIN t = 1 .. Len(t)
    BY <2>2, ObjectEnds, TextFacts DEF StartsWith, EndsWith
  <2>4. 1 \in Places(t, "lbrace") /\ Len(t) \in Places(t, "rbrace")
    BY <2>3 DEF Places
  <2>5. QED
    BY <2>1, <2>3, <2>4 DEF Closing
<1>3. CASE Closing(text) # {}
  BY <1>1, <1>3, TrimsKeepEmbedded
<1>4. QED
  BY <1>2, <1>3

\* The ends of an object are braces, the one before the other.
LEMMA ObjectsEndInBraces ==
    ASSUME NEW text \in AllTexts, NEW p \in Objects(text)
    PROVE  /\ p[1] \in Places(text, "lbrace") /\ p[2] \in Closing(text)
           /\ p = <<p[1], p[2]>>
<1>1. /\ p \in (1 .. Len(text)) \X (1 .. Len(text))
      /\ p[1] < p[2] /\ IsObject(SubSeq(text, p[1], p[2]))
  BY TextFacts DEF Objects
<1>2. PICK a \in 1 .. Len(text), b \in 1 .. Len(text) : p = <<a, b>>
  BY <1>1
<1>3. a < b /\ IsObject(SubSeq(text, a, b)) /\ Len(text) \in Nat
  BY <1>1, <1>2, TextFacts
<1>4. a \in 1 .. Len(text) + 1 /\ b \in 0 .. Len(text) /\ a <= b + 1
  BY <1>3
<1>5. /\ SubSeq(text, a, b) \in AllTexts /\ Len(SubSeq(text, a, b)) = b - a + 1
      /\ \A i \in 1 .. b - a + 1 : SubSeq(text, a, b)[i] = text[a + i - 1]
  BY <1>4, PartOfText
<1>6. /\ SubSeq(text, a, b)[1] = "lbrace"
      /\ SubSeq(text, a, b)[b - a + 1] = "rbrace"
  BY <1>3, <1>5, ObjectEnds, TextFacts DEF StartsWith, EndsWith
<1>7. a + 1 - 1 = a /\ a + (b - a + 1) - 1 = b /\ 1 \in 1 .. b - a + 1 /\ b - a + 1 \in 1 .. b - a + 1
  BY <1>3
<1>8. text[a] = "lbrace" /\ text[b] = "rbrace"
  BY <1>5, <1>6, <1>7
<1>9. QED
  BY <1>2, <1>3, <1>8, TextFacts DEF Places, Closing

LEMMA FoundIsTheOnlyObject ==
    ASSUME NEW text \in AllTexts
    PROVE  LET found == ExtractJsonObject(text)
               objects == Objects(text)
               braces == Places(text, "lbrace") \cup Places(text, "rbrace")
           IN  /\ IsObject(found) => \E p \in objects :
                   /\ found = SubSeq(text, p[1], p[2])
                   /\ \A q \in objects : Within({q[1], q[2]}, p)
               /\ \A p \in objects :
                   Within(braces, p) => found = SubSeq(text, p[1], p[2])
<1> DEFINE found == ExtractJsonObject(text)
           objects == Objects(text)
           braces == Places(text, "lbrace") \cup Places(text, "rbrace")
<1>1. CASE Closing(text) = {}
  <2>1. ~IsObject(found)
    BY <1>1, WrappersMakeNoDifference
  <2>2. objects = {}
    BY <1>1, ObjectsEndInBraces
  <2>3. QED
    BY <2>1, <2>2
<1>2. CASE Closing(text) # {}
  <2>1. PICK x \in 1 .. Len(text), y \in 1 .. Len(text) : x < y /\ Spans(text, x, y)
    BY <1>2, SpanExists
  <2>2. found = SubSeq(text, x, y)
    BY <1>2, <2>1, WrappersMakeNoDifference, SpanIsEmbedded
  <2>3. /\ Places(text, "lbrace") \subseteq Int /\ Places(text, "rbrace") \subseteq Int
        /\ Closing(text) \subseteq Places(text, "rbrace")
        /\ x \in Places(text, "lbrace") /\ y \in Closing(text)
    BY <2>1, PlacesInText DEF Closing, Spans
  <2>4. ASSUME NEW q \in objects
        PROVE  /\ q[1] \in Int /\ q[2] \in Int /\ x <= q[1] /\ q[2] <= y
               /\ q[1] \in braces /\ q[2] \in braces /\ q[1] \in Places(text, "lbrace")
    BY <2>1, <2>3, ObjectsEndInBraces DEF Spans
  <2>5. ASSUME NEW q \in objects
        PROVE  q[1] < q[2]
    BY DEF Objects
  <2>6. ASSUME IsObject(found)
        PROVE  \E p \in objects :
                   /\ found = SubSeq(text, p[1], p[2])
                   /\ \A q \in objects : Within({q[1], q[2]}, p)
    <3>1. <<x, y>> \in objects
      BY <2>1, <2>2, <2>6, TextFacts DEF Objects
    <3>2. \A q \in objects : Within({q[1], q[2]}, <<x, y>>)
      <4>1. SUFFICES ASSUME NEW q \in objects
                     PROVE  q[1] \in x .. y /\ q[2] \in x .. y
        BY DEF Within
      <4>2. QED
        BY <2>3, <2>4, <2>5
    <3>3. QED
      BY <2>2, <3>1, <3>2
  <2>7. ASSUME NEW p \in objects, Within(braces, p)
        PROVE  found = SubSeq(text, p[1], p[2])
    <3>1. x \in p[1] .. p[2] /\ y \in p[1] .. p[2]
      BY <2>3, <2>7 DEF Within
    <3>2. p[1] = x /\ p[2] = y
      BY <2>3, <2>4, <3>1
    <3>3. QED
      BY <2>2, <3>2
  <2>8. QED
    BY <2>6, <2>7
<1>3. QED
  BY <1>1, <1>2

LEMMA RepliesHaveTexts ==
    ASSUME NEW r \in Replies
    PROVE  r.text \in AllTexts
<1>1. Texts \subseteq Seq(Tokens) /\ << >> \in Seq(Tokens)
  BY NextStepAssumption
<1>2. <<"lbrace", "x", "rbrace">> \in Seq(Tokens)
  BY DEF Tokens
<1>3. r.text = << >> \/ r.text \in Texts \/ r.text = <<"lbrace", "x", "rbrace">>
  <2>1. CASE r = Unusable
    BY <2>1 DEF Unusable
  <2>2. CASE r \in [usable : {TRUE}, text : Texts, payload : {Plain}]
    BY <2>2
  <2>3. CASE r \in [usable : {TRUE}, text : {<<"lbrace", "x", "rbrace">>}, payload : Payloads]
    <3>1. r.text \in {<<"lbrace", "x", "rbrace">>}
      BY <2>3
    <3>2. QED
      BY <3>1
  <2>4. QED
    BY <2>1, <2>2, <2>3 DEF Replies
<1>4. QED
  BY <1>1, <1>2, <1>3, Zenon DEF AllTexts

\* For all texts, however long: what is taken for the step is an object that contains
\* every other one, and an object with no brace outside of it is found, whatever the
\* provider wraps around it.
THEOREM NoObjectIsChosen == Spec => []StepIsTheOnlyObject
<1>1. ReplyTyped => StepIsTheOnlyObject
  <2>1. SUFFICES ASSUME reply \in Replies
                 PROVE  StepIsTheOnlyObject
    BY DEF ReplyTyped, StepIsTheOnlyObject
  <2>2. reply.text \in AllTexts
    BY <2>1, RepliesHaveTexts
  <2>3. QED
    BY <2>2, FoundIsTheOnlyObject DEF StepIsTheOnlyObject
<1>2. QED
  BY <1>1, ReplyIsTyped, PTL

====
