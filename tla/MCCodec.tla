---- MODULE MCCodec ----
(* Codec on all objects of up to two entries per level and two levels, and on *)
(* chains that go one level beyond the depth limit.                           *)
EXTENDS Codec

Scalar(kind, data) == [kind |-> kind, data |-> data, entries |-> << >>]

Scalars ==
    {Scalar("null", 0), Scalar("bool", 0), Scalar("other", 0)}
    \cup {Scalar(k, d) : k \in {"integer", "float"}, d \in 0 .. 1}
    \cup {Scalar("string", b) : b \in 0 .. MaxStringBytes + 1}

Collection(kind, entries) == [kind |-> kind, data |-> 0, entries |-> entries]

UpToTwo(entries) ==
    {<< >>} \cup {<<e>> : e \in entries} \cup {<<e, f>> : e, f \in entries}

\* Objects and lists of values; the keys of an object are short or too long.
Over(values, keys) ==
    {Collection("list", s) : s \in UpToTwo([key : {0}, value : values])}
    \cup {Collection("object", s) : s \in UpToTwo([key : keys, value : values])}

Keys == {MaxStringBytes, MaxStringBytes + 1}

Leaves == {Scalar("bool", 0), Scalar("string", MaxStringBytes)}

Flat == Over(Scalars, Keys)
Pairs == Over(Leaves, {1})
Nested == Over(Leaves \cup Pairs, {1})
Twigs == Over({Scalar("null", 0)}, {1})
Branches == Over(Twigs, {1})
Chains == Over(Branches, {1})

AllValues == Chains \cup Nested \cup Flat \cup Scalars \cup Pairs \cup Twigs \cup Branches

AllObjects == {v \in Chains \cup Nested \cup Flat : v.kind = "object"}

\* The messages that carry the values of the types that there are.
RECURSIVE Typed(_), Carry(_)
Typed(v) == v.kind # "other" /\ \A i \in DOMAIN v.entries : Typed(v.entries[i].value)

Carry(v) ==
    [kind |-> OneOf(v.kind), data |-> v.data,
     entries |-> [i \in DOMAIN v.entries |-> [v.entries[i] EXCEPT !.value = Carry(@)]]]

AllMessages == {Carry(v) : v \in {w \in AllValues : Typed(w)}}

\* TLC evaluates a set once when a definition stands between it and the constant.
MCValues == AllValues
MCObjects == AllObjects
MCMessages == AllMessages
====
