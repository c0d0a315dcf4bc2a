---- MODULE DynamicValues ----
(***************************************************************************)
(* The canonical recursive values of tool arguments, metadata and          *)
(* observations, and the three walks over them: the client's own validator *)
(* (remote/models.py), and the encoder and the decoder of                  *)
(* DynamicValueCodec (remote/transport/mappers.py).  Each walk carries a   *)
(* depth and a count of the entries met so far.                            *)
(*                                                                         *)
(* A value is a record [kind, data, entries].  data is the size of a       *)
(* string in bytes, and 1 for an integer beyond 64 bits or a float that is *)
(* not finite; a string without a UTF-8 form counts as too long, since     *)
(* encoding it raises a ValueError.  entries are the nested values         *)
(* [key, value] of an object or a list, a key being its size, 0 in a list. *)
(*                                                                         *)
(* A recursive method is a function of the depth: at each depth it maps a  *)
(* value and the count so far to the count that it hands on, or to Refused.*)
(* The walk that an operator takes is that function one level further down.*)
(***************************************************************************)
EXTENDS Integers, Sequences, SequencesExt

CONSTANTS
    Values,         \* Python values, and all that are nested in them
    Messages,       \* DynamicValue messages, and all that are nested in them
    MaxDepth,       \* max_depth
    MaxItems,       \* max_collection_items
    MaxStringBytes  \* max_string_bytes

ASSUME LimitsAssumption ==
    MaxDepth \in Nat \ {0} /\ MaxItems \in Nat \ {0} /\ MaxStringBytes \in Nat \ {0}

\* The field of the message DynamicValue that is set for a kind of values.
Fields ==
    [null |-> "null_value", bool |-> "bool_value", integer |-> "integer_value",
     float |-> "float_value", string |-> "string_value", object |-> "object_value",
     list |-> "list_value"]

Entries(nested) == [key : Nat, value : nested]

\* A value of another type is "other", a message without a field "unset".
ASSUME ValuesAssumption ==
    /\ Values \subseteq
        [kind : DOMAIN Fields \cup {"other"}, data : Nat, entries : Seq(Entries(Values))]
    /\ Messages \subseteq
        [kind : Range(Fields) \cup {"unset"}, data : Nat, entries : Seq(Entries(Messages))]
    /\ \A v \in Values :
        /\ v.kind \notin {"object", "list"} => v.entries = << >>
        /\ v.kind = "list" => \A i \in DOMAIN v.entries : v.entries[i].key = 0

Counts == 0 .. MaxItems

\* What a walk that has refused the value hands on.
Refused == -1

StringFits(bytes) == bytes <= MaxStringBytes

Fold(F, base, entries) == FoldLeft(LAMBDA a, e : F[a][e], base, entries)

\* A loop over entries that hands the count on and ends at the first refusal.  walk
\* is the recursive call; an object's keys are strings, the entries of a list have none.
Turn(walk, nested, named) ==
    [count \in Counts \cup {Refused} |-> [e \in Entries(nested) |->
        IF count = Refused \/ (named /\ ~StringFits(e.key)) THEN Refused
        ELSE walk[e.value][count]]]

Loop(walk, nested, named, count, entries) == Fold(Turn(walk, nested, named), count, entries)

----
(* The validator of the client *)

ValidateObject(walk, object, depth, count) ==
    LET counted == count + Len(object.entries)
    IN  IF depth > MaxDepth \/ counted > MaxItems
        THEN Refused
        ELSE Loop(walk, Values, TRUE, counted, object.entries)

ValidateList(walk, list, count) ==
    LET counted == count + Len(list.entries)
    IN  IF counted > MaxItems THEN Refused
        ELSE Loop(walk, Values, FALSE, counted, list.entries)

ValidateValue(walk, value, depth, count) ==
    IF depth > MaxDepth THEN Refused
    ELSE CASE value.kind \in {"null", "bool"} -> count
           [] value.kind \in {"integer", "float"} -> IF value.data = 0 THEN count ELSE Refused
           [] value.kind = "string" -> IF StringFits(value.data) THEN count ELSE Refused
           [] value.kind = "object" -> ValidateObject(walk, value, depth, count)
           [] value.kind = "list" -> ValidateList(walk, value, count)
           [] OTHER -> Refused

Validator[depth \in 0 .. MaxDepth + 1] ==
    [value \in Values |-> [count \in Counts |->
        ValidateValue(Validator[depth + 1], value, depth, count)]]

IsValid(object) == ValidateObject(Validator[1], object, 0, 0) # Refused

----
(* The encoder *)

\* Mutant of CountItems: each collection is measured alone.
CountAlone(counter, entries) == IF Len(entries) > MaxItems THEN Refused ELSE counter

CountItems(counter, entries) ==
    IF counter + Len(entries) > MaxItems THEN Refused ELSE counter + Len(entries)

EncodeObject(walk, object, depth, counter) ==
    LET counted == CountItems(counter, object.entries)
    IN  IF depth > MaxDepth \/ counted = Refused
        THEN Refused
        ELSE Loop(walk, Values, TRUE, counted, object.entries)

EncodeList(walk, list, counter) ==
    LET counted == CountItems(counter, list.entries)
    IN  IF counted = Refused THEN Refused
        ELSE Loop(walk, Values, FALSE, counted, list.entries)

EncodeValue(walk, value, depth, counter) ==
    IF depth > MaxDepth THEN Refused
    ELSE CASE value.kind \in {"null", "bool"} -> counter
           [] value.kind \in {"integer", "float"} -> IF value.data = 0 THEN counter ELSE Refused
           [] value.kind = "string" -> IF StringFits(value.data) THEN counter ELSE Refused
           [] value.kind = "object" -> EncodeObject(walk, value, depth, counter)
           [] value.kind = "list" -> EncodeList(walk, value, counter)
           [] OTHER -> Refused

Encoder[depth \in 0 .. MaxDepth + 1] ==
    [value \in Values |-> [counter \in Counts |->
        EncodeValue(Encoder[depth + 1], value, depth, counter)]]

Encodes(object) == EncodeObject(Encoder[1], object, 0, 0) # Refused

\* Mutant of OneOf: a bool is taken for the int it also is in Python.
OneOfIntFirst(kind) == IF kind = "bool" THEN "integer_value" ELSE Fields[kind]

OneOf(kind) == Fields[kind]

\* The entries with each nested value converted.
Nest(entries, converted) ==
    [i \in DOMAIN entries |-> [entries[i] EXCEPT !.value = converted[@]]]

MessageOf(value, encoded) ==
    [kind |-> OneOf(value.kind), data |-> value.data,
     entries |-> Nest(value.entries, encoded)]

EncodedValue[depth \in 0 .. MaxDepth + 1] ==
    [value \in Values |->
        IF depth > MaxDepth THEN Refused ELSE MessageOf(value, EncodedValue[depth + 1])]

Encoded(object) == EncodedValue[0][object]

----
(* The decoder *)

DecodeObject(walk, object, depth, counter) ==
    LET counted == CountItems(counter, object.entries)
    IN  IF depth > MaxDepth \/ counted = Refused
        THEN Refused
        ELSE Loop(walk, Messages, TRUE, counted, object.entries)

DecodeList(walk, list, counter) ==
    LET counted == CountItems(counter, list.entries)
    IN  IF counted = Refused THEN Refused
        ELSE Loop(walk, Messages, FALSE, counted, list.entries)

\* An integer on the wire has 64 bits; a field that is not set is refused.
DecodeValue(walk, message, depth, counter) ==
    IF depth > MaxDepth THEN Refused
    ELSE CASE message.kind \in {"null_value", "bool_value", "integer_value"} -> counter
           [] message.kind = "float_value" -> IF message.data = 0 THEN counter ELSE Refused
           [] message.kind = "string_value" ->
                IF StringFits(message.data) THEN counter ELSE Refused
           [] message.kind = "object_value" -> DecodeObject(walk, message, depth, counter)
           [] message.kind = "list_value" -> DecodeList(walk, message, counter)
           [] OTHER -> Refused

Decoder[depth \in 0 .. MaxDepth + 1] ==
    [message \in Messages |-> [counter \in Counts |->
        DecodeValue(Decoder[depth + 1], message, depth, counter)]]

Decodes(message) == DecodeObject(Decoder[1], message, 0, 0) # Refused

\* The kind of the Python value made from the field that is set.
KindOf(oneof) == CHOOSE kind \in DOMAIN Fields : Fields[kind] = oneof

ValueOf(message, decoded) ==
    [kind |-> KindOf(message.kind), data |-> message.data,
     entries |-> Nest(message.entries, decoded)]

DecodedValue[depth \in 0 .. MaxDepth + 1] ==
    [message \in Messages |->
        IF depth > MaxDepth THEN Refused ELSE ValueOf(message, DecodedValue[depth + 1])]

Decoded(message) == DecodedValue[0][message]

====
