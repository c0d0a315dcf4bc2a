---- MODULE GrpcErrorsProofs ----
(***************************************************************************)
(* What map_grpc_error promises, proved for all details: what the loop    *)
(* over them leaves behind, which rule decides an error, and from these    *)
(* the properties of GrpcErrorMapping.                                     *)
(***************************************************************************)
EXTENDS GrpcErrorMapping, SharedLemmas, SequenceTheorems

----
(* The loop over the details *)

Parsed == [reason : AnyReason, retryAfter : (0 .. MaxRetryAfter) \cup {None}]

Unparsed == [reason |-> None, retryAfter |-> None]

Usable(details, i, kind) == details[i].kind = kind /\ details[i].usable

\* j is the last usable detail of its kind among the first k.
LastUsable(details, j, k, kind) ==
    /\ j \in 1 .. k
    /\ Usable(details, j, kind)
    /\ \A i \in j + 1 .. k : ~Usable(details, i, kind)

\* What the loop has read from the first k details.
ReadFrom(details, k, parsed) ==
    /\ (\A i \in 1 .. k : ~Usable(details, i, "ErrorInfo")) => parsed.reason = None
    /\ \A j : LastUsable(details, j, k, "ErrorInfo") => parsed.reason = details[j].reason
    /\ (\A i \in 1 .. k : ~Usable(details, i, "RetryInfo")) => parsed.retryAfter = None
    /\ \A j : LastUsable(details, j, k, "RetryInfo") =>
            parsed.retryAfter = ParseRetryDelay(details[j].delay)

LEMMA RetryDelayType ==
    ASSUME NEW delay \in Durations \cup {None}
    PROVE  /\ ParseRetryDelay(delay) \in (0 .. MaxRetryAfter) \cup {None}
           /\ ParseRetryDelay(delay) # None =>
                /\ delay # None
                /\ ParseRetryDelay(delay) = delay.seconds * PartsPerSecond + delay.nanos
                /\ delay.nanos \in 0 .. PartsPerSecond - 1
<1>1. CASE delay = None
  BY <1>1 DEF ParseRetryDelay
<1>2. CASE delay # None
  <2>1. delay.seconds \in Int /\ delay.nanos \in Int
    BY <1>2 DEF Durations
  <2> DEFINE parts == delay.seconds * PartsPerSecond + delay.nanos
  <2>2. parts \in Int /\ (delay.seconds >= 0 /\ delay.nanos >= 0 => parts >= 0)
    <3>1. delay.seconds * PartsPerSecond \in Int
      BY <2>1, BoundsAssumption
    <3>2. delay.seconds >= 0 => delay.seconds * PartsPerSecond >= 0
      BY <2>1, BoundsAssumption
    <3>3. QED
      BY <2>1, <3>1, <3>2
  <2>3. ParseRetryDelay(delay) = None \/ ParseRetryDelay(delay) = parts
    BY DEF ParseRetryDelay
  <2>4. ASSUME ParseRetryDelay(delay) # None
        PROVE  parts \in 0 .. MaxRetryAfter /\ delay.nanos \in 0 .. PartsPerSecond - 1
    <3> HIDE DEF parts
    <3>1. /\ ~(delay.seconds < 0) /\ ~(delay.nanos < 0)
          /\ ~(delay.nanos >= PartsPerSecond) /\ ~(parts > MaxRetryAfter)
      BY <2>4 DEF ParseRetryDelay, parts
    <3>2. QED
      BY <2>1, <2>2, <3>1, BoundsAssumption
  <2>5. QED
    BY <1>2, <2>3, <2>4
<1>3. QED
  BY <1>1, <1>2

LEMMA DetailFields ==
    ASSUME NEW detail \in StatusDetails
    PROVE  /\ detail.kind = "ErrorInfo" => detail.reason \in AnyReason
           /\ detail.kind = "RetryInfo" => detail.delay \in Durations \cup {None}
BY DEF StatusDetails

LEMMA AbsorbType ==
    ASSUME NEW parsed \in Parsed, NEW detail \in StatusDetails
    PROVE  Absorb(parsed, detail) \in Parsed
BY DetailFields, RetryDelayType DEF Absorb, Parsed

\* One turn of the loop reads one detail more.
LEMMA AbsorbReads ==
    ASSUME NEW details, NEW k \in Nat, NEW parsed, ReadFrom(details, k, parsed)
    PROVE  ReadFrom(details, k + 1, Absorb(parsed, details[k + 1]))
<1> DEFINE next == Absorb(parsed, details[k + 1])
<1>1. /\ next.reason = IF Usable(details, k + 1, "ErrorInfo")
                       THEN details[k + 1].reason
                       ELSE parsed.reason
      /\ next.retryAfter = IF Usable(details, k + 1, "RetryInfo")
                           THEN ParseRetryDelay(details[k + 1].delay)
                           ELSE parsed.retryAfter
  BY DEF Absorb, Usable
<1>2. ASSUME NEW kind, NEW j, LastUsable(details, j, k + 1, kind)
      PROVE  IF Usable(details, k + 1, kind)
             THEN j = k + 1
             ELSE LastUsable(details, j, k, kind)
  <2>1. j \in 1 .. k + 1 /\ \A i \in j + 1 .. k + 1 : ~Usable(details, i, kind)
    BY <1>2 DEF LastUsable
  <2>2. CASE Usable(details, k + 1, kind)
    BY <2>1, <2>2
  <2>3. CASE ~Usable(details, k + 1, kind)
    BY <1>2, <2>1, <2>3 DEF LastUsable
  <2>4. QED
    BY <2>2, <2>3
<1>3. 1 .. k \subseteq 1 .. k + 1 /\ k + 1 \in 1 .. k + 1
  OBVIOUS
<1> HIDE DEF next
<1>4. /\ (\A i \in 1 .. k + 1 : ~Usable(details, i, "ErrorInfo")) => next.reason = None
      /\ \A j : LastUsable(details, j, k + 1, "ErrorInfo") => next.reason = details[j].reason
  BY <1>1, <1>2, <1>3 DEF ReadFrom
<1>5. /\ (\A i \in 1 .. k + 1 : ~Usable(details, i, "RetryInfo")) => next.retryAfter = None
      /\ \A j : LastUsable(details, j, k + 1, "RetryInfo") =>
            next.retryAfter = ParseRetryDelay(details[j].delay)
  BY <1>1, <1>2, <1>3 DEF ReadFrom
<1>6. QED
  BY <1>4, <1>5 DEF ReadFrom, next

\* The fold over the details is the loop.
LEMMA LoopReadsAll ==
    ASSUME NEW details \in Seq(StatusDetails)
    PROVE  /\ FoldLeft(Absorb, Unparsed, details) \in Parsed
           /\ ReadFrom(details, Len(details), FoldLeft(Absorb, Unparsed, details))
<1> DEFINE n == Len(details)
           Loops(h) == h = [s \in SUBSET (1 .. n) |->
                              IF s = {}
                              THEN Unparsed
                              ELSE Absorb(h[s \ {Max(s)}], details[Max(s)])]
<1>1. n \in Nat /\ DOMAIN details = 1 .. n /\ \A i \in 1 .. n : details[i] \in StatusDetails
  OBVIOUS
<1>2. Unparsed \in Parsed
  BY DEF Unparsed, Parsed, AnyReason
<1>3. \E h : Loops(h)
  <2> DEFINE F == [i \in 1 .. n |-> [p \in Parsed |-> Absorb(p, details[i])]]
  <2>1. \A i \in 1 .. n : F[i] \in [Parsed -> Parsed]
    BY <1>1, AbsorbType
  <2>2. F \in [1 .. n -> [Parsed -> Parsed]]
    BY <2>1
  <2>3. PICK g \in [SUBSET (1 .. n) -> Parsed] : FoldsUpTo(g, n, Unparsed, F)
    <3> HIDE DEF F, n, Loops
    <3>1. n \in Nat
      BY <1>1
    <3>2. QED
      BY <1>2, <2>2, <3>1, FoldExists
  <2>4. ASSUME NEW s \in SUBSET (1 .. n)
        PROVE  g[s] = IF s = {}
                      THEN Unparsed
                      ELSE Absorb(g[s \ {Max(s)}], details[Max(s)])
    <3>1. g[s] = IF s = {} THEN Unparsed ELSE F[Max(s)][g[s \ {Max(s)}]]
      BY <2>3 DEF FoldsUpTo
    <3>2. CASE s # {}
      <4>1. Max(s) \in 1 .. n
        BY <1>1, <3>2, MaxProperties
      <4>2. g[s \ {Max(s)}] \in Parsed
        OBVIOUS
      <4>3. F[Max(s)][g[s \ {Max(s)}]] = Absorb(g[s \ {Max(s)}], details[Max(s)])
        BY <4>1, <4>2
      <4>4. QED
        BY <3>1, <3>2, <4>3
    <3>3. QED
      BY <3>1, <3>2
  <2>5. Loops(g)
    <3>1. g = [s \in SUBSET (1 .. n) |-> g[s]]
      OBVIOUS
    <3> HIDE DEF F, n
    <3>2. QED
      BY <2>4, <3>1
  <2>6. QED
    BY <2>5
<1> DEFINE h == CHOOSE g : Loops(g)
<1>4. Loops(h)
  <2> HIDE DEF Loops
  <2>1. QED
    BY <1>3
<1>5. FoldLeft(Absorb, Unparsed, details) = h[1 .. n]
  <2>1. FoldLeft(Absorb, Unparsed, details) = h[DOMAIN details]
    BY <1>1 DEF FoldLeft, MapThenFoldSet
  <2> HIDE DEF h, n
  <2>2. QED
    BY <1>1, <2>1
<1> DEFINE Reads(k) == h[1 .. k] \in Parsed /\ ReadFrom(details, k, h[1 .. k])
           T == {k \in Nat : k <= n => Reads(k)}
<1>6. Reads(0)
  <2>1. h[{}] = Unparsed
    <3> HIDE DEF h
    <3>1. QED
      BY <1>4
  <2>2. 1 .. 0 = {}
    OBVIOUS
  <2> HIDE DEF h
  <2>3. ReadFrom(details, 0, Unparsed)
    BY <2>2 DEF ReadFrom, LastUsable, Unparsed
  <2>4. QED
    BY <1>2, <2>1, <2>2, <2>3
<1>7. ASSUME NEW k \in Nat, k + 1 <= n, Reads(k)
      PROVE  Reads(k + 1)
  <2> HIDE DEF h
  <2> HIDE DEF n
  <2>1. 1 .. k + 1 \in SUBSET (1 .. n) /\ k + 1 \in Nat /\ 1 .. k + 1 # {}
    <3>1. k + 1 \in 1 .. k + 1 /\ \A i \in 1 .. k + 1 : i \in 1 .. n
      BY <1>1, <1>7
    <3>2. QED
      BY <3>1
  <2>2. Max(1 .. k + 1) = k + 1
    <3>1. Max(1 .. k + 1) \in 1 .. k + 1 /\ \A i \in 1 .. k + 1 : i <= Max(1 .. k + 1)
      BY <2>1, MaxProperties
    <3>2. QED
      BY <3>1
  <2>3. (1 .. k + 1) \ {k + 1} = 1 .. k
    OBVIOUS
  <2>4. h[1 .. k + 1] = Absorb(h[1 .. k], details[k + 1])
    BY <1>4, <2>1, <2>2, <2>3
  <2>5. details[k + 1] \in StatusDetails
    BY <1>1, <1>7
  <2>6. QED
    BY <1>7, <2>4, <2>5, AbsorbReads, AbsorbType
<1>8. Reads(n)
  <2> HIDE DEF Reads, n
  <2>1. 0 \in T /\ \A k \in Nat : k \in T => k + 1 \in T
    BY <1>1, <1>6, <1>7
  <2>2. n \in T
    <3> HIDE DEF T
    <3>1. QED
      BY <1>1, <2>1, SetInduction
  <2>3. QED
    BY <1>1, <2>2
<1>9. QED
  <2> HIDE DEF h
  <2>1. QED
    BY <1>5, <1>8

\* The details of a status that the loop sees.
VisibleDetails(error) ==
    IF error.readable
    THEN SubSeq(error.details, 1, Min({Len(error.details), MaxErrorDetails}))
    ELSE << >>

LEMMA VisibleDetailsType ==
    ASSUME NEW error \in RawErrors
    PROVE  /\ VisibleDetails(error) \in Seq(StatusDetails)
           /\ error.readable =>
                /\ Len(VisibleDetails(error)) \in Nat
                /\ \A i \in Int : i \in 1 .. Len(VisibleDetails(error)) <=>
                        i \in DOMAIN error.details /\ i <= MaxErrorDetails
                /\ \A i \in 1 .. Len(VisibleDetails(error)) :
                        VisibleDetails(error)[i] = error.details[i]
           /\ ~error.readable => Len(VisibleDetails(error)) = 0
<1> DEFINE m == Min({Len(error.details), MaxErrorDetails})
<1>1. error.details \in Seq(StatusDetails) /\ error.readable \in BOOLEAN
  BY DEF RawErrors
<1>2. Len(error.details) \in Nat /\ DOMAIN error.details = 1 .. Len(error.details)
  BY <1>1
<1>3. m \in {Len(error.details), MaxErrorDetails} /\ m <= Len(error.details)
        /\ m <= MaxErrorDetails
  BY <1>2, BoundsAssumption, MinProperties
<1> HIDE DEF m
<1>4. m \in Nat /\ \A i \in Int : i \in 1 .. m <=>
        i \in 1 .. Len(error.details) /\ i <= MaxErrorDetails
  BY <1>2, <1>3, BoundsAssumption
<1>5. /\ SubSeq(error.details, 1, m) \in Seq(StatusDetails)
      /\ Len(SubSeq(error.details, 1, m)) = m
      /\ \A i \in 1 .. m : SubSeq(error.details, 1, m)[i] = error.details[i]
  BY <1>1, <1>2, <1>3, <1>4
<1>6. CASE error.readable
  <2>1. VisibleDetails(error) = SubSeq(error.details, 1, m)
    BY <1>6 DEF VisibleDetails, m
  <2>2. QED
    BY <1>2, <1>4, <1>5, <1>6, <2>1
<1>7. CASE ~error.readable
  BY <1>7 DEF VisibleDetails
<1>8. QED
  BY <1>6, <1>7

\* What is parsed from an error is what the last usable visible details say.
LEMMA ParsedDetails ==
    ASSUME NEW error \in RawErrors
    PROVE  /\ ParseErrorDetails(error) \in Parsed
           /\ ReadFrom(VisibleDetails(error), Len(VisibleDetails(error)),
                       ParseErrorDetails(error))
<1>1. ParseErrorDetails(error) = FoldLeft(Absorb, Unparsed, VisibleDetails(error))
  BY DEF ParseErrorDetails, VisibleDetails, Unparsed
<1>2. QED
  BY <1>1, VisibleDetailsType, LoopReadsAll

----
(* The rules *)

Errors ==
    DomainErrors \cup
    {"RemoteAuthenticationError", "RemoteAuthorizationError", "RemoteProtocolError",
     "RemoteConflictError", "RemoteRunNotFoundError", "CompetitionClosedError",
     "RemoteSessionLostError", "RemoteRequestError", "RemoteRateLimitError",
     "RemoteUnavailableError", "RemoteTransportError", "RemoteServerError"}

RuleRecords ==
    [codes : SUBSET Codes, reasons : SUBSET AnyReason, error : Errors,
     retry : {"never", "idempotent", "always"}, delayed : BOOLEAN]

LEMMA RuleTypes ==
    /\ AccessRules \in Seq(RuleRecords) /\ Len(AccessRules) = 4
    /\ VerdictRules \in Seq(RuleRecords) /\ Len(VerdictRules) = 3
    /\ StateRules \in Seq(RuleRecords) /\ Len(StateRules) = 6
    /\ LimitRules \in Seq(RuleRecords) /\ Len(LimitRules) = 7
    /\ ConnectionRules \in Seq(RuleRecords) /\ Len(ConnectionRules) = 4
<1>1. ASSUME NEW codes \in SUBSET Codes, NEW reasons \in SUBSET AnyReason,
             NEW error \in Errors
      PROVE  /\ Plain(codes, reasons, error) \in RuleRecords
             /\ Rule(codes, reasons, error, "idempotent", FALSE) \in RuleRecords
             /\ Rule(codes, reasons, error, "always", FALSE) \in RuleRecords
             /\ Rule(codes, reasons, error, "always", TRUE) \in RuleRecords
  BY DEF Plain, Rule, RuleRecords
<1>2. AccessRules \in Seq(RuleRecords) /\ Len(AccessRules) = 4
  <2>1. /\ {"UNAUTHENTICATED"} \in SUBSET Codes /\ {"PERMISSION_DENIED"} \in SUBSET Codes
        /\ {"UNIMPLEMENTED"} \in SUBSET Codes
        /\ {"INCOMPATIBLE_PROTOCOL"} \in SUBSET AnyReason
        /\ {"RemoteAuthenticationError", "RemoteAuthorizationError",
            "RemoteProtocolError"} \subseteq Errors
    BY DEF Codes, AnyReason, RuntimeReasons, Errors
  <2>2. /\ Plain({"UNAUTHENTICATED"}, AnyReason, "RemoteAuthenticationError") \in RuleRecords
        /\ Plain({"PERMISSION_DENIED"}, AnyReason, "RemoteAuthorizationError") \in RuleRecords
        /\ Plain({"UNIMPLEMENTED"}, AnyReason, "RemoteProtocolError") \in RuleRecords
        /\ Plain(Codes, {"INCOMPATIBLE_PROTOCOL"}, "RemoteProtocolError") \in RuleRecords
    BY <1>1, <2>1
  <2>3. QED
    BY <2>2 DEF AccessRules
<1>3. VerdictRules \in Seq(RuleRecords) /\ Len(VerdictRules) = 3
  <2>1. /\ {"ALREADY_EXISTS"} \in SUBSET Codes
        /\ {"TASK_ALREADY_FINISHED"} \in SUBSET AnyReason
        /\ {"IDEMPOTENCY_CONFLICT"} \in SUBSET AnyReason
        /\ {"TaskAlreadyFinishedError", "RemoteConflictError"} \subseteq Errors
    BY DEF Codes, AnyReason, RuntimeReasons, Errors, DomainErrors
  <2>2. /\ Plain(Codes, {"TASK_ALREADY_FINISHED"}, "TaskAlreadyFinishedError") \in RuleRecords
        /\ Plain({"ALREADY_EXISTS"}, AnyReason, "RemoteConflictError") \in RuleRecords
        /\ Plain(Codes, {"IDEMPOTENCY_CONFLICT"}, "RemoteConflictError") \in RuleRecords
    BY <1>1, <2>1
  <2>3. QED
    BY <2>2 DEF VerdictRules
<1>4. StateRules \in Seq(RuleRecords) /\ Len(StateRules) = 6
  <2>1. /\ {"NOT_FOUND"} \in SUBSET Codes /\ {"FAILED_PRECONDITION"} \in SUBSET Codes
        /\ {"INVALID_ARGUMENT"} \in SUBSET Codes
        /\ {"TASK_NOT_FOUND"} \in SUBSET AnyReason
        /\ {"RUN_NOT_FOUND"} \in SUBSET AnyReason
        /\ {"COMPETITION_ARENA_CLOSED"} \in SUBSET AnyReason
        /\ {"TaskNotFoundError", "RemoteRunNotFoundError", "RemoteProtocolError",
            "CompetitionClosedError", "RemoteSessionLostError",
            "RemoteRequestError"} \subseteq Errors
    BY DEF Codes, AnyReason, RuntimeReasons, Errors, DomainErrors
  <2>2. /\ Plain({"NOT_FOUND"}, {"TASK_NOT_FOUND"}, "TaskNotFoundError") \in RuleRecords
        /\ Plain({"NOT_FOUND"}, {"RUN_NOT_FOUND"}, "RemoteRunNotFoundError") \in RuleRecords
        /\ Plain({"NOT_FOUND"}, AnyReason, "RemoteProtocolError") \in RuleRecords
        /\ Plain({"FAILED_PRECONDITION"}, {"COMPETITION_ARENA_CLOSED"},
                 "CompetitionClosedError") \in RuleRecords
        /\ Plain({"FAILED_PRECONDITION"}, AnyReason, "RemoteSessionLostError") \in RuleRecords
        /\ Plain({"INVALID_ARGUMENT"}, AnyReason, "RemoteRequestError") \in RuleRecords
    BY <1>1, <2>1
  <2>3. QED
    BY <2>2 DEF StateRules
<1>5. LimitRules \in Seq(RuleRecords) /\ Len(LimitRules) = 7
  <2>1. /\ RunCapacityReasons \in SUBSET AnyReason
        /\ TaskCapacityReasons \in SUBSET AnyReason
        /\ OperationCapacityReasons \in SUBSET AnyReason
        /\ IdempotencyCapacityReasons \in SUBSET AnyReason
        /\ RateLimitReasons \in SUBSET AnyReason
    BY DEF AnyReason, RuntimeReasons, LimitReasons, RunCapacityReasons,
           TaskCapacityReasons, OperationCapacityReasons, IdempotencyCapacityReasons,
           RateLimitReasons
  <2>2. /\ Exhausted \in SUBSET Codes
        /\ {"RunCapacityExceededError", "TaskCapacityExceededError",
            "OperationCapacityExceededError", "IdempotencyCapacityExceededError",
            "RemoteRateLimitError", "RemoteProtocolError"} \subseteq Errors
    BY DEF Codes, Exhausted, Errors, DomainErrors
  <2>3. /\ Plain(Exhausted, RunCapacityReasons, "RunCapacityExceededError") \in RuleRecords
        /\ Plain(Exhausted, TaskCapacityReasons, "TaskCapacityExceededError") \in RuleRecords
        /\ Plain(Exhausted, OperationCapacityReasons, "OperationCapacityExceededError")
                \in RuleRecords
        /\ Plain(Exhausted, IdempotencyCapacityReasons, "IdempotencyCapacityExceededError")
                \in RuleRecords
        /\ Rule(Exhausted, RateLimitReasons, "RemoteRateLimitError", "always", TRUE)
                \in RuleRecords
        /\ Plain(Exhausted, RateLimitReasons, "RemoteRateLimitError") \in RuleRecords
        /\ Plain(Exhausted, AnyReason, "RemoteProtocolError") \in RuleRecords
    BY <1>1, <2>1, <2>2
  <2>4. \A r, t, o, i, d, f, u \in RuleRecords :
            <<r, t, o, i, d, f, u>> \in Seq(RuleRecords) /\ Len(<<r, t, o, i, d, f, u>>) = 7
    OBVIOUS
  <2>5. QED
    BY <2>3, <2>4, Zenon DEF LimitRules
<1>6. ConnectionRules \in Seq(RuleRecords) /\ Len(ConnectionRules) = 4
  <2>1. /\ {"UNAVAILABLE"} \in SUBSET Codes /\ {"DEADLINE_EXCEEDED"} \in SUBSET Codes
        /\ {"CANCELLED"} \in SUBSET Codes
        /\ {"RemoteUnavailableError", "RemoteTransportError",
            "RemoteServerError"} \subseteq Errors
    BY DEF Codes, Errors
  <2>2. /\ Rule({"UNAVAILABLE"}, AnyReason, "RemoteUnavailableError", "always", FALSE)
                \in RuleRecords
        /\ Rule({"DEADLINE_EXCEEDED"}, AnyReason, "RemoteTransportError", "idempotent", FALSE)
                \in RuleRecords
        /\ Plain({"CANCELLED"}, AnyReason, "RemoteTransportError") \in RuleRecords
        /\ Plain(Codes, AnyReason, "RemoteServerError") \in RuleRecords
    BY <1>1, <2>1
  <2>3. \A u, d, c, e \in RuleRecords :
            <<u, d, c, e>> \in Seq(RuleRecords) /\ Len(<<u, d, c, e>>) = 4
    OBVIOUS
  <2>4. QED
    BY <2>2, <2>3, Zenon DEF ConnectionRules
<1>7. QED
  BY <1>2, <1>3, <1>4, <1>5, <1>6

\* The table of rules, told by the number of the rule.
LEMMA RuleTable ==
    /\ Rules \in Seq(RuleRecords) /\ DOMAIN Rules = 1 .. 24
    /\ \A i \in 1 .. 4 : Rules[i] = AccessRules[i]
    /\ \A i \in 5 .. 7 : Rules[i] = VerdictRules[i - 4]
    /\ \A i \in 8 .. 13 : Rules[i] = StateRules[i - 7]
    /\ \A i \in 14 .. 20 : Rules[i] = LimitRules[i - 13]
    /\ \A i \in 21 .. 24 : Rules[i] = ConnectionRules[i - 20]
<1> DEFINE Joins(c, a, b) ==
              /\ c \in Seq(RuleRecords)
              /\ Len(c) = Len(a) + Len(b)
              /\ \A i \in 1 .. Len(a) + Len(b) :
                     c[i] = IF i <= Len(a) THEN a[i] ELSE b[i - Len(a)]
<1>1. \A a, b \in Seq(RuleRecords) : \A c : c = a \o b => Joins(c, a, b)
  <2> TAKE a, b \in Seq(RuleRecords)
  <2>1. Joins(a \o b, a, b)
    BY ConcatProperties, Zenon
  <2>2. QED
    BY <2>1, Zenon
<1> DEFINE upToVerdict == AccessRules \o VerdictRules
           upToState == upToVerdict \o StateRules
           upToLimit == upToState \o LimitRules
<1>2. /\ upToVerdict = AccessRules \o VerdictRules
      /\ upToState = upToVerdict \o StateRules
      /\ upToLimit = upToState \o LimitRules
      /\ Rules = upToLimit \o ConnectionRules
  BY DEF Rules
<1> HIDE DEF upToVerdict, upToState, upToLimit
<1>3. /\ upToVerdict \in Seq(RuleRecords) /\ Len(upToVerdict) = 7
      /\ \A i \in 1 .. 4 : upToVerdict[i] = AccessRules[i]
      /\ \A i \in 5 .. 7 : upToVerdict[i] = VerdictRules[i - 4]
  <2>1. Joins(upToVerdict, AccessRules, VerdictRules)
    <3> HIDE DEF Joins
    <3>1. QED
      BY <1>1, <1>2, RuleTypes, Zenon
  <2>2. QED
    BY <2>1, RuleTypes
<1>4. /\ upToState \in Seq(RuleRecords) /\ Len(upToState) = 13
      /\ \A i \in 1 .. 7 : upToState[i] = upToVerdict[i]
      /\ \A i \in 8 .. 13 : upToState[i] = StateRules[i - 7]
  <2>1. Joins(upToState, upToVerdict, StateRules)
    <3> HIDE DEF Joins
    <3>1. QED
      BY <1>1, <1>2, <1>3, RuleTypes, Zenon
  <2>2. QED
    BY <1>3, <2>1, RuleTypes
<1>5. /\ upToLimit \in Seq(RuleRecords) /\ Len(upToLimit) = 20
      /\ \A i \in 1 .. 13 : upToLimit[i] = upToState[i]
      /\ \A i \in 14 .. 20 : upToLimit[i] = LimitRules[i - 13]
  <2>1. Joins(upToLimit, upToState, LimitRules)
    <3> HIDE DEF Joins
    <3>1. QED
      BY <1>1, <1>2, <1>4, RuleTypes, Zenon
  <2>2. QED
    BY <1>4, <2>1, RuleTypes
<1>6. /\ Rules \in Seq(RuleRecords) /\ Len(Rules) = 24
      /\ \A i \in 1 .. 20 : Rules[i] = upToLimit[i]
      /\ \A i \in 21 .. 24 : Rules[i] = ConnectionRules[i - 20]
  <2>1. Joins(Rules, upToLimit, ConnectionRules)
    <3> HIDE DEF Joins
    <3>1. QED
      BY <1>1, <1>2, <1>5, RuleTypes, Zenon
  <2>2. QED
    BY <1>5, <2>1, RuleTypes
<1>7. QED
  BY <1>3, <1>4, <1>5, <1>6

Matches(error, i) ==
    /\ error.code \in Rules[i].codes
    /\ ParseErrorDetails(error).reason \in Rules[i].reasons
    /\ Rules[i].delayed => ParseErrorDetails(error).retryAfter # None

\* The k-th rule is the first that matches.
Decides(error, k) ==
    /\ k \in 1 .. 24
    /\ Matches(error, k)
    /\ \A i \in 1 .. k - 1 : ~Matches(error, i)

\* The fields of the rules that the properties are about.
LEMMA RuleFields ==
    /\ \A i \in 1 .. 24 :
        /\ Rules[i].retry = "always" <=> i \in {18, 21}
        /\ Rules[i].retry = "idempotent" <=> i = 22
        /\ Rules[i].delayed <=> i = 18
        /\ Rules[i].error = "RemoteRateLimitError" <=> i \in {18, 19}
    /\ Rules[4].codes = Codes /\ Rules[4].reasons = {"INCOMPATIBLE_PROTOCOL"}
    /\ Rules[5].codes = Codes /\ Rules[5].reasons = {"TASK_ALREADY_FINISHED"}
    /\ Rules[7].codes = Codes /\ Rules[7].reasons = {"IDEMPOTENCY_CONFLICT"}
    /\ \A i \in (1 .. 13) \ {4, 5, 7} : "RESOURCE_EXHAUSTED" \notin Rules[i].codes
    /\ \A i \in 14 .. 20 : Rules[i].codes = {"RESOURCE_EXHAUSTED"}
    /\ Rules[14].reasons = RunCapacityReasons
    /\ Rules[15].reasons = TaskCapacityReasons
    /\ Rules[16].reasons = OperationCapacityReasons
    /\ Rules[17].reasons = IdempotencyCapacityReasons
    /\ Rules[18].reasons = RateLimitReasons
    /\ Rules[19].reasons = RateLimitReasons
    /\ Rules[21].codes = {"UNAVAILABLE"} /\ Rules[22].codes = {"DEADLINE_EXCEEDED"}
    /\ Rules[24].codes = Codes /\ Rules[24].reasons = AnyReason
    /\ Rules[14].error = "RunCapacityExceededError"
    /\ Rules[15].error = "TaskCapacityExceededError"
    /\ Rules[16].error = "OperationCapacityExceededError"
    /\ Rules[17].error = "IdempotencyCapacityExceededError"
<1>1. \A codes, reasons, error :
        /\ Plain(codes, reasons, error).codes = codes
        /\ Plain(codes, reasons, error).reasons = reasons
        /\ Plain(codes, reasons, error).error = error
        /\ Plain(codes, reasons, error).retry = "never"
        /\ ~Plain(codes, reasons, error).delayed
  BY DEF Plain, Rule
<1>2. /\ Rules[1] = Plain({"UNAUTHENTICATED"}, AnyReason, "RemoteAuthenticationError")
      /\ Rules[2] = Plain({"PERMISSION_DENIED"}, AnyReason, "RemoteAuthorizationError")
      /\ Rules[3] = Plain({"UNIMPLEMENTED"}, AnyReason, "RemoteProtocolError")
      /\ Rules[4] = Plain(Codes, {"INCOMPATIBLE_PROTOCOL"}, "RemoteProtocolError")
  BY RuleTable DEF AccessRules
<1>3. /\ Rules[5] = Plain(Codes, {"TASK_ALREADY_FINISHED"}, "TaskAlreadyFinishedError")
      /\ Rules[6] = Plain({"ALREADY_EXISTS"}, AnyReason, "RemoteConflictError")
      /\ Rules[7] = Plain(Codes, {"IDEMPOTENCY_CONFLICT"}, "RemoteConflictError")
  BY RuleTable DEF VerdictRules
<1>4. /\ Rules[8] = Plain({"NOT_FOUND"}, {"TASK_NOT_FOUND"}, "TaskNotFoundError")
      /\ Rules[9] = Plain({"NOT_FOUND"}, {"RUN_NOT_FOUND"}, "RemoteRunNotFoundError")
      /\ Rules[10] = Plain({"NOT_FOUND"}, AnyReason, "RemoteProtocolError")
      /\ Rules[11] = Plain({"FAILED_PRECONDITION"}, {"COMPETITION_ARENA_CLOSED"},
                           "CompetitionClosedError")
      /\ Rules[12] = Plain({"FAILED_PRECONDITION"}, AnyReason, "RemoteSessionLostError")
      /\ Rules[13] = Plain({"INVALID_ARGUMENT"}, AnyReason, "RemoteRequestError")
  BY RuleTable DEF StateRules
<1>5. /\ Rules[14] = Plain({"RESOURCE_EXHAUSTED"}, RunCapacityReasons, "RunCapacityExceededError")
      /\ Rules[15] = Plain({"RESOURCE_EXHAUSTED"}, TaskCapacityReasons, "TaskCapacityExceededError")
      /\ Rules[16] = Plain({"RESOURCE_EXHAUSTED"}, OperationCapacityReasons,
                           "OperationCapacityExceededError")
      /\ Rules[17] = Plain({"RESOURCE_EXHAUSTED"}, IdempotencyCapacityReasons,
                           "IdempotencyCapacityExceededError")
      /\ Rules[19] = Plain({"RESOURCE_EXHAUSTED"}, RateLimitReasons, "RemoteRateLimitError")
      /\ Rules[20] = Plain({"RESOURCE_EXHAUSTED"}, AnyReason, "RemoteProtocolError")
  BY RuleTable DEF LimitRules, Exhausted
<1>6. /\ Rules[18].codes = {"RESOURCE_EXHAUSTED"} /\ Rules[18].reasons = RateLimitReasons
      /\ Rules[18].error = "RemoteRateLimitError" /\ Rules[18].retry = "always"
      /\ Rules[18].delayed
  BY RuleTable DEF LimitRules, Exhausted, Rule
<1>7. /\ Rules[21].codes = {"UNAVAILABLE"} /\ Rules[21].error = "RemoteUnavailableError"
      /\ Rules[21].retry = "always" /\ ~Rules[21].delayed
      /\ Rules[22].codes = {"DEADLINE_EXCEEDED"} /\ Rules[22].error = "RemoteTransportError"
      /\ Rules[22].retry = "idempotent" /\ ~Rules[22].delayed
  <2>1. Rules[21] = ConnectionRules[1] /\ Rules[22] = ConnectionRules[2]
    BY RuleTable
  <2>2. /\ ConnectionRules[1] = [codes |-> {"UNAVAILABLE"}, reasons |-> AnyReason,
                                 error |-> "RemoteUnavailableError", retry |-> "always",
                                 delayed |-> FALSE]
        /\ ConnectionRules[2] = [codes |-> {"DEADLINE_EXCEEDED"}, reasons |-> AnyReason,
                                 error |-> "RemoteTransportError", retry |-> "idempotent",
                                 delayed |-> FALSE]
    BY DEF ConnectionRules, Rule
  <2>3. QED
    BY <2>1, <2>2
<1>8. /\ Rules[23] = Plain({"CANCELLED"}, AnyReason, "RemoteTransportError")
      /\ Rules[24] = Plain(Codes, AnyReason, "RemoteServerError")
  BY RuleTable DEF ConnectionRules
<1>9. \A i \in 1 .. 13 :
        /\ Rules[i].retry = "never" /\ ~Rules[i].delayed
        /\ Rules[i].error # "RemoteRateLimitError"
  BY <1>1, <1>2, <1>3, <1>4
<1>10. \A i \in {14, 15, 16, 17, 20, 23, 24} :
        /\ Rules[i].retry = "never" /\ ~Rules[i].delayed
        /\ Rules[i].error # "RemoteRateLimitError"
  BY <1>1, <1>5, <1>8
<1>11. /\ Rules[19].retry = "never" /\ ~Rules[19].delayed
       /\ Rules[19].error = "RemoteRateLimitError"
  BY <1>1, <1>5
<1>12. \A i \in 1 .. 24 :
        /\ Rules[i].retry = "always" <=> i \in {18, 21}
        /\ Rules[i].retry = "idempotent" <=> i = 22
        /\ Rules[i].delayed <=> i = 18
        /\ Rules[i].error = "RemoteRateLimitError" <=> i \in {18, 19}
  <2> TAKE i \in 1 .. 24
  <2>1. \/ i \in 1 .. 13 \/ i \in {14, 15, 16, 17, 20, 23, 24}
        \/ i = 18 \/ i = 19 \/ i = 21 \/ i = 22
    OBVIOUS
  <2>2. QED
    BY <1>6, <1>7, <1>9, <1>10, <1>11, <2>1
<1>13. /\ Rules[4].codes = Codes /\ Rules[4].reasons = {"INCOMPATIBLE_PROTOCOL"}
       /\ Rules[5].codes = Codes /\ Rules[5].reasons = {"TASK_ALREADY_FINISHED"}
       /\ Rules[7].codes = Codes /\ Rules[7].reasons = {"IDEMPOTENCY_CONFLICT"}
       /\ Rules[24].codes = Codes /\ Rules[24].reasons = AnyReason
  BY <1>1, <1>2, <1>3, <1>8
<1>14. \A i \in (1 .. 13) \ {4, 5, 7} : "RESOURCE_EXHAUSTED" \notin Rules[i].codes
  BY <1>1, <1>2, <1>3, <1>4
<1>15. /\ \A i \in 14 .. 20 : Rules[i].codes = {"RESOURCE_EXHAUSTED"}
       /\ Rules[14].reasons = RunCapacityReasons
       /\ Rules[15].reasons = TaskCapacityReasons
       /\ Rules[16].reasons = OperationCapacityReasons
       /\ Rules[17].reasons = IdempotencyCapacityReasons
       /\ Rules[19].reasons = RateLimitReasons
       /\ Rules[14].error = "RunCapacityExceededError"
       /\ Rules[15].error = "TaskCapacityExceededError"
       /\ Rules[16].error = "OperationCapacityExceededError"
       /\ Rules[17].error = "IdempotencyCapacityExceededError"
  BY <1>1, <1>5, <1>6
<1>16. QED
  BY <1>6, <1>7, <1>12, <1>13, <1>14, <1>15

\* Every error is decided by one rule.
LEMMA OneRuleDecides ==
    ASSUME NEW error \in RawErrors, NEW idempotent \in BOOLEAN
    PROVE  \E k \in 1 .. 24 :
              /\ Decides(error, k)
              /\ MapGrpcError(error, idempotent) =
                    [error |-> Rules[k].error,
                     retryable |-> \/ Rules[k].retry = "always"
                                   \/ Rules[k].retry = "idempotent" /\ idempotent,
                     retryAfter |-> IF Rules[k].delayed
                                    THEN ParseErrorDetails(error).retryAfter
                                    ELSE None]
<1> DEFINE matching == {i \in 1 .. 24 : Matches(error, i)}
<1>1. 24 \in matching
  <2>1. error.code \in Codes /\ ParseErrorDetails(error).reason \in AnyReason
    BY ParsedDetails DEF RawErrors, Parsed
  <2>2. ~Rules[24].delayed
    BY RuleFields
  <2>3. QED
    BY <2>1, <2>2, RuleFields DEF Matches
<1>2. matching \in SUBSET Nat /\ matching # {}
  BY <1>1
<1>3. Min(matching) \in matching /\ \A i \in matching : Min(matching) <= i
  <2> HIDE DEF matching
  <2>1. QED
    BY <1>2, MinProperties
<1>4. Decides(error, Min(matching))
  <2> DEFINE k == Min(matching)
  <2>1. k \in 1 .. 24 /\ Matches(error, k)
    BY <1>3
  <2>2. \A i \in 1 .. 24 : Matches(error, i) => k <= i
    BY <1>3
  <2> HIDE DEF k
  <2>3. Decides(error, k)
    BY <2>1, <2>2 DEF Decides
  <2>4. QED
    BY <2>3 DEF k
<1>5. matching = {i \in DOMAIN Rules :
                    /\ error.code \in Rules[i].codes
                    /\ ParseErrorDetails(error).reason \in Rules[i].reasons
                    /\ Rules[i].delayed => ParseErrorDetails(error).retryAfter # None}
  BY RuleTable DEF Matches
<1>6. MapGrpcError(error, idempotent) =
        [error |-> Rules[Min(matching)].error,
         retryable |-> \/ Rules[Min(matching)].retry = "always"
                       \/ Rules[Min(matching)].retry = "idempotent" /\ idempotent,
         retryAfter |-> IF Rules[Min(matching)].delayed
                        THEN ParseErrorDetails(error).retryAfter
                        ELSE None]
  <2> HIDE DEF matching
  <2>1. QED
    BY <1>5, Zenon DEF MapGrpcError
<1>7. QED
  <2> HIDE DEF matching
  <2>1. Min(matching) \in 1 .. 24
    BY <1>4 DEF Decides
  <2>2. QED
    BY <1>4, <1>6, <2>1, Zenon

\* What the exception and the permission to retry say about the error.
LEMMA MappedError ==
    ASSUME NEW error \in RawErrors, NEW idempotent \in BOOLEAN
    PROVE  LET mapped == MapGrpcError(error, idempotent)
               parsed == ParseErrorDetails(error)
           IN  /\ mapped.error \in Exceptions
               /\ mapped.retryable \in BOOLEAN
               /\ mapped.retryAfter \in (0 .. MaxRetryAfter) \cup {None}
               /\ mapped.retryAfter # None => mapped.retryAfter = parsed.retryAfter
               /\ mapped.retryable =>
                    /\ parsed.reason \notin {"TASK_ALREADY_FINISHED", "IDEMPOTENCY_CONFLICT",
                                             "INCOMPATIBLE_PROTOCOL"}
                    /\ \/ error.code = "UNAVAILABLE"
                       \/ error.code = "DEADLINE_EXCEEDED" /\ idempotent
                       \/ error.code = "RESOURCE_EXHAUSTED" /\ parsed.reason \in RateLimitReasons
               /\ mapped.error = "RemoteRateLimitError" =>
                    (mapped.retryable <=> mapped.retryAfter # None)
               /\ error.code = "RESOURCE_EXHAUSTED" /\ parsed.reason \in LimitReasons =>
                    mapped.error \in
                        {"RunCapacityExceededError", "TaskCapacityExceededError",
                         "OperationCapacityExceededError",
                         "IdempotencyCapacityExceededError", "RemoteRateLimitError"}
<1> DEFINE mapped == MapGrpcError(error, idempotent)
           parsed == ParseErrorDetails(error)
<1>1. error.code \in Codes /\ parsed \in Parsed
  BY ParsedDetails DEF RawErrors
<1>2. PICK k \in 1 .. 24 :
        /\ Decides(error, k)
        /\ mapped = [error |-> Rules[k].error,
                     retryable |-> \/ Rules[k].retry = "always"
                                   \/ Rules[k].retry = "idempotent" /\ idempotent,
                     retryAfter |-> IF Rules[k].delayed
                                    THEN parsed.retryAfter
                                    ELSE None]
  BY OneRuleDecides, Zenon
<1>3. /\ mapped.error = Rules[k].error
      /\ mapped.retryable <=> \/ Rules[k].retry = "always"
                              \/ Rules[k].retry = "idempotent" /\ idempotent
      /\ mapped.retryable \in BOOLEAN
      /\ mapped.retryAfter = IF Rules[k].delayed THEN parsed.retryAfter ELSE None
  <2> HIDE DEF mapped, parsed
  <2>1. QED
    BY <1>2
<1>4. /\ error.code \in Rules[k].codes /\ parsed.reason \in Rules[k].reasons
      /\ Rules[k].delayed => parsed.retryAfter # None
      /\ \A i \in 1 .. k - 1 : ~Matches(error, i)
  BY <1>2 DEF Decides, Matches
<1> HIDE DEF mapped
<1>5. mapped.error \in Exceptions
  BY <1>3, RuleTable DEF Exceptions
<1>6. /\ mapped.retryAfter \in (0 .. MaxRetryAfter) \cup {None}
      /\ mapped.retryAfter # None => mapped.retryAfter = parsed.retryAfter
  BY <1>1, <1>3 DEF Parsed
<1>7. ASSUME mapped.retryable
      PROVE  /\ parsed.reason \notin {"TASK_ALREADY_FINISHED", "IDEMPOTENCY_CONFLICT",
                                      "INCOMPATIBLE_PROTOCOL"}
             /\ \/ error.code = "UNAVAILABLE"
                \/ error.code = "DEADLINE_EXCEEDED" /\ idempotent
                \/ error.code = "RESOURCE_EXHAUSTED" /\ parsed.reason \in RateLimitReasons
  <2>1. k \in {18, 21, 22} /\ (k = 22 => idempotent)
    BY <1>3, <1>7, RuleFields
  <2>2. ~Matches(error, 4) /\ ~Matches(error, 5) /\ ~Matches(error, 7)
    BY <1>4, <2>1
  <2>3. parsed.reason \notin {"TASK_ALREADY_FINISHED", "IDEMPOTENCY_CONFLICT",
                              "INCOMPATIBLE_PROTOCOL"}
    BY <1>1, <2>2, RuleFields DEF Matches
  <2>4. QED
    BY <1>4, <2>1, <2>3, RuleFields
<1>8. mapped.error = "RemoteRateLimitError" =>
        (mapped.retryable <=> mapped.retryAfter # None)
  <2>1. CASE k = 18
    <3>1. mapped.retryable /\ Rules[k].delayed
      BY <1>3, <2>1, RuleFields
    <3>2. mapped.retryAfter # None
      BY <1>3, <1>4, <3>1
    <3>3. QED
      BY <3>1, <3>2
  <2>2. CASE k = 19
    <3>1. Rules[k].retry # "always" /\ Rules[k].retry # "idempotent" /\ ~Rules[k].delayed
      BY <2>2, RuleFields
    <3>2. ~mapped.retryable /\ mapped.retryAfter = None
      BY <1>3, <3>1
    <3>3. QED
      BY <3>2
  <2>3. CASE k \notin {18, 19}
    <3>1. mapped.error # "RemoteRateLimitError"
      BY <1>3, <2>3, RuleFields
    <3>2. QED
      BY <3>1
  <2>4. QED
    BY <2>1, <2>2, <2>3
<1>9. ASSUME error.code = "RESOURCE_EXHAUSTED", parsed.reason \in LimitReasons
      PROVE  mapped.error \in
                {"RunCapacityExceededError", "TaskCapacityExceededError",
                 "OperationCapacityExceededError", "IdempotencyCapacityExceededError",
                 "RemoteRateLimitError"}
  <2>1. k \notin 1 .. 13
    <3>1. parsed.reason \notin {"TASK_ALREADY_FINISHED", "IDEMPOTENCY_CONFLICT",
                                "INCOMPATIBLE_PROTOCOL"}
      BY <1>9 DEF LimitReasons
    <3>2. QED
      BY <1>4, <1>9, <3>1, RuleFields
  <2>2. ~(k > 19)
    <3>1. \/ parsed.reason \in RunCapacityReasons
          \/ parsed.reason \in TaskCapacityReasons
          \/ parsed.reason \in OperationCapacityReasons
          \/ parsed.reason \in IdempotencyCapacityReasons
          \/ parsed.reason \in RateLimitReasons
      BY <1>9 DEF LimitReasons, RunCapacityReasons, TaskCapacityReasons,
                  OperationCapacityReasons, IdempotencyCapacityReasons, RateLimitReasons
    <3>2. \/ Matches(error, 14) \/ Matches(error, 15) \/ Matches(error, 16)
          \/ Matches(error, 17) \/ Matches(error, 19)
      BY <1>9, <3>1, RuleFields DEF Matches
    <3>3. QED
      BY <1>4, <3>2
  <2>3. k \in {14, 15, 16, 17, 18, 19}
    BY <2>1, <2>2
  <2>4. QED
    BY <1>3, <2>3, RuleFields
<1>10. QED
  BY <1>3, <1>5, <1>6, <1>7, <1>8, <1>9 DEF mapped

----
(* The inductive invariant *)

\* The input is a raw error, and the output is what the code maps it to.
MappingInv ==
    /\ rawError \in RawErrors
    /\ isIdempotent \in BOOLEAN
    /\ mappedError = None \/ mappedError = MapGrpcError(rawError, isIdempotent)

\* The invariant holds in every state.
THEOREM MappingCorrect == MappingSpec => []MappingInv
<1>1. MappingInit => MappingInv
  BY DetailsAssumption DEF MappingInit, MappingInv, RawErrors
<1>2. MappingInv /\ [MappingNext]_mappingVars => MappingInv'
  BY DEF MappingInv, MappingNext, MapError, mappingVars
<1>3. QED
  BY <1>1, <1>2, PTL DEF MappingSpec

----
(* The details, read backwards *)

\* What the loop has parsed is what the last usable visible details say.
LEMMA ParsedAsRead ==
    ASSUME rawError \in RawErrors
    PROVE  /\ ParseErrorDetails(rawError).reason = Reason
           /\ LastOf("RetryInfo") = 0 => ParseErrorDetails(rawError).retryAfter = None
           /\ LastOf("RetryInfo") # 0 =>
                /\ LastOf("RetryInfo") \in DOMAIN rawError.details
                /\ rawError.details[LastOf("RetryInfo")].kind = "RetryInfo"
                /\ ParseErrorDetails(rawError).retryAfter = ParseRetryDelay(Delay)
<1> DEFINE seen == VisibleDetails(rawError)
           n == Len(seen)
           parsed == ParseErrorDetails(rawError)
<1>1. /\ rawError.details \in Seq(StatusDetails) /\ rawError.readable \in BOOLEAN
      /\ Len(rawError.details) \in Nat /\ DOMAIN rawError.details = 1 .. Len(rawError.details)
  BY DEF RawErrors
<1>2. n \in Nat /\ Visible = 1 .. n /\ \A i \in 1 .. n : seen[i] = rawError.details[i]
  <2>1. CASE rawError.readable
    <3>1. /\ n \in Nat
          /\ \A i \in Int : i \in 1 .. n <=> i \in DOMAIN rawError.details /\ i <= MaxErrorDetails
          /\ \A i \in 1 .. n : seen[i] = rawError.details[i]
      BY <2>1, VisibleDetailsType
    <3> HIDE DEF seen, n
    <3>2. Visible = {i \in DOMAIN rawError.details : i <= MaxErrorDetails}
      BY <2>1 DEF Visible
    <3>3. QED
      BY <1>1, <3>1, <3>2
  <2>2. CASE ~rawError.readable
    <3>1. n = 0
      BY <2>2, VisibleDetailsType
    <3> HIDE DEF seen, n
    <3>2. Visible = {}
      BY <2>2 DEF Visible
    <3>3. QED
      BY <3>1, <3>2
  <2>3. QED
    BY <2>1, <2>2
<1>3. ReadFrom(seen, n, parsed)
  BY ParsedDetails
<1> HIDE DEF seen, n, parsed
<1>4. ASSUME NEW kind
      PROVE  \/ /\ LastOf(kind) = 0
                /\ \A i \in 1 .. n : ~Usable(seen, i, kind)
             \/ /\ LastOf(kind) # 0
                /\ LastUsable(seen, LastOf(kind), n, kind)
                /\ seen[LastOf(kind)] = rawError.details[LastOf(kind)]
                /\ LastOf(kind) \in DOMAIN rawError.details
                /\ rawError.details[LastOf(kind)].kind = kind
  <2> DEFINE those == {i \in Visible : /\ rawError.details[i].kind = kind
                                       /\ rawError.details[i].usable}
  <2>1. those \in SUBSET (1 .. n) /\ \A i \in 1 .. n : i \in those <=> Usable(seen, i, kind)
    BY <1>2 DEF Usable
  <2>2. LastOf(kind) = IF those = {} THEN 0 ELSE Max(those)
    BY DEF LastOf
  <2> HIDE DEF those
  <2>3. CASE those = {}
    BY <2>1, <2>2, <2>3
  <2>4. CASE those # {}
    <3>1. LastOf(kind) \in those /\ \A i \in those : i <= LastOf(kind)
      BY <1>2, <2>1, <2>2, <2>4, MaxProperties
    <3>2. LastOf(kind) \in 1 .. n
      BY <2>1, <3>1
    <3>3. LastUsable(seen, LastOf(kind), n, kind)
      BY <1>2, <2>1, <3>1, <3>2 DEF LastUsable
    <3>4. LastOf(kind) \in DOMAIN rawError.details /\ rawError.details[LastOf(kind)].kind = kind
      BY <3>1 DEF those, Visible
    <3>5. QED
      BY <1>2, <3>2, <3>3, <3>4
  <2>5. QED
    BY <2>3, <2>4
<1>5. parsed.reason = Reason
  BY <1>3, <1>4 DEF ReadFrom, Reason
<1>6. /\ LastOf("RetryInfo") = 0 => parsed.retryAfter = None
      /\ LastOf("RetryInfo") # 0 => parsed.retryAfter = ParseRetryDelay(Delay)
  BY <1>3, <1>4 DEF ReadFrom, Delay
<1>7. QED
  BY <1>4, <1>5, <1>6 DEF parsed

----
(* The properties *)

\* An attempt is repeated only if the code of the error leaves the request undecided
\* and its reason is none of the three verdicts that a repetition may meet.
THEOREM OnlyUndecidedIsRetried == MappingSpec => []RetryOnlyUndecided
<1>1. MappingInv => RetryOnlyUndecided
  <2> SUFFICES ASSUME MappingInv, mappedError # None, mappedError.retryable
               PROVE  RetryOnlyUndecided
    BY DEF RetryOnlyUndecided
  <2>1. /\ rawError \in RawErrors /\ isIdempotent \in BOOLEAN
        /\ mappedError = MapGrpcError(rawError, isIdempotent)
    BY DEF MappingInv
  <2>2. QED
    BY <2>1, MappedError, ParsedAsRead DEF RetryOnlyUndecided
<1>2. QED
  BY <1>1, MappingCorrect, PTL

\* The delay the loop is told to sleep is the last one the status carries, and
\* never beyond the bound.
THEOREM DelayIsTheServers == MappingSpec => []RetryDelayIsTheServers
<1>1. MappingInv => RetryDelayIsTheServers
  <2> SUFFICES ASSUME MappingInv, mappedError # None
               PROVE  RetryDelayIsTheServers
    BY DEF RetryDelayIsTheServers
  <2>1. /\ rawError \in RawErrors /\ isIdempotent \in BOOLEAN
        /\ mappedError = MapGrpcError(rawError, isIdempotent)
    BY DEF MappingInv
  <2>2. /\ mappedError.retryAfter \in (0 .. MaxRetryAfter) \cup {None}
        /\ mappedError.retryAfter # None =>
                mappedError.retryAfter = ParseErrorDetails(rawError).retryAfter
        /\ mappedError.error = "RemoteRateLimitError" =>
                (mappedError.retryable <=> mappedError.retryAfter # None)
    BY <2>1, MappedError
  <2>3. ASSUME mappedError.retryAfter # None
        PROVE  /\ mappedError.retryAfter \in 0 .. MaxRetryAfter
               /\ Delay # None
               /\ mappedError.retryAfter = Delay.seconds * PartsPerSecond + Delay.nanos
               /\ Delay.nanos \in 0 .. PartsPerSecond - 1
    <3>1. mappedError.retryAfter = ParseErrorDetails(rawError).retryAfter
      BY <2>2, <2>3
    <3>2. LastOf("RetryInfo") # 0
      BY <2>1, <2>3, <3>1, ParsedAsRead
    <3>3. /\ LastOf("RetryInfo") \in DOMAIN rawError.details
          /\ rawError.details[LastOf("RetryInfo")].kind = "RetryInfo"
          /\ ParseErrorDetails(rawError).retryAfter = ParseRetryDelay(Delay)
      BY <2>1, <3>2, ParsedAsRead
    <3>4. Delay = rawError.details[LastOf("RetryInfo")].delay
      BY <3>2 DEF Delay
    <3>5. rawError.details[LastOf("RetryInfo")] \in StatusDetails
      BY <2>1, <3>3 DEF RawErrors
    <3>6. Delay \in Durations \cup {None}
      BY <3>3, <3>4, <3>5, DetailFields
    <3>7. QED
      BY <2>2, <2>3, <3>1, <3>3, <3>6, RetryDelayType
  <2>4. QED
    BY <2>2, <2>3 DEF RetryDelayIsTheServers
<1>2. QED
  BY <1>1, MappingCorrect, PTL

\* Every limit in LimitReasons has an exception of its own kind.
THEOREM EveryLimitHasItsError == MappingSpec => []LimitsHaveTheirError
<1>1. MappingInv => LimitsHaveTheirError
  <2> SUFFICES ASSUME MappingInv, mappedError # None, rawError.code = "RESOURCE_EXHAUSTED",
                      Reason \in LimitReasons
               PROVE  LimitsHaveTheirError
    BY DEF LimitsHaveTheirError
  <2>1. /\ rawError \in RawErrors /\ isIdempotent \in BOOLEAN
        /\ mappedError = MapGrpcError(rawError, isIdempotent)
    BY DEF MappingInv
  <2>2. ParseErrorDetails(rawError).reason \in LimitReasons
    BY <2>1, ParsedAsRead
  <2>3. QED
    BY <2>1, <2>2, MappedError DEF LimitsHaveTheirError
<1>2. QED
  BY <1>1, MappingCorrect, PTL

====
