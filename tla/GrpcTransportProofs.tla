---- MODULE GrpcTransportProofs ----
(***************************************************************************)
(* Theorems about GrpcTransport, for every set of calls, every retry       *)
(* policy and all errors a server may answer.                              *)
(***************************************************************************)
EXTENDS GrpcTransport, GrpcErrorsProofs

----
(* The inductive invariant *)

\* Where a call is in the loop says how many attempts it has made.
AttemptsAreCounted ==
    \A c \in Calls :
        /\ pc[c] = "idle" => attempt[c] = 0
        /\ pc[c] \in {"attempting", "sleeping"} => attempt[c] >= 1
        /\ pc[c] = "sleeping" => attempt[c] < MaxAttempts
        /\ outcome[c] = "RemoteClientStateError" => attempt[c] = 0

\* A call has slept at most the longest delay between each two of its attempts.
SleepsAreBounded ==
    \A c \in Calls :
        /\ delay[c] <= LongestDelay
        /\ pc[c] \in {"idle", "attempting"} => delay[c] = 0
        /\ pc[c] = "idle" => slept[c] = 0
        /\ pc[c] \in {"attempting", "sleeping"} =>
                slept[c] <= (attempt[c] - 1) * LongestDelay
        /\ slept[c] + delay[c] <= (MaxAttempts - 1) * LongestDelay

\* What is on the network comes from an attempt that was made.
CopiesWereSent ==
    \A x \in wire \cup replies \cup heard : x.attempt <= attempt[x.call]

\* An answer that forbids a retry is the answer to the last attempt.
Final(r) == r.error = None \/ ~Mapped[r.error].retryable

VerdictsEndTheLoop ==
    \A r \in heard : Final(r) => pc[r.call] = "done" /\ r.attempt = attempt[r.call]

\* The server executes what it has not served, and answers what it has.
StoreIsEffect == \A c \in Calls : effects[c] = IF c \in store THEN 1 ELSE 0

AnswersAreStored ==
    /\ \A r \in replies : r.error = None => r.call \in store
    /\ \A c \in Calls : outcome[c] = "returned" => c \in store

\* It is aclose that has the channel closed.
OpenUntilClosed == ~closed => channel = "open"

IInv ==
    /\ TypeOK
    /\ AttemptsAreCounted
    /\ SleepsAreBounded
    /\ CopiesWereSent
    /\ VerdictsEndTheLoop
    /\ StoreIsEffect
    /\ AnswersAreStored
    /\ OpenUntilClosed

----
(* The retry policy *)

LEMMA GrowthType == \A n \in 0 .. MaxAttempts : Growth[n] \in Nat
<1> DEFINE F == [x \in Nat |-> Multiplier * x]
           Grows(g) == g = [n \in 0 .. MaxAttempts |->
                              IF n = 0 THEN 1 ELSE Multiplier * g[n - 1]]
<1>1. F \in [Nat -> Nat]
  <2>1. \A x \in Nat : Multiplier * x \in Nat
    BY TransportAssumption
  <2>2. QED
    BY <2>1
<1>2. PICK g \in [0 .. MaxAttempts -> Nat] : Iterates(g, MaxAttempts, 1, F)
  <2> HIDE DEF F
  <2>1. MaxAttempts \in Nat /\ 1 \in Nat
    BY TransportAssumption
  <2>2. QED
    BY <1>1, <2>1, IterationExists
<1>3. Grows(g)
  <2>1. \A i \in 0 .. MaxAttempts : g[i] = IF i = 0 THEN 1 ELSE Multiplier * g[i - 1]
    <3> TAKE i \in 0 .. MaxAttempts
    <3>1. CASE i = 0
      BY <1>2, <3>1 DEF Iterates
    <3>2. CASE i # 0
      <4>1. i - 1 \in 0 .. MaxAttempts
        BY <3>2, TransportAssumption
      <4>2. g[i - 1] \in Nat
        BY <4>1
      <4>3. g[i] = F[g[i - 1]]
        BY <1>2, <3>2 DEF Iterates
      <4>4. QED
        BY <3>2, <4>2, <4>3
    <3>3. QED
      BY <3>1, <3>2
  <2>2. QED
    BY <2>1
<1>4. Grows(Growth)
  <2>1. Growth = CHOOSE h : Grows(h)
    BY DEF Growth
  <2> HIDE DEF Grows
  <2>2. QED
    BY <1>3, <2>1
<1> DEFINE T == {n \in Nat : n <= MaxAttempts => Growth[n] \in Nat}
<1>5. 0 \in T
  BY <1>4, TransportAssumption
<1>6. ASSUME NEW n \in Nat, n \in T
      PROVE  n + 1 \in T
  <2>1. SUFFICES ASSUME n + 1 <= MaxAttempts
                 PROVE  Growth[n + 1] \in Nat
    OBVIOUS
  <2>2. Growth[n] \in Nat /\ n + 1 \in 0 .. MaxAttempts
    BY <1>6, <2>1, TransportAssumption
  <2>3. Growth[n + 1] = Multiplier * Growth[n]
    <3>1. \A i \in 0 .. MaxAttempts : Growth[i] = IF i = 0 THEN 1 ELSE Multiplier * Growth[i - 1]
      BY <1>4
    <3>2. n + 1 # 0 /\ (n + 1) - 1 = n
      OBVIOUS
    <3>3. QED
      BY <2>2, <3>1, <3>2
  <2>4. QED
    BY <2>2, <2>3, TransportAssumption
<1>7. Nat \subseteq T
  <2> HIDE DEF T
  <2>1. QED
    BY <1>5, <1>6, SetInduction
<1>8. QED
  BY <1>7, TransportAssumption

LEMMA BackoffBounded == \A n \in 1 .. MaxAttempts : Backoff(n) \in 0 .. MaxBackoff
<1> TAKE n \in 1 .. MaxAttempts
<1>1. Growth[n - 1] \in Nat
  BY GrowthType, TransportAssumption
<1>2. InitialBackoff * Growth[n - 1] \in Nat
  BY <1>1, TransportAssumption
<1> DEFINE grown == InitialBackoff * Growth[n - 1]
<1> HIDE DEF grown
<1>3. grown \in Nat /\ MaxBackoff \in Nat
  BY <1>2, TransportAssumption DEF grown
<1>4. Min({grown, MaxBackoff}) \in {grown, MaxBackoff} /\ Min({grown, MaxBackoff}) <= MaxBackoff
  BY <1>3, MinProperties
<1>5. Min({grown, MaxBackoff}) \in 0 .. MaxBackoff
  BY <1>3, <1>4
<1>6. QED
  BY <1>5 DEF Backoff, grown

LEMMA LongestDelayIsLongest ==
    LongestDelay \in Nat /\ MaxBackoff <= LongestDelay /\ MaxRetryAfter <= LongestDelay
<1>1. MaxBackoff \in Nat /\ MaxRetryAfter \in Nat
  BY TransportAssumption, BoundsAssumption
<1>2. \E x \in {MaxBackoff, MaxRetryAfter} : \A y \in {MaxBackoff, MaxRetryAfter} : x >= y
  BY <1>1
<1>3. QED
  BY <1>1, <1>2 DEF LongestDelay, Max

\* The errors an attempt may meet.
Meets == ServerErrors \cup {LocalError("UNAVAILABLE"), LocalError("DEADLINE_EXCEEDED")}

LEMMA MappedType ==
    ASSUME NEW error \in Meets
    PROVE  /\ Mapped[error].error \in Exceptions
           /\ Mapped[error].retryable \in BOOLEAN
           /\ Mapped[error].retryAfter \in (0 .. MaxRetryAfter) \cup {None}
<1>1. LocalError("UNAVAILABLE") \in RawErrors /\ LocalError("DEADLINE_EXCEEDED") \in RawErrors
  BY DEF LocalError, RawErrors, Codes
<1>2. error \in RawErrors
  BY <1>1, TransportAssumption DEF Meets
<1>3. Mapped[error] = MapGrpcError(error, TRUE)
  BY DEF Mapped, Meets
<1>4. QED
  BY <1>2, <1>3, MappedError, Zenon

\* An exception is not one of the other ways in which a call ends.
LEMMA ExceptionsAreErrors ==
    Exceptions \cap {"returned", "RemoteClientStateError"} = {}
<1>1. \A i \in DOMAIN Rules : Rules[i].error \in Errors
  <2>1. \A i \in DOMAIN Rules : Rules[i] \in RuleRecords
    <3>1. Rules \in Seq(RuleRecords)
      BY RuleTable
    <3>2. QED
      BY <3>1
  <2>2. QED
    BY <2>1 DEF RuleRecords
<1>2. QED
  BY <1>1 DEF Exceptions, Errors, DomainErrors

----
(* Steps of the loop *)

LoopType ==
    /\ pc \in [Calls -> {"idle", "attempting", "sleeping", "done"}]
    /\ attempt \in [Calls -> 0 .. MaxAttempts]
    /\ delay \in [Calls -> Nat]
    /\ slept \in [Calls -> Nat]
    /\ outcome \in [Calls -> Outcomes \cup {None}]
    /\ \A c \in Calls : outcome[c] # None <=> pc[c] = "done"

LoopInv == LoopType /\ AttemptsAreCounted /\ SleepsAreBounded

\* One pause more, and the bound on the sum of the pauses.
LEMMA Pauses ==
    ASSUME NEW n \in 1 .. MaxAttempts, NEW s \in Nat, s <= (n - 1) * LongestDelay
    PROVE  /\ s <= (MaxAttempts - 1) * LongestDelay
           /\ n < MaxAttempts =>
                \A d \in Nat : d <= LongestDelay =>
                    /\ s + d <= n * LongestDelay
                    /\ s + d <= (MaxAttempts - 1) * LongestDelay
<1> DEFINE L == LongestDelay
<1>1. L \in Nat /\ MaxAttempts \in Nat
  BY LongestDelayIsLongest, TransportAssumption
<1> HIDE DEF L
<1>2. ASSUME NEW i \in Nat, NEW j \in Nat, i <= j
      PROVE  i * L <= j * L
  <2> DEFINE a == i * L
             b == (j - i) * L
  <2>1. j * L = a + b
    BY <1>1
  <2>2. a \in Int /\ b \in Nat
    BY <1>1, <1>2
  <2> HIDE DEF a, b
  <2>3. a <= a + b
    BY <2>2
  <2>4. QED
    BY <2>1, <2>3 DEF a
<1>3. n * L = (n - 1) * L + L
  BY <1>1
<1>4. (n - 1) * L \in Nat /\ n * L \in Nat /\ (MaxAttempts - 1) * L \in Nat
  BY <1>1
<1>5. /\ (n - 1) * L <= (MaxAttempts - 1) * L
      /\ n < MaxAttempts => n * L <= (MaxAttempts - 1) * L
  BY <1>1, <1>2
<1>6. s <= (n - 1) * L
  BY DEF L
<1>7. /\ s <= (MaxAttempts - 1) * L
      /\ n < MaxAttempts =>
                \A d \in Nat : d <= L => s + d <= n * L /\ s + d <= (MaxAttempts - 1) * L
  BY <1>1, <1>3, <1>4, <1>5, <1>6
<1>8. QED
  BY <1>7 DEF L

\* _invoke ends.
LEMMA EndsLoop ==
    ASSUME LoopInv, NEW c \in Calls, NEW what \in Outcomes, Ends(c, what),
           pc[c] # "idle" => what # "RemoteClientStateError"
    PROVE  LoopInv'
<1> USE DEF LoopInv
<1>1. what # None
  BY OutcomesAssumption
<1>2. LoopType'
  BY <1>1 DEF LoopType, Ends
<1>3. AttemptsAreCounted'
  BY DEF LoopType, AttemptsAreCounted, Ends
<1>4. SleepsAreBounded'
  <2> SUFFICES ASSUME NEW d \in Calls
               PROVE  /\ delay'[d] <= LongestDelay
                      /\ pc'[d] \in {"idle", "attempting"} => delay'[d] = 0
                      /\ pc'[d] = "idle" => slept'[d] = 0
                      /\ pc'[d] \in {"attempting", "sleeping"} =>
                              slept'[d] <= (attempt'[d] - 1) * LongestDelay
                      /\ slept'[d] + delay'[d] <= (MaxAttempts - 1) * LongestDelay
    BY DEF SleepsAreBounded, LongestDelay
  <2>1. CASE d = c
    BY <2>1 DEF LoopType, SleepsAreBounded, Ends
  <2>2. CASE d # c
    BY <2>2 DEF LoopType, SleepsAreBounded, Ends
  <2>3. QED
    BY <2>1, <2>2 DEF SleepsAreBounded
<1>5. QED
  BY <1>2, <1>3, <1>4

\* An attempt that fails is the last, or there is a pause before the next.
LEMMA FailsLoop ==
    ASSUME LoopInv, NEW c \in Calls, NEW error \in Meets, pc[c] = "attempting",
           AttemptFails(c, error)
    PROVE  /\ LoopInv'
           /\ attempt' = attempt
           /\ \A d \in Calls \ {c} : pc'[d] = pc[d] /\ outcome'[d] = outcome[d]
           /\ pc'[c] # "sleeping" => pc'[c] = "done"
           /\ ~Mapped[error].retryable => pc'[c] = "done"
           /\ outcome'[c] # "returned" /\ outcome'[c] # "RemoteClientStateError"
           /\ outcome'[c] = None <=> pc'[c] = "sleeping"
<1> DEFINE mapped == Mapped[error]
<1>1. /\ mapped.error \in Exceptions /\ mapped.retryable \in BOOLEAN
      /\ mapped.retryAfter \in (0 .. MaxRetryAfter) \cup {None}
  BY MappedType
<1> HIDE DEF mapped
<1>2. LoopType /\ AttemptsAreCounted /\ SleepsAreBounded
  BY DEF LoopInv
<1>3. attempt[c] \in 1 .. MaxAttempts /\ slept[c] \in Nat
        /\ slept[c] <= (attempt[c] - 1) * LongestDelay
  BY <1>2, TransportAssumption DEF LoopType, AttemptsAreCounted, SleepsAreBounded
<1>4. CASE MayRetry(c, mapped)
  <2> DEFINE pause == IF mapped.retryAfter # None
                      THEN mapped.retryAfter
                      ELSE Backoff(attempt[c])
  <2>1. pause \in Nat /\ pause <= LongestDelay
    <3>1. Backoff(attempt[c]) \in 0 .. MaxBackoff
      BY <1>3, BackoffBounded
    <3>2. QED
      BY <1>1, <3>1, LongestDelayIsLongest, TransportAssumption, BoundsAssumption
  <2>2. /\ pc' = [pc EXCEPT ![c] = "sleeping"]
        /\ delay' = [delay EXCEPT ![c] = pause]
        /\ UNCHANGED <<attempt, slept, outcome>>
        /\ attempt[c] < MaxAttempts
        /\ mapped.retryable
    BY <1>4 DEF AttemptFails, MayRetry, mapped
  <2> HIDE DEF pause
  <2>3. LoopType'
    BY <1>2, <2>1, <2>2 DEF LoopType
  <2>4. AttemptsAreCounted'
    BY <1>2, <1>3, <2>2 DEF LoopType, AttemptsAreCounted
  <2>5. slept[c] + pause <= (MaxAttempts - 1) * LongestDelay
    BY <1>3, <2>1, <2>2, Pauses
  <2>6. SleepsAreBounded'
    <3> SUFFICES ASSUME NEW d \in Calls
                 PROVE  /\ delay'[d] <= LongestDelay
                        /\ pc'[d] \in {"idle", "attempting"} => delay'[d] = 0
                        /\ pc'[d] = "idle" => slept'[d] = 0
                        /\ pc'[d] \in {"attempting", "sleeping"} =>
                                slept'[d] <= (attempt'[d] - 1) * LongestDelay
                        /\ slept'[d] + delay'[d] <= (MaxAttempts - 1) * LongestDelay
      BY <2>2, LongestDelayIsLongest DEF SleepsAreBounded, LongestDelay
    <3>1. CASE d = c
      BY <1>2, <1>3, <2>1, <2>2, <2>5, <3>1 DEF LoopType
    <3>2. CASE d # c
      BY <1>2, <2>2, <3>2 DEF LoopType, SleepsAreBounded
    <3>3. QED
      BY <3>1, <3>2
  <2>7. pc'[c] = "sleeping" /\ outcome'[c] = None
    BY <1>2, <2>2 DEF LoopType
  <2>8. QED
    BY <1>2, <2>2, <2>3, <2>4, <2>6, <2>7, OutcomesAssumption DEF LoopInv, LoopType, mapped, Outcomes
<1>5. CASE ~MayRetry(c, mapped)
  <2>1. Ends(c, mapped.error)
    BY <1>5 DEF AttemptFails, Raised, mapped
  <2>2. /\ mapped.error \in Outcomes /\ mapped.error # None
        /\ mapped.error # "returned" /\ mapped.error # "RemoteClientStateError"
    BY <1>1, ExceptionsAreErrors, OutcomesAssumption DEF Outcomes
  <2>3. LoopInv'
    BY <2>1, <2>2, EndsLoop
  <2>4. QED
    BY <1>2, <2>1, <2>2, <2>3 DEF Ends, LoopType
<1>6. QED
  BY <1>4, <1>5

\* An attempt is made, as the first or after a pause.
LEMMA AttemptsLoop ==
    ASSUME LoopInv, NEW c \in Calls, Attempts(c), attempt[c] < MaxAttempts,
           \/ pc[c] = "idle" /\ UNCHANGED <<delay, slept>>
           \/ /\ pc[c] = "sleeping"
              /\ slept' = [slept EXCEPT ![c] = @ + delay[c]]
              /\ delay' = [delay EXCEPT ![c] = 0]
    PROVE  LoopInv'
<1> USE DEF LoopInv
<1>1. /\ LoopType /\ AttemptsAreCounted /\ SleepsAreBounded
      /\ pc' = [pc EXCEPT ![c] = "attempting"]
      /\ attempt' = [attempt EXCEPT ![c] = attempt[c] + 1]
      /\ outcome' = outcome
  BY DEF Attempts
<1>2. attempt[c] \in Nat /\ delay[c] \in Nat /\ slept[c] \in Nat
  BY <1>1 DEF LoopType
<1>3. LoopType'
  BY <1>1, <1>2, TransportAssumption DEF LoopType
<1>4. AttemptsAreCounted'
  <2>1. outcome[c] # "RemoteClientStateError"
    BY <1>1, OutcomesAssumption DEF LoopType, Outcomes
  <2>2. attempt'[c] = attempt[c] + 1 /\ pc'[c] = "attempting" /\ outcome'[c] = outcome[c]
    BY <1>1, <1>2 DEF LoopType
  <2>3. \A d \in Calls \ {c} :
            pc'[d] = pc[d] /\ attempt'[d] = attempt[d] /\ outcome'[d] = outcome[d]
    BY <1>1 DEF LoopType
  <2>4. QED
    BY <1>1, <1>2, <2>1, <2>2, <2>3 DEF AttemptsAreCounted
<1>5. /\ delay'[c] = 0
      /\ slept'[c] \in Nat
      /\ slept'[c] <= attempt[c] * LongestDelay
      /\ slept'[c] <= (MaxAttempts - 1) * LongestDelay
  <2>1. CASE pc[c] = "idle" /\ UNCHANGED <<delay, slept>>
    <3>1. attempt[c] = 0 /\ slept[c] = 0 /\ delay[c] = 0 /\ slept' = slept /\ delay' = delay
      BY <1>1, <2>1 DEF AttemptsAreCounted, SleepsAreBounded
    <3>2. 0 * LongestDelay = 0 /\ (MaxAttempts - 1) * LongestDelay >= 0
      BY LongestDelayIsLongest, TransportAssumption
    <3>3. QED
      BY <3>1, <3>2
  <2>2. CASE /\ pc[c] = "sleeping"
             /\ slept' = [slept EXCEPT ![c] = @ + delay[c]]
             /\ delay' = [delay EXCEPT ![c] = 0]
    <3>1. delay'[c] = 0 /\ slept'[c] = slept[c] + delay[c]
      BY <1>1, <2>2 DEF LoopType
    <3>2. /\ attempt[c] \in 1 .. MaxAttempts /\ delay[c] <= LongestDelay
          /\ slept[c] <= (attempt[c] - 1) * LongestDelay
      BY <1>1, <2>2 DEF LoopType, AttemptsAreCounted, SleepsAreBounded
    <3>3. QED
      BY <1>2, <3>1, <3>2, Pauses
  <2>3. QED
    BY <2>1, <2>2
<1>6. \A d \in Calls \ {c} : /\ delay'[d] = delay[d] /\ slept'[d] = slept[d]
                             /\ attempt'[d] = attempt[d] /\ pc'[d] = pc[d]
  BY <1>1 DEF LoopType
<1>7. SleepsAreBounded'
  <2> SUFFICES ASSUME NEW d \in Calls
               PROVE  /\ delay'[d] <= LongestDelay
                      /\ pc'[d] \in {"idle", "attempting"} => delay'[d] = 0
                      /\ pc'[d] = "idle" => slept'[d] = 0
                      /\ pc'[d] \in {"attempting", "sleeping"} =>
                              slept'[d] <= (attempt'[d] - 1) * LongestDelay
                      /\ slept'[d] + delay'[d] <= (MaxAttempts - 1) * LongestDelay
    BY DEF SleepsAreBounded, LongestDelay
  <2>1. CASE d = c
    <3>1. pc'[c] = "attempting" /\ attempt'[c] - 1 = attempt[c]
      BY <1>1, <1>2 DEF LoopType
    <3>2. slept'[c] + delay'[c] = slept'[c]
      BY <1>5
    <3>3. QED
      BY <1>5, <2>1, <3>1, <3>2, LongestDelayIsLongest
  <2>2. CASE d # c
    BY <1>1, <1>6, <2>2 DEF SleepsAreBounded
  <2>3. QED
    BY <2>1, <2>2
<1>8. QED
  BY <1>3, <1>4, <1>7

\* The channel refuses the attempt that would follow a pause.
LEMMA RefusedLoop ==
    ASSUME LoopInv, NEW c \in Calls, WakeRefused(c)
    PROVE  LoopInv'
<1> USE DEF LoopInv
<1>1. /\ pc[c] = "sleeping"
      /\ pc' = [pc EXCEPT ![c] = "done"]
      /\ outcome' = [outcome EXCEPT ![c] = "refused by the channel"]
      /\ slept' = [slept EXCEPT ![c] = slept[c] + delay[c]]
      /\ delay' = [delay EXCEPT ![c] = 0]
      /\ attempt' = attempt
  BY DEF WakeRefused, Sleeps
<1>2. slept[c] \in Nat /\ delay[c] \in Nat
  BY DEF LoopType
<1>3. "refused by the channel" \in Outcomes /\ "refused by the channel" # None
  BY OutcomesAssumption DEF Outcomes
<1>4. LoopType'
  <2>1. /\ pc' \in [Calls -> {"idle", "attempting", "sleeping", "done"}]
        /\ attempt' \in [Calls -> 0 .. MaxAttempts]
        /\ outcome' \in [Calls -> Outcomes \cup {None}]
        /\ \A d \in Calls : outcome'[d] # None <=> pc'[d] = "done"
    BY <1>1, <1>3 DEF LoopType
  <2>2. slept[c] + delay[c] \in Nat
    BY <1>2
  <2>3. delay' \in [Calls -> Nat] /\ slept' \in [Calls -> Nat]
    BY <1>1, <2>2 DEF LoopType
  <2>4. QED
    BY <2>1, <2>3 DEF LoopType
<1>5. AttemptsAreCounted'
  BY <1>1 DEF LoopType, AttemptsAreCounted
<1>6. SleepsAreBounded'
  <2> SUFFICES ASSUME NEW d \in Calls
               PROVE  /\ delay'[d] <= LongestDelay
                      /\ pc'[d] \in {"idle", "attempting"} => delay'[d] = 0
                      /\ pc'[d] = "idle" => slept'[d] = 0
                      /\ pc'[d] \in {"attempting", "sleeping"} =>
                              slept'[d] <= (attempt'[d] - 1) * LongestDelay
                      /\ slept'[d] + delay'[d] <= (MaxAttempts - 1) * LongestDelay
    BY DEF SleepsAreBounded, LongestDelay
  <2>1. CASE d = c
    <3>1. pc'[c] = "done" /\ delay'[c] = 0 /\ slept'[c] = slept[c] + delay[c]
      BY <1>1 DEF LoopType
    <3>2. slept[c] + delay[c] <= (MaxAttempts - 1) * LongestDelay
      BY DEF SleepsAreBounded
    <3>3. QED
      BY <1>2, <2>1, <3>1, <3>2, LongestDelayIsLongest
  <2>2. CASE d # c
    BY <1>1, <2>2 DEF LoopType, SleepsAreBounded
  <2>3. QED
    BY <2>1, <2>2
<1>7. QED
  BY <1>4, <1>5, <1>6

----
(* The invariant is inductive *)

NetType ==
    /\ closed \in BOOLEAN
    /\ channel \in {"open", "due", "closing", "shut"}
    /\ wire \subseteq Copies
    /\ replies \subseteq Answers
    /\ heard \subseteq Answers
    /\ store \subseteq Calls
    /\ effects \in [Calls -> Nat]

NetInv ==
    /\ NetType
    /\ CopiesWereSent
    /\ VerdictsEndTheLoop
    /\ StoreIsEffect
    /\ AnswersAreStored
    /\ OpenUntilClosed

LEMMA InvParts == IInv <=> LoopInv /\ NetInv
BY DEF IInv, TypeOK, LoopInv, LoopType, NetInv, NetType

LEMMA InvInit == Init => IInv
<1> SUFFICES ASSUME Init
             PROVE  IInv
  OBVIOUS
<1> USE DEF Init
<1>1. LoopType
  <2>1. 0 \in 0 .. MaxAttempts
    BY TransportAssumption
  <2>2. QED
    BY <2>1 DEF LoopType
<1>2. AttemptsAreCounted
  <2>1. None # "RemoteClientStateError"
    BY OutcomesAssumption DEF Outcomes
  <2>2. QED
    BY <2>1 DEF AttemptsAreCounted
<1>3. SleepsAreBounded
  <2>1. LongestDelay \in Nat /\ MaxAttempts - 1 \in Nat
    BY LongestDelayIsLongest, TransportAssumption
  <2>2. (MaxAttempts - 1) * LongestDelay >= 0
    BY <2>1
  <2>3. QED
    BY <2>1, <2>2 DEF SleepsAreBounded
<1>4. NetInv
  BY OutcomesAssumption
     DEF NetInv, NetType, CopiesWereSent, VerdictsEndTheLoop, StoreIsEffect,
         AnswersAreStored, OpenUntilClosed, Outcomes
<1>5. QED
  BY <1>1, <1>2, <1>3, <1>4, InvParts DEF LoopInv

\* The network and the server see nothing of a call that ends without an answer.
LEMMA EndsNet ==
    ASSUME LoopInv, NetInv, NEW c \in Calls, NEW what, Ends(c, what), what # "returned",
           UNCHANGED <<closed, channel, netVars, serverVars>>
    PROVE  NetInv'
<1> USE DEF NetInv, netVars, serverVars
<1>1. NetType' /\ OpenUntilClosed' /\ StoreIsEffect'
  BY DEF NetType, OpenUntilClosed, StoreIsEffect
<1>2. CopiesWereSent'
  BY DEF CopiesWereSent, Ends
<1>3. VerdictsEndTheLoop'
  BY DEF VerdictsEndTheLoop, Final, Ends, LoopInv, LoopType, NetType, Answers, Mapped
<1>4. AnswersAreStored'
  BY DEF AnswersAreStored, Ends, LoopInv, LoopType
<1>5. QED
  BY <1>1, <1>2, <1>3, <1>4

LEMMA RejectStep ==
    ASSUME LoopInv, NetInv, NEW c \in Calls, RejectClosed(c)
    PROVE  LoopInv' /\ NetInv'
<1>1. Ends(c, "RemoteClientStateError") /\ pc[c] = "idle"
  BY DEF RejectClosed
<1>2. "RemoteClientStateError" \in Outcomes
  BY DEF Outcomes
<1>3. QED
  BY <1>1, <1>2, EndsLoop, EndsNet DEF RejectClosed

LEMMA CutOffStep ==
    ASSUME LoopInv, NetInv, NEW c \in Calls, AttemptCutOff(c)
    PROVE  LoopInv' /\ NetInv'
<1>1. Ends(c, "cancelled by the channel")
  BY DEF AttemptCutOff
<1>2. "cancelled by the channel" \in Outcomes
  BY DEF Outcomes
<1>3. QED
  BY <1>1, <1>2, EndsLoop, EndsNet DEF AttemptCutOff

LEMMA CancelStep ==
    ASSUME LoopInv, NetInv, NEW c \in Calls, Cancel(c)
    PROVE  LoopInv' /\ NetInv'
<1>1. Ends(c, "CancelledError")
  BY DEF Cancel
<1>2. "CancelledError" \in Outcomes
  BY DEF Outcomes
<1>3. QED
  BY <1>1, <1>2, EndsLoop, EndsNet DEF Cancel

LEMMA RefusedStep ==
    ASSUME LoopInv, NetInv, NEW c \in Calls, WakeRefused(c)
    PROVE  LoopInv' /\ NetInv'
<1>1. LoopInv'
  BY RefusedLoop
<1>2. /\ UNCHANGED <<attempt, wire, replies, heard, store, effects, closed, channel>>
      /\ pc' = [pc EXCEPT ![c] = "done"]
      /\ outcome' = [outcome EXCEPT ![c] = "refused by the channel"]
  BY DEF WakeRefused, Sleeps, netVars, serverVars
<1> USE DEF NetInv
<1>3. NetType' /\ OpenUntilClosed' /\ StoreIsEffect' /\ CopiesWereSent'
  BY <1>2 DEF NetType, OpenUntilClosed, StoreIsEffect, CopiesWereSent
<1>4. VerdictsEndTheLoop'
  BY <1>2 DEF VerdictsEndTheLoop, Final, LoopInv, LoopType, NetType, Answers, Mapped
<1>5. AnswersAreStored'
  BY <1>2 DEF AnswersAreStored, LoopInv, LoopType
<1>6. QED
  BY <1>1, <1>3, <1>4, <1>5

\* An attempt that is made puts a copy on the wire.
LEMMA AttemptsNet ==
    ASSUME LoopInv, NetInv, NEW c \in Calls, Attempts(c), pc[c] # "done",
           attempt[c] < MaxAttempts, UNCHANGED <<closed, channel, serverVars>>
    PROVE  NetInv'
<1> DEFINE copy == [call |-> c, attempt |-> attempt[c] + 1]
<1>1. /\ pc' = [pc EXCEPT ![c] = "attempting"]
      /\ attempt' = [attempt EXCEPT ![c] = attempt[c] + 1]
      /\ wire' = wire \cup {copy}
      /\ UNCHANGED <<outcome, replies, heard, store, effects, closed, channel>>
  BY DEF Attempts, serverVars
<1>2. /\ NetType /\ CopiesWereSent /\ VerdictsEndTheLoop /\ StoreIsEffect
      /\ AnswersAreStored /\ OpenUntilClosed
      /\ LoopType
  BY DEF NetInv, LoopInv
<1>3. attempt[c] \in 0 .. MaxAttempts
  BY <1>2 DEF LoopType
<1>4. copy \in Copies
  BY <1>3, TransportAssumption DEF Copies
<1>5. NetType' /\ OpenUntilClosed' /\ StoreIsEffect' /\ AnswersAreStored'
  BY <1>1, <1>2, <1>4 DEF NetType, OpenUntilClosed, StoreIsEffect, AnswersAreStored
<1>6. /\ attempt'[c] = attempt[c] + 1 /\ \A d \in Calls \ {c} : attempt'[d] = attempt[d]
      /\ \A d \in Calls \ {c} : pc'[d] = pc[d]
  BY <1>1, <1>2 DEF LoopType
<1>7. \A x \in wire \cup replies \cup heard : x.call \in Calls /\ x.attempt \in 1 .. MaxAttempts
  BY <1>2 DEF NetType, Copies, Answers
<1>8. CopiesWereSent'
  <2> SUFFICES ASSUME NEW x \in wire' \cup replies' \cup heard'
               PROVE  x.attempt <= attempt'[x.call]
    BY DEF CopiesWereSent
  <2>1. CASE x = copy
    BY <1>3, <1>6, <2>1
  <2>2. CASE x \in wire \cup replies \cup heard
    BY <1>2, <1>3, <1>6, <1>7, <2>2 DEF CopiesWereSent
  <2>3. QED
    BY <1>1, <2>1, <2>2
<1>9. VerdictsEndTheLoop'
  BY <1>1, <1>2, <1>6, <1>7 DEF VerdictsEndTheLoop, Final, Mapped
<1>10. QED
  BY <1>5, <1>8, <1>9 DEF NetInv

LEMMA BeginStep ==
    ASSUME LoopInv, NetInv, NEW c \in Calls, Begin(c)
    PROVE  LoopInv' /\ NetInv'
<1>1. /\ pc[c] = "idle" /\ Attempts(c) /\ UNCHANGED <<delay, slept>>
      /\ UNCHANGED <<closed, channel, serverVars>>
  BY DEF Begin
<1>2. attempt[c] < MaxAttempts
  BY <1>1, TransportAssumption DEF LoopInv, AttemptsAreCounted
<1>3. QED
  BY <1>1, <1>2, AttemptsLoop, AttemptsNet

LEMMA WakeStep ==
    ASSUME LoopInv, NetInv, NEW c \in Calls, WakeAndTry(c)
    PROVE  LoopInv' /\ NetInv'
<1>1. /\ pc[c] = "sleeping" /\ Attempts(c)
      /\ slept' = [slept EXCEPT ![c] = @ + delay[c]]
      /\ delay' = [delay EXCEPT ![c] = 0]
      /\ UNCHANGED <<closed, channel, serverVars>>
  BY DEF WakeAndTry, Sleeps
<1>2. attempt[c] < MaxAttempts
  BY <1>1 DEF LoopInv, AttemptsAreCounted
<1>3. QED
  BY <1>1, <1>2, AttemptsLoop, AttemptsNet

LEMMA LosesStep ==
    ASSUME LoopInv, NetInv, NEW c \in Calls, NEW code \in {"UNAVAILABLE", "DEADLINE_EXCEEDED"},
           LosesAttempt(c, code)
    PROVE  LoopInv' /\ NetInv'
<1>1. LocalError(code) \in Meets
  BY DEF Meets
<1>2. /\ pc[c] = "attempting" /\ AttemptFails(c, LocalError(code))
      /\ UNCHANGED <<wire, replies, heard, store, effects, closed, channel>>
  BY DEF LosesAttempt, netVars, serverVars
<1>3. /\ LoopInv'
      /\ attempt' = attempt
      /\ \A d \in Calls \ {c} : pc'[d] = pc[d] /\ outcome'[d] = outcome[d]
      /\ outcome'[c] # "returned"
  BY <1>1, <1>2, FailsLoop
<1> USE DEF NetInv
<1>4. NetType' /\ OpenUntilClosed' /\ StoreIsEffect' /\ CopiesWereSent'
  BY <1>2, <1>3 DEF NetType, OpenUntilClosed, StoreIsEffect, CopiesWereSent
<1>5. VerdictsEndTheLoop'
  BY <1>2, <1>3 DEF VerdictsEndTheLoop, Final, NetType, Answers, Mapped
<1>6. AnswersAreStored'
  BY <1>2, <1>3 DEF AnswersAreStored
<1>7. QED
  BY <1>3, <1>4, <1>5, <1>6

LEMMA ReceiveStep ==
    ASSUME LoopInv, NetInv, NEW c \in Calls, Receive(c)
    PROVE  LoopInv' /\ NetInv'
<1>1. PICK r \in replies :
        /\ r.call = c
        /\ r.attempt = attempt[c]
        /\ replies' = replies \ {r}
        /\ heard' = heard \cup {r}
        /\ \/ r.error = None /\ Ends(c, "returned")
           \/ r.error # None /\ AttemptFails(c, r.error)
  BY DEF Receive
<1>2. /\ pc[c] = "attempting"
      /\ UNCHANGED <<wire, store, effects, closed, channel>>
  BY DEF Receive, serverVars
<1>3. /\ NetType /\ CopiesWereSent /\ VerdictsEndTheLoop /\ StoreIsEffect
      /\ AnswersAreStored /\ OpenUntilClosed
      /\ LoopType
  BY DEF NetInv, LoopInv
<1>4. r \in Answers
  BY <1>3 DEF NetType
\* The loop.
<1>5. /\ LoopInv'
      /\ attempt' = attempt
      /\ \A d \in Calls \ {c} : pc'[d] = pc[d] /\ outcome'[d] = outcome[d]
      /\ outcome'[c] = "returned" => c \in store
      /\ Final(r) => pc'[c] = "done"
  <2>1. CASE r.error = None /\ Ends(c, "returned")
    <3>1. "returned" \in Outcomes /\ "returned" # "RemoteClientStateError"
      BY DEF Outcomes
    <3>2. LoopInv'
      BY <2>1, <3>1, EndsLoop
    <3>3. c \in store
      BY <1>1, <1>3, <2>1 DEF AnswersAreStored
    <3>4. QED
      BY <1>3, <2>1, <3>2, <3>3 DEF Ends, LoopType
  <2>2. CASE r.error # None /\ AttemptFails(c, r.error)
    <3>1. r.error \in Meets
      BY <1>4, <2>2 DEF Answers, Meets
    <3>2. QED
      BY <1>2, <2>2, <3>1, FailsLoop DEF Final
  <2>3. QED
    BY <1>1, <2>1, <2>2
\* The network.
<1>6. NetType' /\ OpenUntilClosed' /\ StoreIsEffect'
  BY <1>1, <1>2, <1>3, <1>4 DEF NetType, OpenUntilClosed, StoreIsEffect
<1>7. CopiesWereSent'
  BY <1>1, <1>2, <1>3, <1>5 DEF CopiesWereSent
<1>8. VerdictsEndTheLoop'
  <2> SUFFICES ASSUME NEW x \in heard', Final(x)
               PROVE  pc'[x.call] = "done" /\ x.attempt = attempt'[x.call]
    BY DEF VerdictsEndTheLoop, Final, Mapped
  <2>1. CASE x = r
    BY <1>1, <1>5, <2>1
  <2>2. CASE x \in heard
    BY <1>2, <1>3, <1>5, <2>2 DEF VerdictsEndTheLoop, NetType, Answers
  <2>3. QED
    BY <1>1, <2>1, <2>2
<1>9. AnswersAreStored'
  BY <1>1, <1>2, <1>3, <1>5 DEF AnswersAreStored
<1>10. QED
  BY <1>5, <1>6, <1>7, <1>8, <1>9 DEF NetInv

\* The loops are untouched.
LEMMA OthersLoop ==
    ASSUME LoopInv, UNCHANGED loopVars
    PROVE  LoopInv'
BY DEF LoopInv, LoopType, AttemptsAreCounted, SleepsAreBounded, loopVars, LongestDelay

LEMMA CloseStep ==
    ASSUME LoopInv, NetInv, Close \/ StartsClosing \/ CancelsClosing \/ ChannelShuts
    PROVE  LoopInv' /\ NetInv'
<1>1. /\ UNCHANGED <<loopVars, wire, replies, heard, store, effects>>
      /\ closed' \in BOOLEAN /\ channel' \in {"open", "due", "closing", "shut"}
      /\ ~closed' => channel' = "open"
  BY DEF Close, StartsClosing, CancelsClosing, ChannelShuts, netVars, serverVars, NetInv,
         NetType, OpenUntilClosed
<1>2. LoopInv'
  BY <1>1, OthersLoop
<1>3. NetInv'
  BY <1>1
     DEF NetInv, NetType, CopiesWereSent, VerdictsEndTheLoop, Final, StoreIsEffect,
         AnswersAreStored, OpenUntilClosed, loopVars, Mapped
<1>4. QED
  BY <1>2, <1>3

\* The server takes a copy; an answer without error is to a request it has stored.
LEMMA TakesNet ==
    ASSUME LoopInv, NetInv, NEW copy \in Copies, NEW error \in ServerErrors \cup {None},
           Takes(copy, error), StoreIsEffect', store' \subseteq Calls,
           effects' \in [Calls -> Nat], store \subseteq store',
           error = None => copy.call \in store'
    PROVE  NetInv'
<1> DEFINE answer == [call |-> copy.call, attempt |-> copy.attempt, error |-> error]
<1>1. /\ copy \in wire
      /\ wire' = wire \ {copy}
      /\ replies' = replies \cup {answer}
      /\ UNCHANGED <<pc, attempt, outcome, heard, closed, channel>>
  BY DEF Takes, loopVars
<1>2. /\ NetType /\ CopiesWereSent /\ VerdictsEndTheLoop /\ AnswersAreStored
      /\ OpenUntilClosed
  BY DEF NetInv
<1>3. /\ answer \in Answers
      /\ answer.call = copy.call /\ answer.attempt = copy.attempt /\ answer.error = error
  BY DEF Copies, Answers
<1> HIDE DEF answer
<1>4. NetType' /\ OpenUntilClosed'
  BY <1>1, <1>2, <1>3 DEF NetType, OpenUntilClosed
<1>5. CopiesWereSent'
  BY <1>1, <1>2, <1>3 DEF CopiesWereSent
<1>6. VerdictsEndTheLoop'
  BY <1>1, <1>2 DEF VerdictsEndTheLoop, Final, Mapped
<1>7. AnswersAreStored'
  BY <1>1, <1>2, <1>3 DEF AnswersAreStored
<1>8. QED
  BY <1>4, <1>5, <1>6, <1>7 DEF NetInv

LEMMA ServerStep ==
    ASSUME LoopInv, NetInv, NEW copy \in Copies,
           Execute(copy) \/ Replay(copy) \/ Refuse(copy)
    PROVE  LoopInv' /\ NetInv'
<1>1. LoopInv'
  BY OthersLoop DEF Execute, Replay, Refuse, Takes
<1>2. /\ copy.call \in Calls /\ store \subseteq Calls /\ effects \in [Calls -> Nat]
      /\ StoreIsEffect
  BY DEF Copies, NetInv, NetType
<1>3. CASE Execute(copy)
  <2>1. /\ copy.call \notin store /\ Takes(copy, None)
        /\ store' = store \cup {copy.call}
        /\ effects' = [effects EXCEPT ![copy.call] = @ + 1]
    BY <1>3 DEF Execute, Identifier
  <2>2. /\ StoreIsEffect' /\ store' \subseteq Calls /\ effects' \in [Calls -> Nat]
        /\ store \subseteq store' /\ copy.call \in store'
    BY <1>2, <2>1 DEF StoreIsEffect
  <2>3. QED
    BY <1>1, <2>1, <2>2, TakesNet
<1>4. CASE Replay(copy)
  <2>1. copy.call \in store /\ Takes(copy, None) /\ UNCHANGED <<store, effects>>
    BY <1>4 DEF Replay, Identifier, serverVars
  <2>2. StoreIsEffect'
    BY <1>2, <2>1 DEF StoreIsEffect
  <2>3. QED
    BY <1>1, <1>2, <2>1, <2>2, TakesNet
<1>5. CASE Refuse(copy)
  <2>1. PICK e \in ServerErrors : Takes(copy, e)
    BY <1>5 DEF Refuse
  <2>2. UNCHANGED <<store, effects>> /\ e # None
    BY <1>5, TransportAssumption DEF Refuse, serverVars
  <2>3. StoreIsEffect'
    BY <1>2, <2>2 DEF StoreIsEffect
  <2>4. QED
    BY <1>1, <1>2, <2>1, <2>2, <2>3, TakesNet
<1>6. QED
  BY <1>3, <1>4, <1>5

LEMMA InvStep == IInv /\ [Next]_vars => IInv'
<1> SUFFICES ASSUME LoopInv, NetInv, [Next]_vars
             PROVE  LoopInv' /\ NetInv'
  BY InvParts, Zenon DEF IInv, LoopInv, NetInv, LoopType, NetType, TypeOK
<1>1. CASE UNCHANGED vars
  <2>1. LoopInv'
    BY <1>1, OthersLoop DEF vars
  <2>2. NetInv'
    BY <1>1
       DEF NetInv, NetType, CopiesWereSent, VerdictsEndTheLoop, Final, StoreIsEffect,
           AnswersAreStored, OpenUntilClosed, loopVars, netVars, serverVars, vars, Mapped
  <2>3. QED
    BY <2>1, <2>2
<1>2. ASSUME NEW c \in Calls, RejectClosed(c) \/ Begin(c) \/ Step(c) \/ ConnectionFails(c) \/ Cancel(c)
      PROVE  LoopInv' /\ NetInv'
  <2>1. CASE DeadlinePasses(c) \/ ConnectionFails(c)
    BY <2>1, LosesStep DEF DeadlinePasses, ConnectionFails
  <2>2. CASE RejectClosed(c) \/ Begin(c) \/ Cancel(c)
    BY <2>2, RejectStep, BeginStep, CancelStep
  <2>3. CASE Receive(c) \/ AttemptCutOff(c) \/ WakeAndTry(c) \/ WakeRefused(c)
    BY <2>3, ReceiveStep, CutOffStep, WakeStep, RefusedStep
  <2>4. QED
    BY <1>2, <2>1, <2>2, <2>3 DEF Step
<1>3. QED
  BY <1>1, <1>2, CloseStep, ServerStep DEF Next

\* Everything below holds in every state of every run.
THEOREM Invariant == Spec => []IInv
<1>1. QED
  BY InvInit, InvStep, PTL DEF Spec

----
(* The properties *)

\* The transport's variables keep their types, for the whole of _invoke and of
\* aclose: in particular a call has an outcome exactly when its loop is over.
THEOREM TypeCorrect == Spec => []TypeOK
<1>1. IInv => TypeOK
  BY DEF IInv
<1>2. QED
  BY <1>1, Invariant, PTL

\* However often _invoke sends a request, and whatever is lost or late, the server
\* executes the call once at most; and it has executed it when _invoke returned.
THEOREM ServedOnce == Spec => []EffectOnce
<1>1. IInv => EffectOnce
  BY DEF IInv, StoreIsEffect, AnswersAreStored, EffectOnce
<1>2. QED
  BY <1>1, Invariant, PTL

\* When the loop of _invoke has received an answer that is no reason to retry, it is
\* over, and no copy of a later attempt is or was on the network.
THEOREM VerdictIsFinal == Spec => []NoAttemptAfterVerdict
<1>1. IInv => NoAttemptAfterVerdict
  BY DEF IInv, VerdictsEndTheLoop, Final, CopiesWereSent, NoAttemptAfterVerdict
<1>2. QED
  BY <1>1, Invariant, PTL

\* The loop of _invoke keeps to its policy: attempts, the pause and the sum of the
\* pauses are bounded, whatever retry delays the server asks for.
THEOREM WaitingIsBounded == Spec => []BoundedWaiting
<1>1. IInv => BoundedWaiting
  BY TransportAssumption DEF IInv, TypeOK, SleepsAreBounded, BoundedWaiting
<1>2. QED
  BY <1>1, Invariant, PTL

\* Once aclose has begun no loop of _invoke starts, and the only copies put on the
\* wire are those of loops that slept; once the channel is being closed there are
\* none at all.
THEOREM ClosingEnds == Spec => ClosingEndsSending
<1> DEFINE Late == closed => \A copy \in wire' \ wire : copy.attempt > 1
           Quiet == ~TakesCalls => wire' \subseteq wire
<1>1. ASSUME IInv, [Next]_vars
      PROVE  [Late /\ Quiet]_vars
  <2>1. SUFFICES ASSUME Next
                 PROVE  Late /\ Quiet
    BY <1>1
  <2>2. CASE wire' \subseteq wire
    BY <2>2
  <2>3. ASSUME NEW c \in Calls, Begin(c)
        PROVE  Late /\ Quiet
    <3>1. ~closed /\ TakesCalls
      BY <1>1, <2>3 DEF Begin, Refuses, IInv, OpenUntilClosed, TakesCalls
    <3>2. QED
      BY <3>1
  <2>4. ASSUME NEW c \in Calls, WakeAndTry(c)
        PROVE  Late /\ Quiet
    <3>1. TakesCalls /\ wire' = wire \cup {[call |-> c, attempt |-> attempt[c] + 1]}
      BY <2>4 DEF WakeAndTry, Attempts
    <3>2. attempt[c] \in Nat /\ attempt[c] >= 1
      BY <1>1, <2>4, TransportAssumption
         DEF WakeAndTry, Sleeps, IInv, TypeOK, AttemptsAreCounted
    <3>3. QED
      BY <3>1, <3>2
  <2>5. ASSUME NEW c \in Calls,
               \/ RejectClosed(c) \/ Receive(c) \/ DeadlinePasses(c) \/ AttemptCutOff(c)
               \/ WakeRefused(c) \/ ConnectionFails(c) \/ Cancel(c)
        PROVE  wire' \subseteq wire
    BY <2>5 DEF RejectClosed, Receive, DeadlinePasses, AttemptCutOff, WakeRefused,
                ConnectionFails, LosesAttempt, Cancel, netVars
  <2>6. CASE Close \/ StartsClosing \/ CancelsClosing \/ ChannelShuts
    BY <2>6 DEF Close, StartsClosing, CancelsClosing, ChannelShuts, netVars
  <2>7. CASE \E copy \in Copies : Execute(copy) \/ Replay(copy) \/ Refuse(copy)
    BY <2>7 DEF Execute, Replay, Refuse, Takes
  <2>8. QED
    BY <2>1, <2>2, <2>3, <2>4, <2>5, <2>6, <2>7 DEF Next, Step
<1>2. QED
  BY <1>1, Invariant, PTL DEF Spec, ClosingEndsSending

----
(* A call of the transport is a logical call *)

\* What the fate of a call is made of.
LEMMA FateReads ==
    ASSUME IInv, NEW c \in Calls
    PROVE  /\ pc[c] = "idle" => CallFate(c) = "unused"
           /\ pc[c] \in {"attempting", "sleeping"} => CallFate(c) = "open"
           /\ attempt[c] >= 1 => CallFate(c) # "unused"
<1>1. /\ None # "RemoteClientStateError"
      /\ outcome[c] # None <=> pc[c] = "done"
      /\ pc[c] \in {"idle", "attempting", "sleeping", "done"}
  BY OutcomesAssumption DEF IInv, TypeOK, Outcomes
<1>2. /\ pc[c] = "idle" => CallFate(c) = "unused"
      /\ pc[c] \in {"attempting", "sleeping"} => CallFate(c) = "open"
  BY <1>1 DEF CallFate
<1>3. attempt[c] >= 1 => pc[c] # "idle" /\ outcome[c] # "RemoteClientStateError"
  BY DEF IInv, TypeOK, AttemptsAreCounted
<1>4. attempt[c] >= 1 => CallFate(c) # "unused"
  BY <1>3 DEF CallFate
<1>5. QED
  BY <1>2, <1>4

\* A step that leaves the loop of a call alone leaves its fate alone.
LEMMA FateStays ==
    ASSUME NEW c \in Calls, pc'[c] = pc[c], outcome'[c] = outcome[c]
    PROVE  CallFate(c)' = CallFate(c)
BY DEF CallFate

Maps(c) == Call(c)!Next \/ UNCHANGED Call(c)!vars

\* An open call that ends otherwise than by returning is abandoned.
LEMMA AbandonMaps ==
    ASSUME IInv, NEW c \in Calls, pc[c] \in {"attempting", "sleeping"}, pc'[c] = "done",
           outcome'[c] \notin {"returned", "RemoteClientStateError"},
           effects' = effects
    PROVE  Maps(c)
<1>1. CallFate(c) = "open"
  BY FateReads
<1>2. CallFate(c)' = "abandoned"
  BY DEF CallFate
<1>3. Call(c)!Abandon
  BY <1>1, <1>2 DEF Call!Abandon
<1>4. QED
  BY <1>3 DEF Maps, Call!Next

LEMMA StutterMaps ==
    ASSUME NEW c \in Calls, CallFate(c)' = CallFate(c), effects'[c] = effects[c]
    PROVE  Maps(c)
BY DEF Maps, Call!vars

\* Each step of a loop is a step of its own logical call.
LEMMA LoopStepMaps ==
    ASSUME IInv, NEW c \in Calls,
           RejectClosed(c) \/ Begin(c) \/ Step(c) \/ ConnectionFails(c) \/ Cancel(c)
    PROVE  Maps(c)
<1>1. LoopInv /\ NetInv
  BY InvParts
<1>2. /\ effects' = effects
      /\ pc \in [Calls -> {"idle", "attempting", "sleeping", "done"}]
      /\ outcome \in [Calls -> Outcomes \cup {None}]
      /\ outcome[c] # None <=> pc[c] = "done"
  BY DEF RejectClosed, Begin, Step, Receive, DeadlinePasses, AttemptCutOff, WakeAndTry,
         WakeRefused, ConnectionFails, LosesAttempt, Cancel, Sleeps, serverVars, IInv, TypeOK
\* The call starts, or is rejected before it starts.
<1>3. CASE Begin(c)
  <2>1. CallFate(c) = "unused"
    BY <1>3, FateReads DEF Begin
  <2>2. CallFate(c)' = "open"
    BY <1>2, <1>3, OutcomesAssumption DEF Begin, Attempts, CallFate, Outcomes
  <2>3. Call(c)!Start
    BY <1>2, <2>1, <2>2 DEF Call!Start
  <2>4. QED
    BY <2>3 DEF Maps, Call!Next
<1>4. CASE RejectClosed(c)
  <2>1. CallFate(c) = "unused"
    BY <1>4, FateReads DEF RejectClosed
  <2>2. CallFate(c)' = "unused"
    BY <1>2, <1>4 DEF RejectClosed, Ends, CallFate
  <2>3. QED
    BY <1>2, <2>1, <2>2, StutterMaps
\* An attempt fails: a pause, or the end.
<1>5. ASSUME pc[c] = "attempting", NEW error \in Meets, AttemptFails(c, error)
      PROVE  Maps(c)
  <2>1. /\ pc'[c] # "sleeping" => pc'[c] = "done"
        /\ outcome'[c] # "returned" /\ outcome'[c] # "RemoteClientStateError"
    BY <1>1, <1>5, FailsLoop
  <2>2. CASE pc'[c] = "done"
    BY <1>2, <1>5, <2>1, <2>2, AbandonMaps
  <2>3. CASE pc'[c] = "sleeping"
    <3>1. CallFate(c) = "open" /\ CallFate(c)' = "open"
      BY <1>5, <2>1, <2>3, FateReads DEF CallFate
    <3>2. QED
      BY <1>2, <3>1, StutterMaps
  <2>4. QED
    BY <2>1, <2>2, <2>3
<1>6. CASE DeadlinePasses(c) \/ ConnectionFails(c)
  BY <1>5, <1>6 DEF DeadlinePasses, ConnectionFails, LosesAttempt, Meets
<1>7. CASE Receive(c)
  <2>1. PICK r \in replies : /\ r.call = c
                             /\ \/ r.error = None /\ Ends(c, "returned")
                                \/ r.error # None /\ AttemptFails(c, r.error)
    BY <1>7 DEF Receive
  <2>2. pc[c] = "attempting" /\ r.error \in ServerErrors \cup {None}
    BY <1>7, <2>1 DEF Receive, IInv, TypeOK, Answers
  <2>3. CASE r.error = None /\ Ends(c, "returned")
    <3>1. effects[c] = 1
      BY <2>1, <2>3 DEF IInv, AnswersAreStored, StoreIsEffect
    <3>2. CallFate(c) = "open"
      BY <2>2, FateReads
    <3>3. CallFate(c)' = "answered"
      BY <1>2, <2>3 DEF Ends, CallFate
    <3>4. Call(c)!Answer
      BY <1>2, <3>1, <3>2, <3>3 DEF Call!Answer
    <3>5. QED
      BY <3>4 DEF Maps, Call!Next
  <2>4. CASE r.error # None /\ AttemptFails(c, r.error)
    BY <1>5, <2>2, <2>4 DEF Meets
  <2>5. QED
    BY <2>1, <2>3, <2>4
\* The next attempt.
<1>8. CASE WakeAndTry(c)
  <2>1. CallFate(c) = "open"
    BY <1>8, FateReads DEF WakeAndTry, Sleeps
  <2>2. CallFate(c)' = "open"
    <3>1. pc'[c] = "attempting" /\ outcome'[c] = None
      BY <1>2, <1>8 DEF WakeAndTry, Sleeps, Attempts
    <3>2. QED
      BY <3>1, OutcomesAssumption DEF CallFate, Outcomes
  <2>3. QED
    BY <1>2, <2>1, <2>2, StutterMaps
\* The call ends in another way.
<1>9. CASE AttemptCutOff(c) \/ WakeRefused(c) \/ Cancel(c)
  <2>1. /\ pc[c] \in {"attempting", "sleeping"} /\ pc'[c] = "done"
        /\ outcome'[c] \notin {"returned", "RemoteClientStateError"}
    BY <1>2, <1>9 DEF AttemptCutOff, WakeRefused, Sleeps, Cancel, Ends
  <2>2. QED
    BY <1>2, <2>1, AbandonMaps
<1>10. QED
  BY <1>3, <1>4, <1>6, <1>7, <1>8, <1>9 DEF Step

\* A step of one loop does not touch another call.
LEMMA OtherLoopMaps ==
    ASSUME IInv, NEW c \in Calls, NEW d \in Calls \ {c},
           RejectClosed(c) \/ Begin(c) \/ Step(c) \/ ConnectionFails(c) \/ Cancel(c)
    PROVE  Maps(d)
<1>1. /\ pc \in [Calls -> {"idle", "attempting", "sleeping", "done"}]
      /\ outcome \in [Calls -> Outcomes \cup {None}]
      /\ replies \subseteq Answers
  BY DEF IInv, TypeOK
<1>2. ASSUME NEW error, AttemptFails(c, error)
      PROVE  pc'[d] = pc[d] /\ outcome'[d] = outcome[d]
  BY <1>1, <1>2 DEF AttemptFails, Ends
<1>3. pc'[d] = pc[d] /\ outcome'[d] = outcome[d]
  BY <1>1, <1>2
     DEF RejectClosed, Begin, Step, Receive, DeadlinePasses, AttemptCutOff, WakeAndTry,
         WakeRefused, ConnectionFails, LosesAttempt, Cancel, Sleeps, Ends, Attempts
<1>4. effects' = effects
  BY DEF RejectClosed, Begin, Step, Receive, DeadlinePasses, AttemptCutOff, WakeAndTry,
         WakeRefused, ConnectionFails, LosesAttempt, Cancel, Sleeps, serverVars
<1>5. QED
  BY <1>3, <1>4, FateStays, StutterMaps

\* The server serves a logical call once, and only one that was started.
LEMMA ServerMaps ==
    ASSUME IInv, NEW c \in Calls, NEW copy \in Copies,
           Execute(copy) \/ Replay(copy) \/ Refuse(copy)
    PROVE  Maps(c)
<1>1. /\ UNCHANGED <<pc, outcome>>
      /\ effects \in [Calls -> Nat]
  BY DEF Execute, Replay, Refuse, Takes, loopVars, IInv, TypeOK
<1>2. CallFate(c)' = CallFate(c)
  BY <1>1, FateStays
<1>3. CASE Execute(copy) /\ copy.call = c
  <2>1. /\ copy \in wire /\ c \notin store
        /\ effects' = [effects EXCEPT ![c] = @ + 1]
    BY <1>3 DEF Execute, Identifier, Takes
  <2>2. effects[c] = 0 /\ effects'[c] = 1
    BY <1>1, <2>1 DEF IInv, StoreIsEffect
  <2>3. attempt[c] >= 1
    BY <1>3, <2>1 DEF IInv, CopiesWereSent, TypeOK, Copies
  <2>4. CallFate(c) # "unused"
    BY <2>3, FateReads
  <2>5. Call(c)!Serve
    BY <1>2, <2>2, <2>4 DEF Call!Serve
  <2>6. QED
    BY <2>5 DEF Maps, Call!Next
<1>4. CASE ~(Execute(copy) /\ copy.call = c)
  <2>1. effects'[c] = effects[c]
    BY <1>1, <1>4 DEF Execute, Replay, Refuse, serverVars
  <2>2. QED
    BY <1>2, <2>1, StutterMaps
<1>5. QED
  BY <1>3, <1>4

\* The retry loop with the network and the server implements, for every call at
\* once, the logical call the session and the client rely on.
THEOREM CallsAreLogicalCalls == Spec => ImplementsLogicalCall
<1>1. Init => \A c \in Calls : Call(c)!Init
  BY DEF Init, CallFate, Call!Init
<1>2. ASSUME IInv, [Next]_vars
      PROVE  [\A c \in Calls : Call(c)!Next \/ UNCHANGED Call(c)!vars]_vars
  <2>1. SUFFICES ASSUME Next, NEW c \in Calls
                 PROVE  Maps(c)
    BY <1>2 DEF Maps
  <2>2. CASE Close \/ StartsClosing \/ CancelsClosing \/ ChannelShuts
    <3>1. UNCHANGED <<pc, outcome, effects>>
      BY <2>2 DEF Close, StartsClosing, CancelsClosing, ChannelShuts, loopVars, serverVars
    <3>2. QED
      BY <3>1, FateStays, StutterMaps
  <2>3. ASSUME NEW d \in Calls,
               RejectClosed(d) \/ Begin(d) \/ Step(d) \/ ConnectionFails(d) \/ Cancel(d)
        PROVE  Maps(c)
    <3>1. CASE d = c
      BY <1>2, <2>3, <3>1, LoopStepMaps
    <3>2. CASE d # c
      BY <1>2, <2>3, <3>2, OtherLoopMaps
    <3>3. QED
      BY <3>1, <3>2
  <2>4. CASE \E copy \in Copies : Execute(copy) \/ Replay(copy) \/ Refuse(copy)
    BY <1>2, <2>4, ServerMaps
  <2>5. QED
    BY <2>1, <2>2, <2>3, <2>4 DEF Next
<1>3. QED
  BY <1>1, <1>2, Invariant, PTL DEF Spec, ImplementsLogicalCall

====
