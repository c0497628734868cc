--------------------------- MODULE KeyboardProofs ---------------------------
(***************************************************************************)
(* Proofs about the keyboard decoder, for every scan period, hit count,    *)
(* timeout, repeat rate, loop delay and set of transaction lengths, and    *)
(* for any of the three keys moving.                                       *)
(*                                                                         *)
(* A step does one of four things to a key: nothing, a hit, the passing of *)
(* time, a release (KeyStep).  What is to be proved of the keys is proved  *)
(* of these four, once for all actions.                                    *)
(***************************************************************************)
EXTENDS KeyboardMatrix, TLAPS

DetectorRecord == [age : {None} \cup 0..AgeCap,
                   consecutive : 0..REQUIRED_HITS, pressed : BOOLEAN]

\* The types of the history variables.
HistoryOK ==
    /\ missed \in [Keys -> 0..RELEASE_TIMEOUT]
    /\ seen \in [Keys -> 0..REQUIRED_HITS]
    /\ since \in {None} \cup Nat
    /\ lapsed \in BOOLEAN

\* The loop's sample is older than 0 only after a transaction of this pass.
ClockInv == ~busy \/ pc \notin AfterSample => now_age = 0

\* A stamp is at most as old as the slots that were missed since.
MissedInv ==
    \A k \in Keys : missed[k] >= RELEASE_TIMEOUT \/ detector[k].age <= missed[k]

\* The pieces of the loop between the look at k and the combinations.
Checked(k) == IF k = fn THEN {f9, f10, "combo"}
              ELSE IF k = f9 THEN {f10, "combo"} ELSE {"combo"}

\* A key that has passed the look at it was hit less than the release time
\* before the sample.
FreshInv ==
    \A k \in Keys : detector[k].pressed /\ pc \in Checked(k) =>
        detector[k].age < RELEASE_TIMEOUT + now_age

IInv == TypeOK /\ HistoryOK /\ ClockInv /\ MissedInv /\ FreshInv

\* Two hits that are a scan apart, and no others, are at the scan period.
OneScan == SCAN_MAX < 2

\* Hits counted are slots in which the key was down.
SeenInv ==
    \A k \in Keys : detector[k].age = 0 => detector[k].consecutive <= seen[k]

\* The first repeat comes no sooner than the next ones.
InitialIsLonger == REPEAT_INITIAL >= REPEAT_INTERVAL

\* While a hold that had an event lasts, its combination is active, and what
\* is left to its deadline and what has passed make up an interval.
HoldInv ==
    since # None /\ ~lapsed =>
        \E d \in Directions :
            /\ Held(d)
            /\ Active(d)
            /\ deadline[d] # None
            /\ deadline[d] + since >= REPEAT_INTERVAL

-----------------------------------------------------------------------------
(* The constants and the operators of the model *)

\* The types of the constants; no transaction is longer than Longest.
LEMMA ConstantTypes ==
    /\ SCAN_MIN \in Nat /\ SCAN_MAX \in Nat
    /\ REQUIRED_HITS \in Nat \ {0}
    /\ RELEASE_TIMEOUT \in Nat \ {0} /\ RELEASE_TIMEOUT > SCAN_MAX
    /\ REPEAT_INITIAL \in Nat /\ REPEAT_INTERVAL \in Nat
    /\ LoopDelay \in Nat \ {0}
    /\ Longest \in Nat
    /\ \A n \in MaskLengths : n \in 1..Longest
    /\ None = -(Longest + 1)
    /\ AgeCap = RELEASE_TIMEOUT + Longest + 1
  <1>1. /\ SCAN_MIN \in Nat /\ SCAN_MAX \in Nat
        /\ REQUIRED_HITS \in Nat \ {0}
        /\ RELEASE_TIMEOUT \in Nat \ {0} /\ RELEASE_TIMEOUT > SCAN_MAX
        /\ REPEAT_INITIAL \in Nat /\ REPEAT_INTERVAL \in Nat
        /\ LoopDelay \in Nat \ {0}
    BY KeyboardAssumption
  <1>2. MaskLengths \subseteq Nat \ {0} /\ \E n \in MaskLengths : \A m \in MaskLengths : m <= n
    BY KeyboardAssumption
  <1>3. Longest \in MaskLengths /\ \A m \in MaskLengths : m <= Longest
    BY <1>2 DEF Longest
  <1> HIDE DEF Longest
  <1>4. Longest \in Nat /\ \A n \in MaskLengths : n \in 1..Longest
    BY <1>2, <1>3
  <1> QED BY <1>1, <1>4 DEF None, AgeCap

\* "Never" is no age, no age of a stamp and no time left.
LEMMA NoneFacts ==
    /\ None \in Int /\ None < 0 /\ None < -Longest
    /\ AgeCap \in Nat /\ SCAN_MAX <= AgeCap
    /\ Never \in DetectorRecord
  <1> USE ConstantTypes
  <1>1. None \in Int /\ None < 0 /\ None < -Longest
    OBVIOUS
  <1>2. AgeCap \in Nat /\ SCAN_MAX <= AgeCap
    OBVIOUS
  <1>3. 0 \in 0..REQUIRED_HITS
    OBVIOUS
  <1>4. Never \in DetectorRecord
    BY <1>3 DEF Never, DetectorRecord
  <1> QED BY <1>1, <1>2, <1>4

\* The pair of a key is seen in its own slot, and only when it is down: not
\* while all lines of the scan are low, not for another key of its sense line.
LEMMA HitIsDown ==
    ASSUME down \subseteq Keys
    PROVE  Hit = down
  <1>1. ASSUME NEW k \in Keys PROVE ~PairSeen(k, LinesLow(Keys))
    BY DEF PairSeen, LinesLow, MustBeHigh, Keys, Kso, Ksi, fn, f9, f10
  <1>2. ASSUME NEW k \in Keys PROVE PairSeen(k, LinesLow({k})) <=> k \in down
    BY DEF PairSeen, LinesLow, MustBeHigh, Keys, Kso, Ksi, fn, f9, f10
  <1> QED BY <1>1, <1>2 DEF Hit

\* Time makes a stamp older by at most what passed, or too old to count.
LEMMA AgedTyped ==
    ASSUME NEW key \in DetectorRecord, NEW n \in Nat
    PROVE  LET c == Aged(key, n) IN
           /\ c \in DetectorRecord
           /\ c.pressed => key.pressed /\ c.age = (IF key.age = None THEN None
                                       ELSE Smaller(key.age + n, AgeCap))
           /\ key.pressed => c.pressed
           /\ c.age # None => c.age <= key.age + n /\ c.consecutive = key.consecutive
                              /\ key.age # None
           /\ c.age # None /\ c.age <= SCAN_MAX => c.age = key.age + n
  <1> USE ConstantTypes, NoneFacts
  <1>1. CASE key.age = None
    BY <1>1 DEF Aged, DetectorRecord
  <1>2. CASE key.age # None /\ key.pressed
    <2>1. key.age \in 0..AgeCap
      BY <1>2 DEF DetectorRecord
    <2>2. Smaller(key.age + n, AgeCap) \in 0..AgeCap /\ Smaller(key.age + n, AgeCap) <= key.age + n
      BY <2>1 DEF Smaller
    <2>3. Smaller(key.age + n, AgeCap) <= SCAN_MAX => Smaller(key.age + n, AgeCap) = key.age + n
      BY <2>1 DEF Smaller
    <2>4. Aged(key, n) = [key EXCEPT !.age = Smaller(@ + n, AgeCap)]
      BY <1>2 DEF Aged
    <2> HIDE DEF Smaller
    <2> QED BY <1>2, <2>1, <2>2, <2>3, <2>4 DEF DetectorRecord
  <1>3. CASE key.age # None /\ ~key.pressed /\ key.age + n > SCAN_MAX
    BY <1>3 DEF Aged, Never, DetectorRecord
  <1>4. CASE key.age # None /\ ~key.pressed /\ ~(key.age + n > SCAN_MAX)
    <2>1. key.age \in 0..AgeCap
      BY <1>4 DEF DetectorRecord
    <2>2. key.age + n \in 0..AgeCap
      BY <1>4, <2>1
    <2>3. Aged(key, n) = [key EXCEPT !.age = @ + n]
      BY <1>4 DEF Aged
    <2> QED BY <1>4, <2>1, <2>2, <2>3 DEF DetectorRecord
  <1> QED BY <1>1, <1>2, <1>3, <1>4

\* A hit stamps the key and counts, and the count stays within its cap.
LEMMA RecordTyped ==
    ASSUME NEW key \in DetectorRecord
    PROVE  LET c == record_pair(key) IN
           /\ c \in DetectorRecord
           /\ c.age = 0
           /\ c.consecutive = Hits(key)
           /\ c.pressed <=> key.pressed \/ Hits(key) >= REQUIRED_HITS
  <1> USE ConstantTypes, NoneFacts
  <1>1. key.consecutive \in 0..REQUIRED_HITS /\ key.pressed \in BOOLEAN
    BY DEF DetectorRecord
  <1>2. Hits(key) \in 0..REQUIRED_HITS
    BY <1>1 DEF Hits, Smaller
  <1>3. 0 \in 0..AgeCap
    OBVIOUS
  <1>4. (key.pressed \/ Hits(key) >= REQUIRED_HITS) \in BOOLEAN
    OBVIOUS
  <1> QED BY <1>2, <1>3, <1>4 DEF record_pair, Stamped, DetectorRecord
-----------------------------------------------------------------------------
(* What a step does to a key *)

Stays(k) ==
    /\ detector'[k] = detector[k]
    /\ missed'[k] \in {missed[k], RELEASE_TIMEOUT}
    /\ seen'[k] = seen[k]

IsHit(k) ==
    /\ k \in down
    /\ pc \in {"sleep", "combo", k}
    /\ detector'[k] = record_pair(Aged(detector[k], 1))
    /\ missed'[k] = 0
    /\ seen'[k] = Smaller(seen[k] + 1, REQUIRED_HITS)

Ages(k, n) ==
    /\ pc \in {fn, "sleep"}
    /\ pc' = pc
    /\ detector'[k] = Aged(detector[k], n)
    /\ missed'[k] = Unseen(k, n)

IsReleased(k) ==
    /\ pc = k
    /\ Expired(k)
    /\ detector'[k] = [detector[k] EXCEPT !.pressed = FALSE]
    /\ missed'[k] = missed[k]
    /\ seen'[k] = seen[k]
    /\ lapsed' = (lapsed \/ k \in down)

KeyStep(k) ==
    \/ Stays(k)
    \/ IsHit(k)
    \/ \E n \in Nat \ {0} : Ages(k, n)
    \/ IsReleased(k)

\* The history variables of the keys stay functions on them.
StaysFunctions ==
    /\ detector' = [k \in Keys |-> detector'[k]]
    /\ missed' = [k \in Keys |-> missed'[k]]
    /\ \A k \in Keys : seen'[k] \in 0..REQUIRED_HITS
    /\ seen' = [k \in Keys |-> seen'[k]]

\* The types of one key.
LEMMA KeyTypes ==
    ASSUME TypeOK, HistoryOK, NEW k \in Keys
    PROVE  /\ detector[k] \in DetectorRecord
           /\ missed[k] \in 0..RELEASE_TIMEOUT
           /\ seen[k] \in 0..REQUIRED_HITS
  BY DEF TypeOK, HistoryOK, DetectorRecord

\* The slots seen stay within their bound.
LEMMA SeenBounded ==
    ASSUME NEW n \in 0..REQUIRED_HITS
    PROVE  Smaller(n + 1, REQUIRED_HITS) \in 0..REQUIRED_HITS /\ 0 \in 0..REQUIRED_HITS
  BY ConstantTypes DEF Smaller

\* A scan: keys in their slot are hit or missed, the others wait.
LEMMA ScanSteps ==
    ASSUME TypeOK, HistoryOK, NEW H, Scan(H)
    PROVE  StaysFunctions /\ \A k \in Keys : KeyStep(k)
  <1> DEFINE due  == Keys \ late
             hits == (Hit \ H) \cap due
             pass(k) == IF k \in due THEN Aged(detector[k], 1) ELSE detector[k]
  <1>1. /\ detector' = [k \in Keys |-> IF k \in hits THEN record_pair(pass(k)) ELSE pass(k)]
        /\ missed' = [k \in Keys |-> IF k \in hits THEN 0
                                     ELSE Unseen(k, IF k \in due THEN 1 ELSE 0)]
        /\ seen' = [k \in Keys |-> IF k \notin due THEN seen[k]
                                   ELSE IF k \in down
                                        THEN Smaller(seen[k] + 1, REQUIRED_HITS)
                                        ELSE 0]
        /\ pc = "sleep" /\ pc' = pc
    BY DEF Scan
  <1>2. hits \subseteq down /\ hits \subseteq due /\ due \subseteq Keys
    BY HitIsDown DEF TypeOK
  <1>3. ASSUME NEW k \in Keys PROVE seen'[k] \in 0..REQUIRED_HITS
    BY <1>1, KeyTypes, SeenBounded
  <1>4. StaysFunctions
    BY <1>1, <1>3 DEF StaysFunctions
  <1>5. ASSUME NEW k \in Keys PROVE KeyStep(k)
    <2>1. CASE k \in hits
      <3>1. pass(k) = Aged(detector[k], 1) /\ k \in down
        BY <1>2, <2>1
      <3>2. detector'[k] = record_pair(Aged(detector[k], 1)) /\ missed'[k] = 0
        BY <1>1, <2>1, <3>1
      <3>3. seen'[k] = Smaller(seen[k] + 1, REQUIRED_HITS)
        BY <1>1, <1>2, <2>1, <3>1
      <3> QED BY <1>1, <3>1, <3>2, <3>3 DEF KeyStep, IsHit
    <2>2. CASE k \in due \ hits
      <3>1. Ages(k, 1)
        BY <1>1, <2>2 DEF Ages
      <3> QED BY <3>1 DEF KeyStep
    <2>3. CASE k \notin due
      <3>1. k \notin hits
        BY <1>2, <2>3
      <3>2. detector'[k] = detector[k] /\ seen'[k] = seen[k] /\ missed'[k] = Unseen(k, 0)
        BY <1>1, <2>3, <3>1
      <3>3. Unseen(k, 0) = missed[k]
        BY KeyTypes, ConstantTypes DEF Unseen, Smaller
      <3> QED BY <3>2, <3>3 DEF KeyStep, Stays
    <2> QED BY <2>1, <2>2, <2>3
  <1> QED BY <1>4, <1>5

\* A slot between two pieces of the loop: one key is hit.
LEMMA EdgeSteps ==
    ASSUME TypeOK, HistoryOK, NEW j \in Keys, Edge(j)
    PROVE  StaysFunctions /\ \A k \in Keys : KeyStep(k)
  <1>1. /\ detector' = [detector EXCEPT ![j] = record_pair(Aged(@, 1))]
        /\ missed' = [missed EXCEPT ![j] = 0]
        /\ seen' = [seen EXCEPT ![j] = Smaller(@ + 1, REQUIRED_HITS)]
        /\ pc \in {j, "combo"}
    BY DEF Edge
  <1>2. j \in down
    BY HitIsDown DEF Edge, TypeOK
  <1>3. /\ detector \in [Keys -> DetectorRecord]
        /\ missed \in [Keys -> 0..RELEASE_TIMEOUT] /\ seen \in [Keys -> 0..REQUIRED_HITS]
    BY DEF TypeOK, HistoryOK, DetectorRecord
  <1>4. ASSUME NEW k \in Keys PROVE seen'[k] \in 0..REQUIRED_HITS
    BY <1>1, <1>3, SeenBounded
  <1>5. StaysFunctions
    BY <1>1, <1>3, <1>4 DEF StaysFunctions
  <1>6. ASSUME NEW k \in Keys PROVE KeyStep(k)
    <2>1. CASE k = j
      <3>1. IsHit(k)
        BY <1>1, <1>2, <1>3, <2>1 DEF IsHit
      <3> QED BY <3>1 DEF KeyStep
    <2>2. CASE k # j
      <3>1. Stays(k)
        BY <1>1, <1>3, <2>2 DEF Stays
      <3> QED BY <3>1 DEF KeyStep
    <2> QED BY <2>1, <2>2
  <1> QED BY <1>5, <1>6

\* A transaction: every key ages.
LEMMA TransactionSteps ==
    ASSUME TypeOK, HistoryOK, Transaction
    PROVE  StaysFunctions /\ \A k \in Keys : KeyStep(k)
  <1>1. PICK n \in MaskLengths :
            /\ pc \in {fn, "sleep"} /\ pc' = pc
            /\ detector' = [k \in Keys |-> Aged(detector[k], n)]
            /\ missed' = [k \in Keys |-> Unseen(k, n)]
            /\ seen' = [k \in Keys |-> IF k \in down THEN seen[k] ELSE 0]
    BY DEF Transaction
  <1>2. n \in Nat \ {0}
    BY ConstantTypes
  <1>3. ASSUME NEW k \in Keys PROVE seen'[k] \in 0..REQUIRED_HITS
    BY <1>1, KeyTypes, SeenBounded
  <1>4. StaysFunctions
    BY <1>1, <1>3 DEF StaysFunctions
  <1>5. ASSUME NEW k \in Keys PROVE KeyStep(k)
    <2>1. Ages(k, n)
      BY <1>1 DEF Ages
    <2> QED BY <1>2, <2>1 DEF KeyStep
  <1> QED BY <1>4, <1>5

\* The look at a key releases it or leaves it.
LEMMA ReleaseSteps ==
    ASSUME TypeOK, HistoryOK, NEW j \in Keys, NEW next, update_release(j, next)
    PROVE  /\ StaysFunctions /\ \A k \in Keys : KeyStep(k)
           /\ Expired(j) => ~detector'[j].pressed
           /\ ~Expired(j) => detector'[j] = detector[j]
           /\ \A k \in Keys \ {j} : detector'[k] = detector[k]
  <1>1. /\ detector' = [detector EXCEPT ![j].pressed = @ /\ ~Expired(j)]
        /\ UNCHANGED << missed, seen >> /\ pc = j
        /\ lapsed' = (lapsed \/ (Expired(j) /\ j \in down))
    BY DEF update_release
  <1>2. /\ detector \in [Keys -> DetectorRecord]
        /\ missed \in [Keys -> 0..RELEASE_TIMEOUT] /\ seen \in [Keys -> 0..REQUIRED_HITS]
    BY DEF TypeOK, HistoryOK, DetectorRecord
  <1>3. /\ detector' = [k \in Keys |-> detector'[k]]
        /\ detector'[j] = [detector[j] EXCEPT !.pressed = @ /\ ~Expired(j)]
        /\ \A k \in Keys \ {j} : detector'[k] = detector[k]
    BY <1>1, <1>2
  <1>4. StaysFunctions
    BY <1>1, <1>2, <1>3 DEF StaysFunctions
  <1>5. \A k \in Keys \ {j} : KeyStep(k)
    BY <1>1, <1>3 DEF KeyStep, Stays
  <1>6. detector[j] \in DetectorRecord
    BY <1>2
  <1>7. CASE Expired(j)
    <2>1. detector'[j] = [detector[j] EXCEPT !.pressed = FALSE]
      BY <1>3, <1>7
    <2>2. IsReleased(j)
      BY <1>1, <1>7, <2>1 DEF IsReleased
    <2>3. ~detector'[j].pressed
      BY <1>6, <2>1 DEF DetectorRecord
    <2> QED BY <1>3, <1>4, <1>5, <1>7, <2>2, <2>3 DEF KeyStep
  <1>8. CASE ~Expired(j)
    <2>1. detector'[j] = [detector[j] EXCEPT !.pressed = @ /\ TRUE]
      BY <1>3, <1>8
    <2>2. detector'[j] = detector[j]
      BY <1>6, <2>1 DEF DetectorRecord
    <2>3. Stays(j)
      BY <1>1, <2>2 DEF Stays
    <2> QED BY <1>3, <1>4, <1>5, <1>8, <2>2, <2>3 DEF KeyStep
  <1> QED BY <1>7, <1>8

\* The user, and the pieces that do not look at the keys.
LEMMA OtherSteps ==
    ASSUME TypeOK, HistoryOK,
           \/ \E k \in Fingers : Finger(k)
           \/ Sample \/ ServiceCombos \/ Take \/ UNCHANGED vars
    PROVE  StaysFunctions /\ \A k \in Keys : Stays(k)
  <1>1. /\ detector \in [Keys -> DetectorRecord]
        /\ missed \in [Keys -> 0..RELEASE_TIMEOUT] /\ seen \in [Keys -> 0..REQUIRED_HITS]
    BY DEF TypeOK, HistoryOK, DetectorRecord
  <1>2. UNCHANGED << detector, seen >>
    BY DEF Finger, Sample, ServiceCombos, Take, vars, history, loopVars, scanVars
  <1>3. \/ missed' = missed
        \/ \E k \in Fingers : missed' = [missed EXCEPT ![k] = RELEASE_TIMEOUT]
    BY DEF Finger, Sample, ServiceCombos, Take, vars, history, loopVars, scanVars
  <1>4. /\ missed' = [k \in Keys |-> missed'[k]]
        /\ \A k \in Keys : missed'[k] \in {missed[k], RELEASE_TIMEOUT}
    BY <1>1, <1>3
  <1> QED BY <1>1, <1>2, <1>4 DEF StaysFunctions, Stays

\* Every step, all keys.
LEMMA EveryKeySteps ==
    ASSUME TypeOK, HistoryOK, [Next]_vars
    PROVE  StaysFunctions /\ \A k \in Keys : KeyStep(k)
  <1>1. fn \in Keys /\ f9 \in Keys /\ f10 \in Keys
    BY DEF Keys
  <1>2. ASSUME \/ \E k \in Fingers : Finger(k)
               \/ Sample \/ ServiceCombos \/ Take \/ UNCHANGED vars
        PROVE  StaysFunctions /\ \A k \in Keys : KeyStep(k)
    BY <1>2, OtherSteps DEF KeyStep
  <1>3. ASSUME \E H \in SUBSET Hit : Scan(H)
        PROVE  StaysFunctions /\ \A k \in Keys : KeyStep(k)
    BY <1>3, ScanSteps
  <1>4. ASSUME \E k \in Keys : Edge(k)
        PROVE  StaysFunctions /\ \A k \in Keys : KeyStep(k)
    BY <1>4, EdgeSteps
  <1>5. ASSUME \/ update_release(fn, f9) \/ update_release(f9, f10)
               \/ update_release(f10, "combo")
        PROVE  StaysFunctions /\ \A k \in Keys : KeyStep(k)
    BY <1>1, <1>5, ReleaseSteps
  <1> QED BY <1>2, <1>3, <1>4, <1>5, TransactionSteps DEF Next, Loop
-----------------------------------------------------------------------------
(* Types *)

\* Time keeps the types of what it makes older, within a transaction's length.
LEMMA ElapseTyped ==
    ASSUME TypeOK, HistoryOK, NEW n \in Nat, Elapse(n),
           pc \in AfterSample => now_age + n <= Longest
    PROVE  /\ now_age' \in 0..Longest
           /\ deadline' \in [Directions -> {None} \cup (-Longest)..Larger(REPEAT_INITIAL, REPEAT_INTERVAL)]
           /\ since' \in {None} \cup Nat
  <1> USE ConstantTypes, NoneFacts
  <1>1. now_age' \in 0..Longest
    BY DEF Elapse, TypeOK
  <1>2. ASSUME NEW d \in Directions, deadline[d] # None
        PROVE  Larger(deadline[d] - n, -now_age')
                   \in (-Longest)..Larger(REPEAT_INITIAL, REPEAT_INTERVAL)
    <2>1. deadline[d] \in (-Longest)..Larger(REPEAT_INITIAL, REPEAT_INTERVAL)
      BY <1>2 DEF TypeOK
    <2>2. PICK a \in 0..Longest : a = now_age'
      BY <1>1
    <2>3. Larger(REPEAT_INITIAL, REPEAT_INTERVAL) \in Nat
      BY DEF Larger
    <2> HIDE DEF Larger
    <2>4. Larger(deadline[d] - n, -a) \in {deadline[d] - n, -a}
          /\ Larger(deadline[d] - n, -a) >= -a
      BY <2>1 DEF Larger
    <2>5. Larger(deadline[d] - n, -a) \in (-Longest)..Larger(REPEAT_INITIAL, REPEAT_INTERVAL)
      BY <2>1, <2>3, <2>4
    <2> QED BY <2>2, <2>5
  <1>3. deadline' = [d \in Directions |->
            IF deadline[d] = None THEN None ELSE Larger(deadline[d] - n, -now_age')]
    BY DEF Elapse
  <1>4. since' \in {None} \cup Nat
    <2>1. PICK a \in 0..Longest : a = now_age'
      BY <1>1
    <2>2. since # None => Smaller(since + n, REPEAT_INTERVAL + a) \in Nat
      BY DEF HistoryOK, Smaller
    <2> QED BY <2>1, <2>2 DEF Elapse
  <1> QED BY <1>1, <1>2, <1>3, <1>4

\* The new deadline of a combination is a deadline.
LEMMA DeadlineTyped ==
    ASSUME TypeOK, NEW d \in Directions
    PROVE  Deadline(d) \in {None} \cup (-Longest)..Larger(REPEAT_INITIAL, REPEAT_INTERVAL)
  <1> USE ConstantTypes, NoneFacts
  <1>1. /\ now_age \in 0..Longest
        /\ deadline[d] \in {None} \cup (-Longest)..Larger(REPEAT_INITIAL, REPEAT_INTERVAL)
    BY DEF TypeOK
  <1>2. REPEAT_INITIAL - now_age \in (-Longest)..Larger(REPEAT_INITIAL, REPEAT_INTERVAL)
    BY <1>1 DEF Larger
  <1>3. REPEAT_INTERVAL - now_age \in (-Longest)..Larger(REPEAT_INITIAL, REPEAT_INTERVAL)
    BY <1>1 DEF Larger
  <1> QED BY <1>1, <1>2, <1>3 DEF Deadline, NextDeadline

\* A key keeps its type.
LEMMA KeyStaysTyped ==
    ASSUME TypeOK, HistoryOK, NEW k \in Keys, KeyStep(k)
    PROVE  detector'[k] \in DetectorRecord /\ missed'[k] \in 0..RELEASE_TIMEOUT
  <1> USE ConstantTypes, KeyTypes
  <1>1. CASE Stays(k)
    BY <1>1 DEF Stays
  <1>2. CASE IsHit(k)
    <2>1. Aged(detector[k], 1) \in DetectorRecord
      BY AgedTyped
    <2>2. record_pair(Aged(detector[k], 1)) \in DetectorRecord
      BY <2>1, RecordTyped
    <2> QED BY <1>2, <2>2 DEF IsHit
  <1>3. CASE \E n \in Nat \ {0} : Ages(k, n)
    <2>1. PICK n \in Nat \ {0} : Ages(k, n)
      BY <1>3
    <2>2. Aged(detector[k], n) \in DetectorRecord
      BY AgedTyped
    <2>3. Unseen(k, n) \in 0..RELEASE_TIMEOUT
      BY DEF Unseen, Smaller
    <2> QED BY <2>1, <2>2, <2>3 DEF Ages
  <1>4. CASE IsReleased(k)
    BY <1>4 DEF IsReleased, DetectorRecord
  <1> QED BY <1>1, <1>2, <1>3, <1>4 DEF KeyStep

\* The clock: a transaction comes once in a pass, at its start or in its sleep.
LEMMA NextClock ==
    ASSUME TypeOK, HistoryOK, ClockInv, [Next]_vars
    PROVE  /\ ClockInv'
           /\ now_age' \in 0..Longest
           /\ deadline' \in [Directions -> {None} \cup (-Longest)..Larger(REPEAT_INITIAL, REPEAT_INTERVAL)]
           /\ since' \in {None} \cup Nat
  <1> USE ConstantTypes, NoneFacts
  <1>1. /\ now_age \in 0..Longest
        /\ deadline \in [Directions -> {None} \cup (-Longest)..Larger(REPEAT_INITIAL, REPEAT_INTERVAL)]
        /\ since \in {None} \cup Nat
    BY DEF TypeOK, HistoryOK
  <1>2. CASE Transaction
    <2>1. PICK n \in MaskLengths : Elapse(n)
      BY <1>2 DEF Transaction
    <2>2. n \in 1..Longest /\ now_age = 0
      BY <1>2 DEF Transaction, ClockInv
    <2>3. now_age + n <= Longest
      BY <2>2
    <2>4. pc \notin AfterSample => now_age' = 0
      BY <2>1, <2>2 DEF Elapse
    <2> QED BY <1>2, <2>1, <2>2, <2>3, <2>4, ElapseTyped DEF Transaction, ClockInv
  <1>3. CASE \E H \in SUBSET Hit : Scan(H)
    <2>1. Elapse(1) /\ pc = "sleep" /\ pc' = pc /\ pc \notin AfterSample
      BY <1>3 DEF Scan, AfterSample, fn, f9, f10
    <2>2. now_age' = 0
      BY <2>1 DEF Elapse, ClockInv
    <2> QED BY <2>1, <2>2, ElapseTyped DEF ClockInv
  <1>4. CASE \/ \E k \in Keys : Edge(k)
             \/ \E k \in Fingers : Finger(k)
             \/ UNCHANGED vars
    BY <1>1, <1>4 DEF Edge, Finger, scanVars, loopVars, history, vars, ClockInv
  <1>5. CASE Sample
    BY <1>1, <1>5 DEF Sample, history, scanVars, ClockInv
  <1>6. CASE update_release(fn, f9) \/ update_release(f9, f10) \/ update_release(f10, "combo")
    <2>1. /\ UNCHANGED << now_age, deadline, since, busy >>
          /\ pc \in AfterSample /\ pc' \in AfterSample
      BY <1>6 DEF update_release, scanVars, AfterSample
    <2> QED BY <1>1, <2>1 DEF ClockInv
  <1>7. CASE ServiceCombos
    <2>1. deadline' = [d \in Directions |-> Deadline(d)] /\ now_age' = 0
          /\ since' \in {now_age, since}
      BY <1>7 DEF ServiceCombos
    <2> QED BY <1>1, <2>1, DeadlineTyped DEF ClockInv
  <1>8. CASE Take
    <2>1. UNCHANGED << now_age, deadline, since >> /\ pc \notin AfterSample
      BY <1>8 DEF Take, history, AfterSample, fn, f9, f10
    <2> QED BY <1>1, <2>1 DEF ClockInv
  <1> QED BY <1>2, <1>3, <1>4, <1>5, <1>6, <1>7, <1>8 DEF Next, Loop

\* The other variables.
LEMMA NextTypes ==
    ASSUME TypeOK, HistoryOK, [Next]_vars
    PROVE  /\ down' \subseteq Keys
           /\ pc' \in AfterSample \cup {"take", "sleep"}
           /\ late' \subseteq Keys
           /\ pending' \in [Directions -> BOOLEAN]
           /\ slept' \in 0..LoopDelay
           /\ busy' \in BOOLEAN
           /\ lapsed' \in BOOLEAN
  <1> USE ConstantTypes
  <1>1. /\ down \subseteq Keys
        /\ pc \in AfterSample \cup {"take", "sleep"}
        /\ late \subseteq Keys
        /\ pending \in [Directions -> BOOLEAN]
        /\ slept \in 0..LoopDelay
        /\ busy \in BOOLEAN
        /\ lapsed \in BOOLEAN
        /\ Fingers \subseteq Keys
    BY KeyboardAssumption DEF TypeOK, HistoryOK
  <1>2. CASE \E H \in SUBSET Hit : Scan(H)
    <2>1. PICK H \in SUBSET Hit : Scan(H)
      BY <1>2
    <2>2. /\ UNCHANGED << down, pc, pending, lapsed >> /\ late' = {}
          /\ slept' = slept + 1 /\ slept < LoopDelay
          /\ busy' = (busy \/ H # {})
      BY <2>1 DEF Scan
    <2>3. busy' \in BOOLEAN
      BY <2>2
    <2>4. slept' \in 0..LoopDelay
      BY <1>1, <2>2
    <2> QED BY <1>1, <2>2, <2>3, <2>4
  <1>3. CASE Transaction
    BY <1>1, <1>3 DEF Transaction
  <1>4. CASE \E k \in Keys : Edge(k)
    BY <1>1, <1>4 DEF Edge, scanVars, loopVars
  <1>5. CASE \E k \in Fingers : Finger(k)
    <2>1. PICK k \in Fingers : Finger(k)
      BY <1>5
    <2>2. down' \subseteq Keys
      BY <1>1, <2>1 DEF Finger
    <2> QED BY <1>1, <2>1, <2>2 DEF Finger, loopVars
  <1>6. CASE Sample
    BY <1>1, <1>6 DEF Sample, scanVars, history, AfterSample
  <1>7. ASSUME NEW k \in Keys, NEW next \in AfterSample, update_release(k, next)
        PROVE  /\ UNCHANGED << down, late, pending, slept, busy >>
               /\ pc' = next
               /\ lapsed' \in BOOLEAN
    <2>1. lapsed' = (lapsed \/ (Expired(k) /\ k \in down))
      BY <1>7 DEF update_release
    <2>2. lapsed' \in BOOLEAN
      BY <2>1
    <2> QED BY <1>7, <2>2 DEF update_release, scanVars
  <1>8. CASE update_release(fn, f9) \/ update_release(f9, f10) \/ update_release(f10, "combo")
    <2>1. {fn, f9, f10} \subseteq Keys /\ {fn, f9, f10, "combo"} \subseteq AfterSample
      BY DEF Keys, AfterSample
    <2> QED BY <1>1, <1>7, <1>8, <2>1
  <1>9. CASE ServiceCombos
    <2>1. pending' = [d \in Directions |-> pending[d] \/ Due(d)]
      BY <1>9 DEF ServiceCombos
    <2>2. pending' \in [Directions -> BOOLEAN]
      BY <2>1
    <2> QED BY <1>1, <1>9, <2>2 DEF ServiceCombos, scanVars
  <1>10. CASE Take
    BY <1>1, <1>10 DEF Take, history
  <1>11. CASE UNCHANGED vars
    BY <1>1, <1>11 DEF vars, scanVars, loopVars, history
  <1> QED BY <1>2, <1>3, <1>4, <1>5, <1>6, <1>8, <1>9, <1>10, <1>11 DEF Next, Loop

\* All of it.
LEMMA NextTyped ==
    ASSUME TypeOK, HistoryOK, ClockInv, [Next]_vars
    PROVE  TypeOK' /\ HistoryOK' /\ ClockInv'
  <1>1. /\ detector' \in [Keys -> DetectorRecord]
        /\ missed' \in [Keys -> 0..RELEASE_TIMEOUT]
        /\ seen' \in [Keys -> 0..REQUIRED_HITS]
    BY EveryKeySteps, KeyStaysTyped DEF StaysFunctions
  <1> QED BY <1>1, NextClock, NextTypes DEF TypeOK, HistoryOK, DetectorRecord

-----------------------------------------------------------------------------
(* The invariant *)

\* The initial states satisfy it.
LEMMA InitIInv == Init => IInv
  <1> SUFFICES ASSUME Init PROVE IInv
    OBVIOUS
  <1> USE ConstantTypes, NoneFacts
  <1>1. 0 \in 0..Longest /\ 0 \in 0..LoopDelay /\ 0 \in 0..REQUIRED_HITS
        /\ RELEASE_TIMEOUT \in 0..RELEASE_TIMEOUT
    OBVIOUS
  <1>2. TypeOK
    BY <1>1 DEF Init, TypeOK, DetectorRecord
  <1>3. HistoryOK
    BY <1>1 DEF Init, HistoryOK
  <1>4. ClockInv /\ MissedInv
    BY DEF Init, ClockInv, MissedInv
  <1>5. FreshInv
    BY DEF Init, FreshInv, Never
  <1> QED BY <1>2, <1>3, <1>4, <1>5 DEF IInv

\* No stamp gets older than the slots missed since.
LEMMA NextMissed ==
    ASSUME TypeOK, HistoryOK, MissedInv, [Next]_vars
    PROVE  MissedInv'
  <1> USE ConstantTypes, NoneFacts
  <1> SUFFICES ASSUME NEW k \in Keys
               PROVE  missed'[k] >= RELEASE_TIMEOUT \/ detector'[k].age <= missed'[k]
    BY DEF MissedInv
  <1>1. /\ detector[k] \in DetectorRecord /\ missed[k] \in 0..RELEASE_TIMEOUT
        /\ missed[k] >= RELEASE_TIMEOUT \/ detector[k].age <= missed[k]
        /\ detector[k].age \in {None} \cup 0..AgeCap
    BY KeyTypes DEF MissedInv, DetectorRecord
  <1>2. CASE Stays(k)
    BY <1>1, <1>2 DEF Stays
  <1>3. CASE IsHit(k)
    <2>1. record_pair(Aged(detector[k], 1)).age = 0
      BY <1>1, AgedTyped, RecordTyped
    <2> QED BY <1>3, <2>1 DEF IsHit
  <1>4. CASE \E n \in Nat \ {0} : Ages(k, n)
    <2>1. PICK n \in Nat \ {0} : Ages(k, n)
      BY <1>4
    <2> DEFINE c == Aged(detector[k], n)
    <2>2. c.age = None \/ (c.age <= detector[k].age + n /\ detector[k].age # None)
      BY <1>1, AgedTyped
    <2>3. c.age \in {None} \cup 0..AgeCap
      BY <1>1, AgedTyped DEF DetectorRecord
    <2>4. detector'[k].age = c.age /\ missed'[k] = Smaller(missed[k] + n, RELEASE_TIMEOUT)
      BY <2>1 DEF Ages, Unseen
    <2> HIDE DEF c
    <2>5. \/ Smaller(missed[k] + n, RELEASE_TIMEOUT) >= RELEASE_TIMEOUT
          \/ c.age <= Smaller(missed[k] + n, RELEASE_TIMEOUT)
      BY <1>1, <2>2, <2>3 DEF Smaller
    <2> QED BY <2>4, <2>5
  <1>5. CASE IsReleased(k)
    BY <1>1, <1>5 DEF IsReleased, DetectorRecord
  <1> QED BY <1>2, <1>3, <1>4, <1>5, EveryKeySteps DEF KeyStep

\* The loop has looked at every key before it looks at the combinations.
LEMMA NextFresh ==
    ASSUME IInv, [Next]_vars
    PROVE  FreshInv'
  <1> USE ConstantTypes, NoneFacts
  <1> SUFFICES ASSUME NEW k \in Keys, detector'[k].pressed, pc' \in Checked(k)
               PROVE  detector'[k].age < RELEASE_TIMEOUT + now_age'
    BY DEF FreshInv
  <1>1. /\ TypeOK /\ HistoryOK
        /\ now_age \in 0..Longest
        /\ detector[k] \in DetectorRecord
        /\ detector[k].age \in {None} \cup 0..AgeCap
        /\ Checked(k) \subseteq {f9, f10, "combo"} /\ k \notin Checked(k)
    <2>1. TypeOK /\ HistoryOK
      BY DEF IInv
    <2>2. detector[k] \in DetectorRecord /\ now_age \in 0..Longest
      BY <2>1, KeyTypes DEF TypeOK
    <2>3. detector[k].age \in {None} \cup 0..AgeCap
      BY <2>2 DEF DetectorRecord
    <2>4. Checked(k) \subseteq {f9, f10, "combo"} /\ k \notin Checked(k)
      BY DEF Checked, Keys, fn, f9, f10
    <2> QED BY <2>1, <2>2, <2>3, <2>4
  <1>2. CASE \E j \in Keys : Edge(j)
    <2>1. UNCHANGED << pc, now_age >>
      BY <1>2 DEF Edge, loopVars
    <2>2. CASE IsHit(k)
      <3>1. record_pair(Aged(detector[k], 1)).age = 0
        BY <1>1, AgedTyped, RecordTyped
      <3> QED BY <1>1, <2>1, <2>2, <3>1 DEF IsHit
    <2>3. CASE Stays(k)
      BY <1>1, <2>1, <2>3 DEF Stays, IInv, FreshInv
    <2>4. CASE \E n \in Nat \ {0} : Ages(k, n)
      BY <1>1, <2>1, <2>4 DEF Ages, fn, f9, f10
    <2>5. CASE IsReleased(k)
      BY <1>1, <2>1, <2>5 DEF IsReleased
    <2> QED BY <1>1, <2>2, <2>3, <2>4, <2>5, EveryKeySteps DEF KeyStep
  <1>3. CASE update_release(fn, f9) \/ update_release(f9, f10) \/ update_release(f10, "combo")
    <2>1. PICK j \in Keys, next \in {f9, f10, "combo"} :
              /\ update_release(j, next)
              /\ j = fn => next = f9
              /\ j = f9 => next = f10
              /\ j = f10 => next = "combo"
      BY <1>3 DEF Keys, fn, f9, f10
    <2>2. pc = j /\ pc' = next /\ now_age' = now_age
      BY <2>1 DEF update_release
    <2>3. CASE k = j
      <3>1. ~Expired(k) /\ detector'[k] = detector[k]
        BY <1>1, <2>1, <2>3, ReleaseSteps
      <3>2. detector[k].age # None => detector[k].age - now_age < RELEASE_TIMEOUT
        BY <1>1, <3>1 DEF Expired
      <3> QED BY <1>1, <2>2, <3>1, <3>2
    <2>4. CASE k # j
      <3>1. detector'[k] = detector[k]
        BY <1>1, <2>1, <2>4, ReleaseSteps
      <3>2. pc \in Checked(k)
        BY <2>1, <2>2, <2>4 DEF Checked, Keys, fn, f9, f10
      <3> QED BY <2>2, <3>1, <3>2 DEF IInv, FreshInv
    <2> QED BY <2>3, <2>4
  <1>4. CASE UNCHANGED vars
    BY <1>4 DEF vars, loopVars, IInv, FreshInv
  <1>5. pc' \in {f9, f10, "combo"}
    BY <1>1
  <1>6. CASE \/ \E H \in SUBSET Hit : Scan(H)
             \/ \E j \in Fingers : Finger(j)
             \/ Transaction \/ Sample \/ ServiceCombos \/ Take
    BY <1>5, <1>6 DEF Scan, Finger, Transaction, Sample, ServiceCombos, Take, loopVars,
       fn, f9, f10
  <1> QED BY <1>2, <1>3, <1>4, <1>6 DEF Next, Loop

\* Every step keeps it.
LEMMA NextIInv == IInv /\ [Next]_vars => IInv'
  <1> SUFFICES ASSUME IInv, [Next]_vars PROVE IInv'
    OBVIOUS
  <1> QED BY NextTyped, NextMissed, NextFresh DEF IInv

\* The inductive invariant holds throughout.
THEOREM Invariance == Spec => []IInv
  BY InitIInv, NextIInv, PTL DEF Spec

\* Every variable keeps its type: a count of hits never passes its cap, no
\* age and no deadline leaves the range that the longest transaction allows.
THEOREM TypeCorrect == Spec => []TypeOK
  BY Invariance, PTL DEF IInv
-----------------------------------------------------------------------------
(* What the decoder keeps true of the keys *)

\* A key that stays down is released only after transactions have hidden its
\* slots for the whole release time, or by an edge between the loop's look at
\* the clock and its look at the key.
THEOREM HeldKeysStayPressed == Spec => HeldStaysPressed
  <1>1. ASSUME IInv, [Next]_vars
        PROVE  \A k \in down : detector[k].pressed /\ ~detector'[k].pressed =>
                   missed[k] >= RELEASE_TIMEOUT \/ k \in late
    <2> USE ConstantTypes, NoneFacts
    <2> SUFFICES ASSUME NEW k \in Keys, detector[k].pressed, ~detector'[k].pressed
                 PROVE  missed[k] >= RELEASE_TIMEOUT \/ k \in late
      BY <1>1 DEF IInv, TypeOK
    <2>1. /\ detector[k] \in DetectorRecord /\ missed[k] \in 0..RELEASE_TIMEOUT
          /\ now_age \in 0..Longest
          /\ missed[k] >= RELEASE_TIMEOUT \/ detector[k].age <= missed[k]
      BY <1>1, KeyTypes DEF IInv, MissedInv, TypeOK
    <2>2. KeyStep(k)
      BY <1>1, EveryKeySteps DEF IInv
    <2>3. ~Stays(k)
      BY DEF Stays
    <2>4. ~IsHit(k)
      <3>1. Aged(detector[k], 1) \in DetectorRecord /\ Aged(detector[k], 1).pressed
        BY <2>1, AgedTyped
      <3>2. record_pair(Aged(detector[k], 1)).pressed
        BY <3>1, RecordTyped
      <3> QED BY <3>2 DEF IsHit
    <2>5. ASSUME NEW n \in Nat \ {0} PROVE ~Ages(k, n)
      <3>1. Aged(detector[k], n).pressed
        BY <2>1, AgedTyped
      <3> QED BY <3>1 DEF Ages
    <2>6. Expired(k)
      BY <2>2, <2>3, <2>4, <2>5 DEF KeyStep, IsReleased
    <2>7. detector[k].age \in 0..AgeCap
      BY <2>1, <2>6 DEF Expired, DetectorRecord
    <2>8. k \in late \/ detector[k].age >= RELEASE_TIMEOUT
      BY <2>1, <2>6, <2>7 DEF Expired
    <2> QED BY <2>1, <2>7, <2>8
  <1>2. IInv /\ [Next]_vars =>
            [\A k \in down : detector[k].pressed /\ ~detector'[k].pressed =>
                 missed[k] >= RELEASE_TIMEOUT \/ k \in late]_vars
    BY <1>1
  <1> QED BY <1>2, Invariance, PTL DEF Spec, HeldStaysPressed

\* Only the service call makes events, and only for an active combination
\* whose keys the same pass has looked at.
LEMMA EventsComeFromCombos ==
    ASSUME [Next]_vars, NEW d \in Directions, TypeOK, Event(d)
    PROVE  ServiceCombos /\ pc = "combo" /\ Due(d)
  <1>1. pending \in [Directions -> BOOLEAN] /\ pending'[d] # pending[d]
    BY DEF TypeOK, Event
  <1>2. CASE ServiceCombos
    BY <1>1, <1>2 DEF ServiceCombos, Event
  <1>3. CASE Take
    BY <1>3 DEF Take, Event
  <1>4. CASE ~ServiceCombos /\ ~Take
    <2>1. pending' = pending
      BY <1>4 DEF Next, Loop, Scan, Transaction, Edge, Finger, Sample, update_release,
         loopVars, vars
    <2> QED BY <1>1, <2>1
  <1> QED BY <1>2, <1>3, <1>4

\* No event comes from a combination that was let go: the last edges of both
\* its keys are at most the release time and one transaction old.
THEOREM NoStaleEvents == Spec => EventsAreFresh
  <1>1. ASSUME IInv, [Next]_vars
        PROVE  \A d \in Directions : Event(d) => \A k \in ComboKeys(d) :
                   detector[k].age < RELEASE_TIMEOUT + Longest
    <2> USE ConstantTypes, NoneFacts
    <2> SUFFICES ASSUME NEW d \in Directions, Event(d), NEW k \in ComboKeys(d)
                 PROVE  detector[k].age < RELEASE_TIMEOUT + Longest
      OBVIOUS
    <2>1. pc = "combo" /\ Due(d)
      BY <1>1, EventsComeFromCombos DEF IInv
    <2>2. k \in Keys /\ detector[k].pressed
      BY <2>1 DEF Due, Active, ComboKeys, Keys
    <2>3. pc \in Checked(k)
      BY <2>1, <2>2 DEF Checked
    <2>4. detector[k].age < RELEASE_TIMEOUT + now_age
      BY <1>1, <2>2, <2>3 DEF IInv, FreshInv
    <2>5. detector[k].age \in Int /\ now_age \in 0..Longest
      BY <1>1, <2>2, KeyTypes DEF IInv, TypeOK, DetectorRecord
    <2> QED BY <2>4, <2>5
  <1>2. IInv /\ [Next]_vars =>
            [\A d \in Directions : Event(d) => \A k \in ComboKeys(d) :
                 detector[k].age < RELEASE_TIMEOUT + Longest]_vars
    BY <1>1
  <1> QED BY <1>2, Invariance, PTL DEF Spec, EventsAreFresh

-----------------------------------------------------------------------------
(* A press takes as many slots in a row as hits are required *)

\* A stamp within the scan period has aged by exactly what passed.
LEMMA AgedWithinPeriod ==
    ASSUME NEW key \in DetectorRecord, NEW n \in Nat,
           Aged(key, n).age # None, Aged(key, n).age <= SCAN_MAX
    PROVE  /\ Aged(key, n).age = key.age + n
           /\ Aged(key, n).consecutive = key.consecutive
           /\ key.age # None
  BY AgedTyped

\* Time does not make a stamp young.
LEMMA AgedIsOld ==
    ASSUME NEW key \in DetectorRecord, NEW n \in Nat \ {0}
    PROVE  Aged(key, n).age # 0
  <1> USE ConstantTypes, NoneFacts
  <1> DEFINE c == Aged(key, n)
  <1>1. SUFFICES ASSUME c.age = 0 PROVE FALSE
    OBVIOUS
  <1>2. c.age = key.age + n /\ key.age # None
    <2>1. c.age # None /\ c.age <= SCAN_MAX
      BY <1>1
    <2> QED BY <2>1, AgedWithinPeriod
  <1>3. key.age \in 0..AgeCap
    BY <1>2 DEF DetectorRecord
  <1> QED BY <1>1, <1>2, <1>3

\* A hit counts no more slots than were seen.
LEMMA HitsAreSeen ==
    ASSUME OneScan, TypeOK, HistoryOK, SeenInv, NEW k \in Keys
    PROVE  Hits(Aged(detector[k], 1)) <= Smaller(seen[k] + 1, REQUIRED_HITS)
  <1> USE ConstantTypes, NoneFacts
  <1> DEFINE c == Aged(detector[k], 1)
  <1>1. /\ detector[k] \in DetectorRecord /\ seen[k] \in 0..REQUIRED_HITS
        /\ c \in DetectorRecord
    BY KeyTypes, AgedTyped
  <1>2. CASE ScanPeriod(c.age)
    <2>1. c.age # None /\ c.age <= SCAN_MAX
      BY <1>2 DEF ScanPeriod
    <2>2. /\ c.age = detector[k].age + 1 /\ detector[k].age # None
          /\ c.consecutive = detector[k].consecutive
      BY <1>1, <2>1, AgedWithinPeriod
    <2>3. detector[k].age \in 0..AgeCap /\ detector[k].consecutive \in 0..REQUIRED_HITS
      BY <1>1, <2>2 DEF DetectorRecord
    <2>4. detector[k].age = 0
      BY <2>1, <2>2, <2>3 DEF OneScan
    <2>5. detector[k].consecutive <= seen[k]
      BY <2>4 DEF SeenInv
    <2>6. Hits(c) = Smaller(detector[k].consecutive + 1, REQUIRED_HITS)
      BY <1>2, <2>2 DEF Hits
    <2> QED BY <1>1, <2>3, <2>5, <2>6 DEF Smaller
  <1>3. CASE ~ScanPeriod(c.age)
    <2>1. Hits(c) = 1
      BY <1>3 DEF Hits
    <2> QED BY <1>1, <2>1 DEF Smaller
  <1> QED BY <1>2, <1>3

\* Every step keeps the count of hits within what was seen.
LEMMA NextSeen ==
    ASSUME OneScan, IInv, SeenInv, [Next]_vars
    PROVE  SeenInv'
  <1> USE ConstantTypes
  <1>1. TypeOK /\ HistoryOK /\ TypeOK' /\ HistoryOK'
    BY NextIInv DEF IInv
  <1> SUFFICES ASSUME NEW k \in Keys, detector'[k].age = 0
               PROVE  detector'[k].consecutive <= seen'[k]
    BY DEF SeenInv
  <1>2. CASE Stays(k)
    BY <1>2 DEF Stays, SeenInv
  <1>3. CASE IsHit(k)
    <2>1. Aged(detector[k], 1) \in DetectorRecord
      BY <1>1, KeyTypes, AgedTyped
    <2>2. detector'[k].consecutive = Hits(Aged(detector[k], 1))
      BY <1>3, <2>1, RecordTyped DEF IsHit
    <2> QED BY <1>1, <1>3, <2>2, HitsAreSeen DEF IsHit
  <1>4. CASE \E n \in Nat \ {0} : Ages(k, n)
    BY <1>1, <1>4, KeyTypes, AgedIsOld DEF Ages
  <1>5. CASE IsReleased(k)
    <2>1. detector[k] \in DetectorRecord
      BY <1>1, KeyTypes
    <2>2. detector'[k].age = detector[k].age /\ detector'[k].consecutive = detector[k].consecutive
      BY <1>5, <2>1 DEF IsReleased, DetectorRecord
    <2> QED BY <1>5, <2>2 DEF IsReleased, SeenInv
  <1> QED BY <1>1, <1>2, <1>3, <1>4, <1>5, EveryKeySteps DEF KeyStep

\* A key counts as pressed only after it was down in REQUIRED_HITS slots of
\* its own in a row, when no two slots but those of successive scans are a
\* scan period apart.
THEOREM PressesAreHeld ==
    ASSUME OneScan
    PROVE  Spec => PressedIsHeld
  <1> USE ConstantTypes
  <1>1. Init => SeenInv
    BY NoneFacts DEF Init, SeenInv, Never
  <1>2. IInv /\ SeenInv /\ [Next]_vars => SeenInv'
    BY NextSeen
  <1>3. ASSUME IInv, SeenInv, [Next]_vars
        PROVE  \A k \in Keys : ~detector[k].pressed /\ detector'[k].pressed =>
                   seen'[k] >= REQUIRED_HITS
    <2>1. TypeOK /\ HistoryOK
      BY <1>3 DEF IInv
    <2> SUFFICES ASSUME NEW k \in Keys, ~detector[k].pressed, detector'[k].pressed
                 PROVE  seen'[k] >= REQUIRED_HITS
      OBVIOUS
    <2>2. detector[k] \in DetectorRecord /\ seen[k] \in 0..REQUIRED_HITS
      BY <2>1, KeyTypes
    <2>3. ~Stays(k)
      BY DEF Stays
    <2>4. ASSUME NEW n \in Nat \ {0} PROVE ~Ages(k, n)
      BY <2>2, AgedTyped DEF Ages
    <2>5. ~IsReleased(k)
      BY <2>2 DEF IsReleased, DetectorRecord
    <2>6. IsHit(k)
      BY <1>3, <2>1, <2>3, <2>4, <2>5, EveryKeySteps DEF KeyStep
    <2> DEFINE c == Aged(detector[k], 1)
    <2>7. c \in DetectorRecord /\ ~c.pressed
      BY <2>2, AgedTyped
    <2>8. Hits(c) >= REQUIRED_HITS
      BY <2>6, <2>7, RecordTyped DEF IsHit
    <2>9. Hits(c) <= Smaller(seen[k] + 1, REQUIRED_HITS)
      BY <1>3, <2>1, HitsAreSeen
    <2>10. Hits(c) \in Nat
      BY <2>7 DEF Hits, Smaller, DetectorRecord
    <2>11. Smaller(seen[k] + 1, REQUIRED_HITS) \in 0..REQUIRED_HITS
      BY <2>2, SeenBounded
    <2> HIDE DEF c
    <2>12. Smaller(seen[k] + 1, REQUIRED_HITS) >= REQUIRED_HITS
      BY <2>8, <2>9, <2>10, <2>11
    <2> QED BY <2>6, <2>12 DEF IsHit
  <1>4. IInv /\ SeenInv /\ [Next]_vars =>
            [\A k \in Keys : ~detector[k].pressed /\ detector'[k].pressed =>
                 seen'[k] >= REQUIRED_HITS]_vars
    BY <1>3
  <1> QED BY <1>1, <1>2, <1>4, Invariance, PTL DEF Spec, PressedIsHeld
-----------------------------------------------------------------------------
(* Repeats *)

\* The two combinations exclude each other.
LEMMA OneHeld ==
    ASSUME NEW d \in Directions, NEW e \in Directions, Held(d), Held(e)
    PROVE  d = e
  BY DEF Held, ComboKeys, Excluded, Directions, fn, f9, f10

\* The keys of a combination are keys.
LEMMA ComboIsKeys ==
    ASSUME NEW d \in Directions
    PROVE  ComboKeys(d) \subseteq Keys /\ Excluded(d) \in Keys
  BY DEF ComboKeys, Excluded, Keys

\* What one of two numbers loses and the other gains, in their bounds.
LEMMA SumIsKept ==
    ASSUME NEW left \in Int, NEW passed \in Nat, NEW n \in Nat, NEW a \in Nat,
           NEW interval \in Nat, left + passed >= interval
    PROVE  /\ Larger(left - n, -a) >= -a
           /\ Larger(left - n, -a) \in Int
           /\ Larger(left - n, -a) + Smaller(passed + n, interval + a) >= interval
  BY DEF Larger, Smaller

\* Time takes from the deadline what it adds to the time since the event.
LEMMA ElapseKeepsSum ==
    ASSUME TypeOK, HistoryOK, NEW n \in Nat, Elapse(n),
           pc \in AfterSample => now_age + n <= Longest,
           NEW d \in Directions, since # None, deadline[d] # None,
           deadline[d] + since >= REPEAT_INTERVAL
    PROVE  /\ deadline'[d] # None
           /\ deadline'[d] + since' >= REPEAT_INTERVAL
  <1> USE ConstantTypes, NoneFacts
  <1>1. now_age' \in 0..Longest
    BY ElapseTyped
  <1>2. PICK a \in 0..Longest : a = now_age'
    BY <1>1
  <1>3. deadline[d] \in Int /\ since \in Nat
    BY DEF TypeOK, HistoryOK
  <1>4. deadline'[d] = Larger(deadline[d] - n, -a) /\ since' = Smaller(since + n, REPEAT_INTERVAL + a)
    BY <1>2 DEF Elapse
  <1>5. /\ Larger(deadline[d] - n, -a) # None
        /\ Larger(deadline[d] - n, -a) + Smaller(since + n, REPEAT_INTERVAL + a)
               >= REPEAT_INTERVAL
    <2> DEFINE left == deadline[d]
    <2>1. left \in Int /\ since \in Nat /\ a \in Nat /\ REPEAT_INTERVAL \in Nat
          /\ left + since >= REPEAT_INTERVAL
      BY <1>3
    <2> HIDE DEF left
    <2>2. /\ Larger(left - n, -a) >= -a
          /\ Larger(left - n, -a) \in Int
          /\ Larger(left - n, -a) + Smaller(since + n, REPEAT_INTERVAL + a)
                 >= REPEAT_INTERVAL
      BY <2>1, SumIsKept
    <2>3. Larger(left - n, -a) # None
      BY <1>2, <2>2
    <2> QED BY <2>2, <2>3 DEF left
  <1> QED BY <1>4, <1>5

\* A key that is not held is not pressed by a step.
LEMMA UnheldStaysUnpressed ==
    ASSUME TypeOK, HistoryOK, [Next]_vars, NEW k \in Keys, k \notin down,
           ~detector[k].pressed
    PROVE  ~detector'[k].pressed
  <1>1. detector[k] \in DetectorRecord
    BY KeyTypes
  <1>2. CASE Stays(k)
    BY <1>2 DEF Stays
  <1>3. ~IsHit(k)
    BY DEF IsHit
  <1>4. CASE \E n \in Nat \ {0} : Ages(k, n)
    BY <1>1, <1>4, AgedTyped DEF Ages
  <1>5. CASE IsReleased(k)
    BY <1>1, <1>5 DEF IsReleased, DetectorRecord
  <1> QED BY <1>2, <1>3, <1>4, <1>5, EveryKeySteps DEF KeyStep

\* An active combination that is held stays active, unless the decoder loses
\* sight of one of its keys.
LEMMA ActiveStays ==
    ASSUME TypeOK, HistoryOK, [Next]_vars, NEW d \in Directions,
           Held(d), Active(d), ~lapsed'
    PROVE  Active(d)'
  <1>1. ComboKeys(d) \subseteq Keys /\ Excluded(d) \in Keys
        /\ ComboKeys(d) \subseteq down /\ Excluded(d) \notin down
    BY ComboIsKeys DEF Held
  <1>2. ASSUME NEW k \in ComboKeys(d) PROVE detector'[k].pressed
    <2>1. detector[k] \in DetectorRecord /\ detector[k].pressed /\ k \in Keys
      BY <1>1, KeyTypes DEF Active
    <2>2. CASE Stays(k)
      BY <2>1, <2>2 DEF Stays
    <2>3. CASE IsHit(k)
      <3>1. Aged(detector[k], 1) \in DetectorRecord /\ Aged(detector[k], 1).pressed
        BY <2>1, AgedTyped
      <3> QED BY <2>3, <3>1, RecordTyped DEF IsHit
    <2>4. CASE \E n \in Nat \ {0} : Ages(k, n)
      BY <2>1, <2>4, AgedTyped DEF Ages
    <2>5. ~IsReleased(k)
      BY <1>1 DEF IsReleased
    <2> QED BY <2>1, <2>2, <2>3, <2>4, <2>5, EveryKeySteps DEF KeyStep
  <1>3. ~detector'[Excluded(d)].pressed
    <2>1. Excluded(d) \in Keys /\ Excluded(d) \notin down /\ ~detector[Excluded(d)].pressed
      BY <1>1 DEF Active
    <2> QED BY <2>1, UnheldStaysUnpressed
  <1>4. ComboKeys(d)' = ComboKeys(d) /\ Excluded(d)' = Excluded(d)
    BY DEF ComboKeys, Excluded
  <1> QED BY <1>2, <1>3 DEF Active, ComboKeys, Excluded

\* An event, the first or a repeat, leaves a whole interval to the next.
LEMMA EventSetsDeadline ==
    ASSUME InitialIsLonger, TypeOK, HistoryOK, NEW d \in Directions, Due(d)
    PROVE  /\ Deadline(d) # None
           /\ Deadline(d) + now_age >= REPEAT_INTERVAL
           /\ now_age \in Nat
  <1> USE ConstantTypes, NoneFacts
  <1>1. now_age \in 0..Longest
    BY DEF TypeOK
  <1>2. Deadline(d) \in {REPEAT_INITIAL - now_age, REPEAT_INTERVAL - now_age}
    BY DEF Due, Deadline, NextDeadline
  <1> QED BY <1>1, <1>2 DEF InitialIsLonger

\* Every step keeps the hold.
LEMMA NextHold ==
    ASSUME InitialIsLonger, IInv, HoldInv, [Next]_vars
    PROVE  HoldInv'
  <1> USE ConstantTypes, NoneFacts
  <1>1. TypeOK /\ HistoryOK /\ ClockInv /\ lapsed \in BOOLEAN
    BY DEF IInv, HistoryOK
  <1> SUFFICES ASSUME since' # None, ~lapsed' PROVE HoldInv'
    BY DEF HoldInv
  <1>2. CASE \E k \in Fingers : Finger(k)
    BY <1>2 DEF Finger
  <1>3. /\ \A k \in Fingers : ~Finger(k)
        => down' = down /\ (lapsed => lapsed')
    BY DEF Next, Loop, Scan, Transaction, Edge, Sample, update_release, ServiceCombos,
       Take, scanVars, loopVars, history, vars
  <1>4. CASE ServiceCombos /\ \E d \in Directions : Due(d) /\ Held(d)
    <2>1. PICK d \in Directions : Due(d) /\ Held(d)
      BY <1>4
    <2>2. /\ deadline'[d] = Deadline(d) /\ since' = now_age
          /\ UNCHANGED << down, detector >>
      BY <1>4, <2>1 DEF ServiceCombos, scanVars
    <2>3. Held(d)' /\ Active(d)'
      BY <2>1, <2>2 DEF Due, Held, Active, ComboKeys, Excluded
    <2>4. deadline'[d] # None /\ deadline'[d] + since' >= REPEAT_INTERVAL
      BY <1>1, <2>1, <2>2, EventSetsDeadline
    <2> QED BY <2>3, <2>4 DEF HoldInv
  <1>5. ASSUME \A k \in Fingers : ~Finger(k),
               ~(ServiceCombos /\ \E d \in Directions : Due(d) /\ Held(d))
        PROVE  HoldInv'
    <2>1. down' = down /\ ~lapsed
      BY <1>1, <1>3, <1>5
    <2>2. since # None
      BY <1>5 DEF Next, Loop, Scan, Transaction, Elapse, Edge, Sample, update_release,
         ServiceCombos, Take, scanVars, loopVars, history, vars
    <2>3. PICK d \in Directions : /\ Held(d) /\ Active(d)
                                  /\ deadline[d] # None
                                  /\ deadline[d] + since >= REPEAT_INTERVAL
      BY <2>1, <2>2 DEF HoldInv
    <2>4. Held(d)'
      BY <2>1, <2>3 DEF Held, ComboKeys, Excluded
    <2>5. Active(d)'
      BY <1>1, <2>3, ActiveStays
    <2>6. deadline'[d] # None /\ deadline'[d] + since' >= REPEAT_INTERVAL
      <3>1. CASE \E H \in SUBSET Hit : Scan(H)
        <4>1. Elapse(1) /\ pc \notin AfterSample
          BY <3>1 DEF Scan, AfterSample, fn, f9, f10
        <4> QED BY <1>1, <2>2, <2>3, <4>1, ElapseKeepsSum
      <3>2. CASE Transaction
        <4>1. PICK n \in MaskLengths : Elapse(n)
          BY <3>2 DEF Transaction
        <4>2. n \in 1..Longest /\ now_age = 0
          BY <1>1, <3>2 DEF Transaction, ClockInv
        <4> QED BY <1>1, <2>2, <2>3, <4>1, <4>2, ElapseKeepsSum
      <3>3. CASE ServiceCombos
        <4>1. deadline'[d] = Deadline(d) /\ since' = since
          BY <1>5, <3>3 DEF ServiceCombos
        <4>2. ~Due(d)
          BY <1>5, <2>3, <3>3
        <4>3. Deadline(d) = deadline[d]
          BY <2>3, <4>2 DEF Due, Deadline
        <4> QED BY <2>3, <4>1, <4>3
      <3>4. CASE ~(\E H \in SUBSET Hit : Scan(H)) /\ ~Transaction /\ ~ServiceCombos
        <4>1. UNCHANGED << deadline, since >>
          BY <1>5, <3>4 DEF Next, Loop, Edge, Sample, update_release, Take, loopVars,
             history, vars
        <4> QED BY <2>3, <4>1
      <3> QED BY <3>1, <3>2, <3>3, <3>4
    <2> QED BY <2>4, <2>5, <2>6 DEF HoldInv
  <1> QED BY <1>2, <1>4, <1>5

\* While the decoder does not lose sight of a held key, two events of one
\* hold are an interval apart, when the first repeat is no sooner than the
\* next ones.
THEOREM RepeatsKeepTheRate ==
    ASSUME InitialIsLonger
    PROVE  Spec => RepeatsUnlessLapsed
  <1> USE ConstantTypes, NoneFacts
  <1>1. Init => HoldInv
    BY DEF Init, HoldInv
  <1>2. IInv /\ HoldInv /\ [Next]_vars => HoldInv'
    BY NextHold
  <1>3. ASSUME IInv, HoldInv, [Next]_vars
        PROVE  (\E d \in Directions : Event(d) /\ Held(d)) =>
                   lapsed \/ since = None \/ since - now_age >= REPEAT_INTERVAL
    <2> SUFFICES ASSUME NEW d \in Directions, Event(d), Held(d), ~lapsed, since # None
                 PROVE  since - now_age >= REPEAT_INTERVAL
      OBVIOUS
    <2>1. TypeOK /\ HistoryOK
      BY <1>3 DEF IInv
    <2>2. Due(d)
      BY <1>3, <2>1, EventsComeFromCombos
    <2>3. PICK e \in Directions : /\ Held(e)
                                  /\ deadline[e] # None
                                  /\ deadline[e] + since >= REPEAT_INTERVAL
      BY <1>3 DEF HoldInv
    <2>4. e = d
      BY <2>3, OneHeld
    <2>5. deadline[d] + now_age <= 0
      BY <2>2, <2>3, <2>4 DEF Due, Reached
    <2>6. deadline[d] \in Int /\ since \in Nat /\ now_age \in Nat
      BY <2>1, <2>3, <2>4 DEF TypeOK, HistoryOK
    <2> QED BY <2>3, <2>4, <2>5, <2>6
  <1>4. IInv /\ HoldInv /\ [Next]_vars =>
            [(\E d \in Directions : Event(d) /\ Held(d)) =>
                 lapsed \/ since = None \/ since - now_age >= REPEAT_INTERVAL]_vars
    BY <1>3
  <1> QED BY <1>1, <1>2, <1>4, Invariance, PTL DEF Spec, RepeatsUnlessLapsed
=============================================================================
