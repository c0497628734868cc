--------------------------- MODULE KeyboardMatrix ---------------------------
(***************************************************************************)
(* The keyboard decoder (ESP32/main/keyboard_matrix.c): five edge          *)
(* interrupts that watch the laptop's own matrix scan, and the service     *)
(* call of the main loop that turns what they saw into one-shot events.    *)
(*                                                                         *)
(* The unit of time is one scan of the matrix.  In the slot of a key the   *)
(* laptop pulls that key's KSO line low, and the KSI line of a key that is *)
(* down follows; once in a scan all KSO lines are low together.  The       *)
(* handlers of the edges of one slot take microseconds and act as one: the *)
(* first finds the other stamp of the pair old, the second finds both      *)
(* young, any further one is dropped (PAIR_DEDUP_US).                      *)
(*                                                                         *)
(* A pass of the loop takes microseconds.  The slot of one key may fall    *)
(* between its pieces (Edge), all other slots fall in its sleep (Scan).  A *)
(* transaction of the software I2C interrupt masks handlers and loop       *)
(* alike.  An edge served after its slot finds the lines high again and    *)
(* records nothing: the transaction hides some slots of one scan (Scan),   *)
(* or whole scans (Transaction).                                           *)
(*                                                                         *)
(* Stamps are kept as ages, a stamp of 0 ("never", "no deadline") is None. *)
(* That a running clock may read exactly 0 is left out.                    *)
(***************************************************************************)
EXTENDS Integers

CONSTANTS
    SCAN_MIN, SCAN_MAX,      \* accepted distance of two hits (3.5 to 7.5 ms)
    REQUIRED_HITS,           \* 3
    RELEASE_TIMEOUT,         \* 30 ms
    REPEAT_INITIAL,          \* 400 ms
    REPEAT_INTERVAL,         \* 150 ms
    Fingers,                 \* bound: the keys the user moves, others are held
    LoopDelay,               \* vTaskDelay(1), in scans
    MaskLengths              \* whole scans one transaction may hide

fn  == "fn"
f9  == "f9"
f10 == "f10"
Keys == {fn, f9, f10}
Directions == {"down", "up"}

Longest == CHOOSE n \in MaskLengths : \A m \in MaskLengths : m <= n
None    == -(Longest + 1)
AgeCap  == RELEASE_TIMEOUT + Longest + 1

ASSUME KeyboardAssumption ==
    /\ SCAN_MIN \in Nat /\ SCAN_MAX \in Nat
    /\ REQUIRED_HITS \in Nat \ {0}
    /\ RELEASE_TIMEOUT \in Nat /\ RELEASE_TIMEOUT > SCAN_MAX
    /\ REPEAT_INITIAL \in Nat /\ REPEAT_INTERVAL \in Nat
    /\ Fingers \subseteq Keys
    /\ LoopDelay \in Nat \ {0}
    /\ MaskLengths \subseteq Nat \ {0}
    /\ \E n \in MaskLengths : \A m \in MaskLengths : m <= n

VARIABLES
    down,       \* the keys the user holds
    detector,   \* s_fn, s_f9, s_f10: age of last_scan_us, consecutive, pressed
    pc,         \* the piece of the loop that runs next
    now_age,    \* age of the loop's sample of the clock
    late,       \* the keys whose slot came, and was seen, after that sample
    deadline,   \* time left to s_*_repeat_deadline; None: not s_*_active
    pending,    \* s_down_pending, s_up_pending
    slept,      \* scans the loop has slept
    busy,       \* a transaction has held the CPU in this pass
    missed,     \* history: slots of a held key hidden since its last hit
    seen,       \* history: slots in a row in which the key was down
    since,      \* history: age of the last event of the present hold, or None
    lapsed      \* history: the code released a key of the present hold

scanVars == << down, busy >>
loopVars == << pc, now_age, deadline, pending, slept >>
history  == << missed, seen, since, lapsed >>
vars == << scanVars, detector, late, loopVars, history >>

Smaller(a, b) == IF a < b THEN a ELSE b
Larger(a, b)  == IF a < b THEN b ELSE a

-----------------------------------------------------------------------------
(* The lines in a slot, and the handlers of their edges *)

Kso == [fn |-> "FN_KSO", f9 |-> "F9_KSO", f10 |-> "F10_KSO"]
Ksi == [fn |-> "FN_KSI", f9 |-> "FKEY_KSI", f10 |-> "FKEY_KSI"]

\* A key that is down connects its KSO line to its KSI line.
LinesLow(keys) ==
    {Kso[k] : k \in keys} \cup {Ksi[k] : k \in keys \cap down}

\* Mutant: the all-low state of the scan is not rejected.
NothingMustBeHigh(k) == {}

\* The KSO lines that must be high for the pair of k to count.
MustBeHigh(k) == {Kso[j] : j \in {f9, f10} \ {k}}

\* try_fn_pair, try_f9_pair, try_f10_pair, by the levels of the lines.
PairSeen(k, low) == {Kso[k], Ksi[k]} \subseteq low /\ MustBeHigh(k) \cap low = {}

\* The keys whose pair is seen in one scan: in their own slot, or while all
\* lines are low.
Hit == {k \in Keys : PairSeen(k, LinesLow({k})) \/ PairSeen(k, LinesLow(Keys))}

Never == [age |-> None, consecutive |-> 0, pressed |-> FALSE]

ScanPeriod(age) == age >= SCAN_MIN /\ age <= SCAN_MAX

\* Mutant: the count is not capped and would wrap.
HitsUncapped(key) == IF ScanPeriod(key.age) THEN key.consecutive + 1 ELSE 1

\* Hits at the scan period are counted, up to a cap (255, here REQUIRED_HITS);
\* any other starts again at 1.
Hits(key) == IF ScanPeriod(key.age)
             THEN Smaller(key.consecutive + 1, REQUIRED_HITS)
             ELSE 1

\* Mutant: the stamp stays where it was once the key is pressed.
StampUntilPressed(key) == IF key.pressed THEN key.age ELSE 0

\* last_scan_us = now
Stamped(key) == 0

record_pair(key) ==
    [age |-> Stamped(key), consecutive |-> Hits(key),
     pressed |-> key.pressed \/ Hits(key) >= REQUIRED_HITS]

\* Ages stop where they decide nothing any more.  That of a pressed key is
\* compared with the release time; for another, a stamp beyond the scan
\* period is as good as none.
Aged(key, n) ==
    IF key.age = None THEN key
    ELSE IF key.pressed THEN [key EXCEPT !.age = Smaller(@ + n, AgeCap)]
    ELSE IF key.age + n > SCAN_MAX THEN Never
    ELSE [key EXCEPT !.age = @ + n]

-----------------------------------------------------------------------------
(* The scan and the interrupt *)

AfterSample == {fn, f9, f10, "combo"}

\* n scans pass: the loop's sample and the deadlines age.  A deadline that
\* the sample has reached stays reached.
Elapse(n) ==
    /\ now_age' = IF pc \in AfterSample THEN now_age + n ELSE now_age
    /\ deadline' = [d \in Directions |->
            IF deadline[d] = None THEN None ELSE Larger(deadline[d] - n, -now_age')]
    /\ since' = IF since = None THEN None
                ELSE Smaller(since + n, REPEAT_INTERVAL + now_age')

\* n slots of k pass and nobody sees them.
Unseen(k, n) == Smaller(missed[k] + n, RELEASE_TIMEOUT)

\* The rest of a scan, while the loop sleeps; a transaction may hide the
\* slots of the keys in H.
Scan(H) ==
    LET due  == Keys \ late
        hits == (Hit \ H) \cap due
        pass(k) == IF k \in due THEN Aged(detector[k], 1) ELSE detector[k]
    IN  /\ pc = "sleep"
        /\ slept < LoopDelay
        /\ slept' = slept + 1
        /\ H # {} => ~busy
        /\ busy' = (busy \/ H # {})
        /\ Elapse(1)
        /\ detector' = [k \in Keys |-> IF k \in hits THEN record_pair(pass(k)) ELSE pass(k)]
        /\ missed' = [k \in Keys |-> IF k \in hits THEN 0
                                     ELSE Unseen(k, IF k \in due THEN 1 ELSE 0)]
        /\ seen' = [k \in Keys |-> IF k \notin due THEN seen[k]
                                   ELSE IF k \in down
                                        THEN Smaller(seen[k] + 1, REQUIRED_HITS)
                                        ELSE 0]
        /\ late' = {}
        /\ UNCHANGED << down, pc, pending, lapsed >>

\* The slot of one key falls between two pieces of the loop: before the loop
\* looks at the key, or after it.
Edge(k) ==
    /\ pc \in {k, "combo"}
    /\ late = {}
    /\ k \in Hit
    /\ detector' = [detector EXCEPT ![k] = record_pair(Aged(@, 1))]
    /\ late' = {k}
    /\ missed' = [missed EXCEPT ![k] = 0]
    /\ seen' = [seen EXCEPT ![k] = Smaller(@ + 1, REQUIRED_HITS)]
    /\ UNCHANGED << scanVars, loopVars, since, lapsed >>

\* A transaction masks everything for n scans.  One in each pass, a bound.
\* Anywhere later in a pass it commutes with the pieces that follow: they go
\* by the sample.
Transaction ==
    \E n \in MaskLengths :
        /\ pc \in {fn, "sleep"}
        /\ ~busy
        /\ busy' = TRUE
        /\ Elapse(n)
        /\ detector' = [k \in Keys |-> Aged(detector[k], n)]
        /\ missed' = [k \in Keys |-> Unseen(k, n)]
        /\ seen' = [k \in Keys |-> IF k \in down THEN seen[k] ELSE 0]
        /\ UNCHANGED << down, late, pc, pending, slept, lapsed >>

\* The user.  The loop does not look at the keys, so its sleep is late enough.
Finger(k) ==
    /\ pc = "sleep"
    /\ down' = (down \ {k}) \cup ({k} \ down)
    /\ since' = None
    /\ lapsed' = FALSE
    /\ missed' = [missed EXCEPT ![k] = RELEASE_TIMEOUT]
    /\ UNCHANGED << busy, detector, late, loopVars, seen >>

-----------------------------------------------------------------------------
(* The loop: keyboard_matrix_service and the two takes *)

\* The next pass begins and samples the clock.
Sample ==
    /\ pc = "sleep"
    /\ slept = LoopDelay
    /\ pc' = fn
    /\ slept' = 0
    /\ now_age' = 0
    /\ UNCHANGED << scanVars, detector, late, deadline, pending, history >>

\* Mutant: a release is never noticed.
NeverExpired(k) == FALSE

\* Some part of a scan passes between a slot and the sample, so an age of
\* RELEASE_TIMEOUT is past it.  The difference is unsigned: a stamp that is
\* later than the sample is an enormous time ago.
Expired(k) ==
    /\ detector[k].pressed
    /\ detector[k].age # None
    /\ k \in late \/ detector[k].age - now_age >= RELEASE_TIMEOUT

update_release(k, next) ==
    /\ pc = k
    /\ detector' = [detector EXCEPT ![k].pressed = @ /\ ~Expired(k)]
    /\ lapsed' = (lapsed \/ (Expired(k) /\ k \in down))
    /\ pc' = next
    /\ UNCHANGED << scanVars, late, now_age, deadline, pending, slept,
                    missed, seen, since >>

ComboKeys(d) == IF d = "down" THEN {fn, f9} ELSE {fn, f10}
Excluded(d)  == IF d = "down" THEN f10 ELSE f9

\* Both brightness keys at once mean neither.
Active(d) ==
    /\ \A k \in ComboKeys(d) : detector[k].pressed
    /\ ~detector[Excluded(d)].pressed

\* Mutant: a held combination is not repeated.
NeverReached(d) == FALSE

Reached(d) == deadline[d] + now_age <= 0

\* service_combo: an event when the combination is first seen, and another
\* whenever the sample of the clock has reached the deadline.
Due(d) == Active(d) /\ (deadline[d] = None \/ Reached(d))

\* Mutant: the deadline of the last repeat is left standing.
KeepDeadline(d) == deadline[d]

\* The deadline after a repeat.
NextDeadline(d) == REPEAT_INTERVAL - now_age

Deadline(d) ==
    IF ~Active(d) THEN None
    ELSE IF deadline[d] = None THEN REPEAT_INITIAL - now_age
    ELSE IF Reached(d) THEN NextDeadline(d)
    ELSE deadline[d]

\* The user holds this combination and no other.
Held(d) == ComboKeys(d) \subseteq down /\ Excluded(d) \notin down

ServiceCombos ==
    /\ pc = "combo"
    /\ pending' = [d \in Directions |-> pending[d] \/ Due(d)]
    /\ deadline' = [d \in Directions |-> Deadline(d)]
    /\ since' = IF \E d \in Directions : Due(d) /\ Held(d) THEN now_age ELSE since
    /\ now_age' = 0
    /\ pc' = "take"
    /\ UNCHANGED << scanVars, detector, late, slept, missed, seen, lapsed >>

\* keyboard_matrix_take_brightness_down, ..._up: the events go to the loop.
Take ==
    /\ pc = "take"
    /\ pending' = [d \in Directions |-> FALSE]
    /\ busy' = FALSE
    /\ pc' = "sleep"
    /\ UNCHANGED << down, detector, late, now_age, deadline, slept, history >>

-----------------------------------------------------------------------------
Init ==
    /\ down = Keys \ Fingers
    /\ detector = [k \in Keys |-> Never]
    /\ pc = "sleep"
    /\ now_age = 0
    /\ late = {}
    /\ deadline = [d \in Directions |-> None]
    /\ pending = [d \in Directions |-> FALSE]
    /\ slept = 0
    /\ busy = FALSE
    /\ missed = [k \in Keys |-> RELEASE_TIMEOUT]
    /\ seen = [k \in Keys |-> 0]
    /\ since = None
    /\ lapsed = FALSE

Loop ==
    \/ Sample
    \/ update_release(fn, f9) \/ update_release(f9, f10) \/ update_release(f10, "combo")
    \/ ServiceCombos \/ Take

Next ==
    \/ \E H \in SUBSET Hit : Scan(H)
    \/ Transaction
    \/ \E k \in Keys : Edge(k)
    \/ \E k \in Fingers : Finger(k)
    \/ Loop

\* The laptop scans as long as it is awake, and the loop runs.
Spec == Init /\ [][Next]_vars /\ WF_vars(Scan({})) /\ WF_vars(Loop)
-----------------------------------------------------------------------------
(* What the decoder keeps true *)

\* Every variable keeps its type: a count of hits never passes its cap, a
\* stamp never lies before the start of the longest transaction.
TypeOK ==
    /\ down \subseteq Keys
    /\ detector \in [Keys -> [age : {None} \cup 0..AgeCap,
                              consecutive : 0..REQUIRED_HITS, pressed : BOOLEAN]]
    /\ pc \in AfterSample \cup {"take", "sleep"}
    /\ now_age \in 0..Longest
    /\ late \subseteq Keys
    /\ deadline \in [Directions -> {None} \cup (-Longest)..Larger(REPEAT_INITIAL, REPEAT_INTERVAL)]
    /\ pending \in [Directions -> BOOLEAN]
    /\ slept \in 0..LoopDelay
    /\ busy \in BOOLEAN

Event(d) == ~pending[d] /\ pending'[d]

\* A key counts as pressed only after it was down in REQUIRED_HITS slots of
\* its own in a row: not for a tap, not for another key on the same sense
\* line, not for the all-low state of the scan (try_f9_pair, record_pair).
PressedIsHeld ==
    [][\A k \in Keys : ~detector[k].pressed /\ detector'[k].pressed =>
            seen'[k] >= REQUIRED_HITS]_vars

\* A key that stays down stays pressed.  To lose it takes transactions that
\* hide its slots for the whole release time, or an edge between the loop's
\* look at the clock and its look at the key (update_release).
HeldStaysPressed ==
    [][\A k \in down : detector[k].pressed /\ ~detector'[k].pressed =>
            missed[k] >= RELEASE_TIMEOUT \/ k \in late]_vars

\* No event from a combination that was let go: the last edges of both its
\* keys are at most the release time and one transaction old.
EventsAreFresh ==
    [][\A d \in Directions : Event(d) => \A k \in ComboKeys(d) :
            detector[k].age < RELEASE_TIMEOUT + Longest]_vars

\* keyboard_matrix.h:18: "One-shot events. Holding a combo repeats after the
\* configured delay/rate."  Two events of one hold are an interval apart.
RepeatsAtRate ==
    [][(\E d \in Directions : Event(d) /\ Held(d)) =>
            since = None \/ since - now_age >= REPEAT_INTERVAL]_vars

\* The same, unless the decoder lost sight of a key that was still held:
\* nothing else brings an event early (service_combo).
RepeatsUnlessLapsed ==
    [][(\E d \in Directions : Event(d) /\ Held(d)) =>
            lapsed \/ since = None \/ since - now_age >= REPEAT_INTERVAL]_vars

\* A combination that is held keeps stepping, unless transactions and
\* edges within a pass disturb it again and again.
HeldKeepsStepping ==
    \A d \in Directions : <>[](Held(d) /\ ~busy /\ late = {}) => []<>(pending[d])
=============================================================================
