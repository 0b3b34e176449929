-------------------------- MODULE SessionClockProofs --------------------------
(***************************************************************************)
(* No session and no call outlasts its time by more than the checks it has *)
(* to wait for, and none is ended early unless the reading of the clock    *)
(* has started again.                                                      *)
(***************************************************************************)
EXTENDS SessionClock, ListFacts

Timed == [stamp : Nat, begin : Nat]

TypeOK ==
    /\ now \in Nat
    /\ unchecked \in 0 .. CHECK_GAP
    /\ active \in Seq(Timed)
    /\ Len(active) <= MAX_BOOTH_CAPACITY
    /\ call \in Timed \cup {NoCall}
    /\ ended \in SUBSET [begin : Nat, early : BOOLEAN]

(* A stamp is the reading of a moment that is not in the future.           *)
Stamped(timed) == timed.stamp = Reading(timed.begin) /\ timed.begin <= now

(* Who stands at place i is moved up by each check that finds it over, so  *)
(* at most MAX_BOOTH_CAPACITY - i checks have ended another session while  *)
(* this one was over.                                                      *)
Slack(i) == CHECK_GAP * (MAX_BOOTH_CAPACITY - i)

SoonOver(timed, i) == now - timed.begin < SESSION_DURATION_MS + unchecked + Slack(i)

CallSoonOver == now - call.begin < QUEUE_READY_TIMEOUT_MS + unchecked

Sessions == \A i \in 1 .. Len(active) : Stamped(active[i]) /\ SoonOver(active[i], i)

Calls == call # NoCall => Stamped(call) /\ CallSoonOver

IInv == TypeOK /\ Sessions /\ Calls /\ NotEarlyInLap

-----------------------------------------------------------------------------
(* The clock *)

(* Division with remainder. *)
LEMMA DivMod ==
    ASSUME NEW x \in Nat, NEW m \in Nat \ {0}
    PROVE  /\ x \div m \in Nat
           /\ x % m \in 0 .. m - 1
           /\ x = (m * (x \div m)) + (x % m)
<1> QED OBVIOUS

(* A whole number of laps leaves no rest.                                  *)
LEMMA MultipleFact ==
    ASSUME NEW q \in Nat, NEW m \in Nat \ {0}
    PROVE  (m * q) % m = 0
<1> QED OBVIOUS

(* More laps take at least as long.                                        *)
LEMMA MoreLaps ==
    ASSUME NEW d \in Int, NEW m \in Nat \ {0}
    PROVE  (d >= 2 => m * d >= 2 * m) /\ (d <= -1 => m * d <= -m) /\ m * 1 = m /\ m * 0 = 0
<1> QED OBVIOUS

(* A span within one lap is its own rest.                                  *)
LEMMA SmallMod ==
    ASSUME NEW m \in Nat \ {0}, NEW d \in Int
    PROVE  (d \in 0 .. m - 1 => d % m = d) /\ (d \in -m .. -1 => d % m = d + m)
<1> QED OBVIOUS

(* Less than a lap ahead is in the same lap or in the next.                *)
LEMMA SameOrNextLap ==
    ASSUME NEW m \in Nat \ {0}, NEW p \in Nat, NEW q \in Nat,
           NEW r \in 0 .. m - 1, NEW s \in 0 .. m - 1, NEW x \in Nat, NEW y \in Nat,
           x = (m * p) + r, y = (m * q) + s, x <= y, y - x < m
    PROVE  \/ q = p /\ s - r = y - x
           \/ q = p + 1 /\ s - r = (y - x) - m
<1> DEFINE d == q - p
<1>1. d \in Int /\ m * d \in Int /\ m * d = (m * q) - (m * p)
  OBVIOUS
<1>2. (d >= 2 => m * d >= 2 * m) /\ (d <= -1 => m * d <= -m) /\ m * 1 = m /\ m * 0 = 0
  BY <1>1, MoreLaps
<1>3. m * p \in Int /\ m * q \in Int
  OBVIOUS
<1>4. y - x = (m * d) + (s - r)
  <2> HIDE DEF d
  <2> QED BY <1>1, <1>3
<1>5. d = 0 \/ d = 1
  <2> HIDE DEF d
  <2> QED BY <1>1, <1>2, <1>4
<1>6. CASE d = 0
  BY <1>1, <1>2, <1>4, <1>6
<1>7. CASE d = 1
  BY <1>1, <1>2, <1>4, <1>7
<1> QED BY <1>5, <1>6, <1>7

(* What the code computes from a stamp: the time passed, or, when the      *)
(* reading has started again once, far more than any limit.                *)
LEMMA ElapsedFact ==
    ASSUME now \in Nat, NEW timed \in Timed, Stamped(timed), now - timed.begin < LAP
    PROVE  \/ now \div LAP = timed.begin \div LAP /\ Elapsed(timed.stamp) = now - timed.begin
           \/ /\ now \div LAP = (timed.begin \div LAP) + 1
              /\ Elapsed(timed.stamp) >= SESSION_DURATION_MS + QUEUE_READY_TIMEOUT_MS
<1>1. /\ LAP \in Nat \ {0} /\ WORD \in Nat \ {0} /\ timed.begin \in Nat
      /\ SESSION_DURATION_MS \in Nat /\ QUEUE_READY_TIMEOUT_MS \in Nat
      /\ LAP + SESSION_DURATION_MS + QUEUE_READY_TIMEOUT_MS <= WORD
  BY ClockAssumption DEF Timed
<1>2. PICK p, q, r, s :
        /\ p = timed.begin \div LAP /\ q = now \div LAP
        /\ r = timed.begin % LAP /\ s = now % LAP
  OBVIOUS
<1>3. /\ p \in Nat /\ q \in Nat /\ r \in 0 .. LAP - 1 /\ s \in 0 .. LAP - 1
      /\ timed.begin = (LAP * p) + r /\ now = (LAP * q) + s
  BY <1>1, <1>2, DivMod
<1>4. PICK b : b = timed.begin
  OBVIOUS
<1>5. /\ b \in Nat /\ b <= now /\ now - b < LAP
      /\ Elapsed(timed.stamp) = (s - r) % WORD
  BY <1>1, <1>2, <1>4 DEF Stamped, Elapsed, Reading
<1>6. \/ q = p /\ s - r = now - b
      \/ q = p + 1 /\ s - r = (now - b) - LAP
  BY <1>1, <1>3, <1>4, <1>5, SameOrNextLap
<1>7. s - r \in Int /\ now - b \in Int
  BY <1>1, <1>3, <1>5
<1>8. CASE q = p /\ s - r = now - b
  <2>1. s - r \in 0 .. WORD - 1
    BY <1>1, <1>5, <1>7, <1>8
  <2>2. (s - r) % WORD = s - r
    BY <1>1, <1>7, <2>1, SmallMod
  <2> QED BY <1>2, <1>4, <1>5, <1>8, <2>2
<1>9. CASE q = p + 1 /\ s - r = (now - b) - LAP
  <2>1. s - r \in -WORD .. -1
    BY <1>1, <1>5, <1>7, <1>9
  <2>2. (s - r) % WORD = (s - r) + WORD
    BY <1>1, <1>7, <2>1, SmallMod
  <2>3. (s - r) + WORD >= SESSION_DURATION_MS + QUEUE_READY_TIMEOUT_MS
    BY <1>1, <1>5, <1>7, <1>9
  <2> QED BY <1>2, <1>5, <1>9, <2>2, <2>3
<1> QED BY <1>6, <1>8, <1>9

(* What a check reads as elapsed is a number within the lap.               *)
LEMMA ElapsedInt ==
    ASSUME now \in Nat, NEW timed \in Timed
    PROVE  Elapsed(timed.stamp) \in Int
<1>1. LAP \in Nat \ {0} /\ WORD \in Nat \ {0} /\ timed.stamp \in Nat
  BY ClockAssumption DEF Timed
<1>2. now % LAP \in Int
  BY <1>1
<1> QED BY <1>1, <1>2 DEF Elapsed, Reading

(* Within a lap, what is not found over is not over.                       *)
LEMMA FoundOver ==
    ASSUME now \in Nat, NEW timed \in Timed, Stamped(timed), now - timed.begin < LAP,
           NEW limit \in {SESSION_DURATION_MS, QUEUE_READY_TIMEOUT_MS},
           ~Over(timed, limit)
    PROVE  now - timed.begin < limit
<1>1. Elapsed(timed.stamp) >= SESSION_DURATION_MS + QUEUE_READY_TIMEOUT_MS
      \/ Elapsed(timed.stamp) = now - timed.begin
  BY ElapsedFact
<1>2. SESSION_DURATION_MS \in Nat /\ QUEUE_READY_TIMEOUT_MS \in Nat
  BY ClockAssumption
<1>3. PICK e, d : e = Elapsed(timed.stamp) /\ d = now - timed.begin
  OBVIOUS
<1>4. d \in Int /\ ~(e >= limit)
  BY <1>3 DEF Over, Timed
<1>5. CASE e = d
  BY <1>2, <1>3, <1>4, <1>5
<1>6. CASE e >= SESSION_DURATION_MS + QUEUE_READY_TIMEOUT_MS
  <2>1. e \in Int
    BY <1>3, ElapsedInt
  <2> QED BY <1>2, <1>4, <1>6, <2>1
<1> QED BY <1>1, <1>3, <1>5, <1>6

(* What is found over too early has the start of a lap in its time.        *)
LEMMA EarlyByLap ==
    ASSUME now \in Nat, NEW timed \in Timed, Stamped(timed),
           NEW limit \in {SESSION_DURATION_MS, QUEUE_READY_TIMEOUT_MS}, limit <= LAP,
           Over(timed, limit), now - timed.begin < limit
    PROVE  \E t \in timed.begin .. now - 1 : Reading(t + 1) = 0
<1> DEFINE b == timed.begin
           first == b \div LAP
           last == now \div LAP
<1>1. /\ LAP \in Nat \ {0} /\ b \in Nat /\ limit \in Nat /\ now - b < LAP
  BY ClockAssumption DEF Timed
<1>2. /\ first \in Nat /\ last \in Nat
      /\ b % LAP \in 0 .. LAP - 1 /\ now % LAP \in 0 .. LAP - 1
      /\ b = (LAP * first) + (b % LAP) /\ now = (LAP * last) + (now % LAP)
  BY <1>1, DivMod
<1>3. Elapsed(timed.stamp) # now - timed.begin
  BY <1>1 DEF Over
<1>4. last = first + 1
  BY <1>1, <1>3, ElapsedFact
<1> HIDE DEF b, first, last
<1>5. LAP * last = (LAP * first) + LAP /\ LAP * last \in Int /\ LAP * first \in Int
  BY <1>1, <1>2, <1>4
<1> DEFINE t == (LAP * last) - 1
<1>6. t \in b .. now - 1 /\ t + 1 = LAP * last
  BY <1>1, <1>2, <1>5
<1>7. (LAP * last) % LAP = 0
  BY <1>1, <1>2, MultipleFact
<1>8. Reading(t + 1) = 0
  BY <1>6, <1>7 DEF Reading
<1> QED BY <1>6, <1>8 DEF b

-----------------------------------------------------------------------------
(* The invariant *)

(* What each place has in reserve. *)
LEMMA SlackFact ==
    ASSUME NEW i \in 1 .. MAX_BOOTH_CAPACITY
    PROVE  /\ Slack(i) \in Nat
           /\ Slack(i + 1) + CHECK_GAP = Slack(i)
           /\ Slack(i) + CHECK_GAP <= CHECK_GAP * MAX_BOOTH_CAPACITY
<1> DEFINE c == MAX_BOOTH_CAPACITY
           g == CHECK_GAP
<1>1. c \in Nat /\ g \in Nat
  BY ClockAssumption
<1>2. g * (c - i) \in Nat
  <2>1. c - i \in Nat
    BY <1>1
  <2> QED BY <1>1, <2>1
<1>3. g * (c - (i + 1)) + g = g * (c - i)
  <2> HIDE DEF g, c
  <2> QED BY <1>1
<1>4. g * (c - i) + g <= g * c
  <2> HIDE DEF g, c
  <2>1. g * (i - 1) >= 0 /\ g * (c - i) + g = (g * c) - (g * (i - 1)) /\ g * c \in Int
    BY <1>1
  <2>2. g * (i - 1) \in Int
    BY <1>1
  <2> QED BY <1>1, <2>1, <2>2
<1> QED BY <1>2, <1>3, <1>4 DEF Slack

(* The sessions of the booth, place by place. *)
LEMMA SessionTyped ==
    ASSUME TypeOK, NEW i \in 1 .. Len(active)
    PROVE  /\ i \in 1 .. MAX_BOOTH_CAPACITY
           /\ active[i] \in Timed
           /\ active[i].begin \in Nat
<1>1. Len(active) \in Nat /\ MAX_BOOTH_CAPACITY \in Nat /\ Len(active) <= MAX_BOOTH_CAPACITY
  BY LenProperties, ClockAssumption DEF TypeOK
<1>2. active[i] \in Timed
  BY ElementOfSeq DEF TypeOK
<1> QED BY <1>1, <1>2 DEF Timed

(* The clock starts with nobody inside and nobody called.                  *)
LEMMA InitIInv == Init => IInv
<1> SUFFICES ASSUME Init PROVE IInv
  OBVIOUS
<1>1. /\ now = 0 /\ unchecked = 0 /\ active = <<>> /\ call = NoCall /\ ended = {}
  BY DEF Init
<1>2. 0 \in 0 .. CHECK_GAP /\ 0 <= MAX_BOOTH_CAPACITY
  BY ClockAssumption
<1>3. Len(active) = 0 /\ active \in Seq(Timed)
  BY <1>1
<1>4. TypeOK
  BY <1>1, <1>2, <1>3 DEF TypeOK
<1> QED BY <1>1, <1>3, <1>4 DEF IInv, Sessions, Calls, NotEarlyInLap

(* Time goes on for everybody alike. *)
LEMMA TickKeeps ==
    ASSUME IInv, Tick
    PROVE  IInv'
<1>1. /\ now' = now + 1 /\ unchecked' = unchecked + 1 /\ unchecked < CHECK_GAP
      /\ active' = active /\ call' = call /\ ended' = ended
  BY DEF Tick
<1>2. now \in Nat /\ unchecked \in Nat /\ CHECK_GAP \in Nat
  BY ClockAssumption DEF IInv, TypeOK
<1>3. TypeOK'
  BY <1>1, <1>2 DEF IInv, TypeOK
<1>4. Sessions'
  <2> SUFFICES ASSUME NEW i \in 1 .. Len(active)
               PROVE  Stamped(active[i])' /\ SoonOver(active[i], i)'
    BY <1>1 DEF Sessions
  <2>1. i \in 1 .. MAX_BOOTH_CAPACITY /\ active[i].begin \in Nat
    BY SessionTyped DEF IInv
  <2>2. Slack(i) \in Nat /\ SESSION_DURATION_MS \in Nat
    BY <2>1, SlackFact, ClockAssumption
  <2>3. Stamped(active[i]) /\ SoonOver(active[i], i)
    BY DEF IInv, Sessions
  <2>4. active[i].stamp' = active[i].stamp /\ active[i].begin' = active[i].begin
    BY <1>1
  <2> QED BY <1>1, <1>2, <2>1, <2>2, <2>3 DEF Stamped, SoonOver, Reading, Slack
<1>5. Calls'
  <2> SUFFICES ASSUME call # NoCall
               PROVE  Stamped(call)' /\ CallSoonOver'
    BY <1>1 DEF Calls
  <2>1. call.begin \in Nat /\ Stamped(call) /\ CallSoonOver /\ QUEUE_READY_TIMEOUT_MS \in Nat
    BY ClockAssumption DEF IInv, TypeOK, Calls, Timed
  <2> QED BY <1>1, <1>2, <2>1 DEF Stamped, CallSoonOver, Reading
<1>6. NotEarlyInLap'
  <2> SUFFICES ASSUME NEW e \in ended, e.early
               PROVE  \E t \in e.begin .. now' - 1 : Reading(t + 1)' = 0
    BY <1>1 DEF NotEarlyInLap
  <2>1. e.begin \in Nat
    BY DEF IInv, TypeOK
  <2>2. PICK t \in e.begin .. now - 1 : Reading(t + 1) = 0
    BY DEF IInv, NotEarlyInLap
  <2>3. t \in e.begin .. now' - 1
    BY <1>1, <1>2, <2>1
  <2> QED BY <2>2, <2>3 DEF Reading
<1> QED BY <1>3, <1>4, <1>5, <1>6 DEF IInv

(* A stamp of now. *)
LEMMA StampFact ==
    ASSUME TypeOK
    PROVE  Stamp \in Timed /\ Stamped(Stamp) /\ Stamp.begin = now
<1>1. now % LAP \in Nat /\ now \in Nat
  BY ClockAssumption DEF TypeOK
<1> QED BY <1>1 DEF Stamp, Timed, Stamped, Reading

(* An admission stamps the new session with the time.                      *)
LEMMA EnterKeeps ==
    ASSUME IInv, Enter
    PROVE  IInv'
<1>1. /\ Len(active) < MAX_BOOTH_CAPACITY
      /\ active' = Append(active, Stamp)
      /\ now' = now /\ unchecked' = unchecked /\ call' = call /\ ended' = ended
  BY DEF Enter
<1>2. /\ active' \in Seq(Timed) /\ Len(active) \in Nat /\ Len(active') = Len(active) + 1
      /\ \A i \in 1 .. Len(active) : active'[i] = active[i]
      /\ active'[Len(active) + 1] = Stamp
  BY <1>1, StampFact, LenProperties, AppendProperties DEF IInv, TypeOK
<1>3. TypeOK'
  BY <1>1, <1>2, ClockAssumption DEF IInv, TypeOK
<1>4. Sessions'
  <2> SUFFICES ASSUME NEW i \in 1 .. Len(active')
               PROVE  Stamped(active[i])' /\ SoonOver(active[i], i)'
    BY DEF Sessions
  <2>1. CASE i \in 1 .. Len(active)
    BY <1>1, <1>2, <2>1 DEF IInv, Sessions, Stamped, SoonOver, Reading, Slack
  <2>2. CASE i = Len(active) + 1
    <3>1. i \in 1 .. MAX_BOOTH_CAPACITY
      BY <1>1, <1>2, <2>2, ClockAssumption
    <3>2. /\ now - now = 0 /\ unchecked \in Nat /\ Slack(i) \in Nat
          /\ SESSION_DURATION_MS \in Nat \ {0}
      BY <3>1, SlackFact, ClockAssumption DEF IInv, TypeOK
    <3>3. Stamped(Stamp) /\ SoonOver(Stamp, i)
      BY <3>2, StampFact DEF IInv, SoonOver
    <3> QED BY <1>1, <1>2, <2>2, <3>3 DEF Stamped, SoonOver, Reading, Slack
  <2> QED BY <1>2, <2>1, <2>2
<1> QED BY <1>1, <1>3, <1>4 DEF IInv, Calls, NotEarlyInLap, Stamped, CallSoonOver, Reading

(* Who stood behind the one who leaves has more in reserve than before.    *)
LEMMA LeaveKeeps ==
    ASSUME IInv, NEW j \in DOMAIN active, Leave(j)
    PROVE  IInv'
<1>1. /\ active' = RemoveAt(active, j)
      /\ now' = now /\ unchecked' = unchecked /\ call' = call /\ ended' = ended
  BY DEF Leave, Without
<1>2. DOMAIN active = 1 .. Len(active) /\ Len(active) \in Nat /\ MAX_BOOTH_CAPACITY \in Nat
  BY LenProperties, ClockAssumption DEF IInv, TypeOK
<1>3. /\ active' \in Seq(Timed) /\ Len(active') = Len(active) - 1
      /\ \A k \in 1 .. Len(active) - 1 :
           active'[k] = IF k < j THEN active[k] ELSE active[k + 1]
  BY <1>1, <1>2, RemoveAtFact DEF IInv, TypeOK
<1>4. TypeOK'
  BY <1>1, <1>2, <1>3 DEF IInv, TypeOK
<1>5. Sessions'
  <2> SUFFICES ASSUME NEW k \in 1 .. Len(active')
               PROVE  Stamped(active[k])' /\ SoonOver(active[k], k)'
    BY DEF Sessions
  <2>1. CASE k < j
    BY <1>1, <1>2, <1>3, <2>1 DEF IInv, Sessions, Stamped, SoonOver, Reading, Slack
  <2>2. CASE ~(k < j)
    <3>1. k + 1 \in 1 .. Len(active) /\ active'[k] = active[k + 1] /\ k \in Nat
      BY <1>2, <1>3, <2>2
    <3>2. k \in 1 .. MAX_BOOTH_CAPACITY /\ active[k + 1].begin \in Nat /\ k + 1 \in 1 .. MAX_BOOTH_CAPACITY
      BY <1>2, <3>1, SessionTyped DEF IInv
    <3>3. Slack(k + 1) + CHECK_GAP = Slack(k) /\ Slack(k + 1) \in Nat
      BY <3>2, SlackFact
    <3>4. /\ now \in Nat /\ unchecked \in Nat /\ CHECK_GAP \in Nat
          /\ SESSION_DURATION_MS \in Nat
      BY ClockAssumption DEF IInv, TypeOK
    <3>5. Stamped(active[k + 1]) /\ SoonOver(active[k + 1], k + 1)
      BY <3>1 DEF IInv, Sessions
    <3>6. SoonOver(active[k + 1], k)
      BY <3>2, <3>3, <3>4, <3>5 DEF SoonOver
    <3> QED BY <1>1, <3>1, <3>5, <3>6 DEF Stamped, SoonOver, Reading, Slack
  <2> QED BY <2>1, <2>2
<1> QED BY <1>1, <1>4, <1>5 DEF IInv, Calls, NotEarlyInLap, Stamped, CallSoonOver, Reading

(* A call is stamped with the time.                                        *)
LEMMA CallKeeps ==
    ASSUME IInv, Call
    PROVE  IInv'
<1>1. /\ call' = Stamp
      /\ now' = now /\ unchecked' = unchecked /\ active' = active /\ ended' = ended
  BY DEF Call
<1>2. TypeOK'
  BY <1>1, StampFact DEF IInv, TypeOK
<1>3. Stamped(Stamp) /\ Stamp.begin = now
  BY StampFact DEF IInv
<1>4. Stamped(call)' /\ CallSoonOver'
  <2>1. Stamped(call)'
    BY <1>1, <1>3 DEF Stamped, Reading
  <2>2. /\ call'.begin = now /\ now - now = 0 /\ unchecked \in Nat
        /\ QUEUE_READY_TIMEOUT_MS \in Nat \ {0}
    BY <1>1, <1>3, ClockAssumption DEF IInv, TypeOK
  <2> QED BY <1>1, <2>1, <2>2 DEF CallSoonOver
<1> QED BY <1>1, <1>2, <1>4
        DEF IInv, Calls, Sessions, NotEarlyInLap, Stamped, SoonOver, Reading, Slack

(* An answer takes the call back and leaves the sessions.                  *)
LEMMA AnswerKeeps ==
    ASSUME IInv, Answer
    PROVE  IInv'
<1>1. /\ call' = NoCall
      /\ now' = now /\ unchecked' = unchecked /\ active' = active /\ ended' = ended
  BY DEF Answer
<1> QED BY <1>1 DEF IInv, TypeOK, Calls, Sessions, NotEarlyInLap, Stamped, SoonOver, Reading, Slack

(* Nothing has waited for a whole lap. *)
LEMMA WithinLap ==
    ASSUME IInv
    PROVE  /\ \A i \in 1 .. Len(active) : now - active[i].begin < LAP
           /\ call # NoCall => now - call.begin < LAP
<1>1. /\ now \in Nat /\ unchecked \in 0 .. CHECK_GAP /\ CHECK_GAP \in Nat /\ LAP \in Nat
      /\ SESSION_DURATION_MS \in Nat /\ QUEUE_READY_TIMEOUT_MS \in Nat
      /\ MAX_BOOTH_CAPACITY \in Nat
  BY ClockAssumption DEF IInv, TypeOK
<1>2. ASSUME NEW i \in 1 .. Len(active)
      PROVE  now - active[i].begin < LAP
  <2>1. i \in 1 .. MAX_BOOTH_CAPACITY /\ active[i].begin \in Nat
    BY SessionTyped DEF IInv
  <2>2. /\ Slack(i) \in Nat /\ Slack(i) + CHECK_GAP <= CHECK_GAP * MAX_BOOTH_CAPACITY
        /\ CHECK_GAP * MAX_BOOTH_CAPACITY \in Nat
    BY <1>1, <2>1, SlackFact
  <2>3. SoonOver(active[i], i)
    BY DEF IInv, Sessions
  <2> QED BY <1>1, <2>1, <2>2, <2>3, WaitAssumption DEF SoonOver
<1>3. ASSUME call # NoCall
      PROVE  now - call.begin < LAP
  <2>1. call.begin \in Nat /\ CallSoonOver
    BY <1>3 DEF IInv, TypeOK, Calls, Timed
  <2> QED BY <1>1, <2>1, WaitAssumption DEF CallSoonOver
<1> QED BY <1>2, <1>3

(* What a check leaves: who was over has moved up, the others have time.   *)
LEMMA CheckedSession ==
    ASSUME IInv, Check, NEW k \in 1 .. Len(active'),
           NEW i \in 1 .. Len(active), active'[k] = active[i],
           k \in 1 .. MAX_BOOTH_CAPACITY,
           (i = k /\ i \notin Overdue) \/ i = k + 1
    PROVE  Stamped(active[k])' /\ SoonOver(active[k], k)'
<1>1. now' = now /\ unchecked' = 0
  BY DEF Check
<1>2. /\ now \in Nat /\ unchecked \in 0 .. CHECK_GAP /\ CHECK_GAP \in Nat
      /\ SESSION_DURATION_MS \in Nat
  BY ClockAssumption DEF IInv, TypeOK
<1>3. /\ i \in 1 .. MAX_BOOTH_CAPACITY /\ active[i] \in Timed /\ active[i].begin \in Nat
      /\ Stamped(active[i]) /\ SoonOver(active[i], i)
  BY SessionTyped DEF IInv, Sessions
<1>4. Slack(k) \in Nat /\ (i = k + 1 => Slack(i) + CHECK_GAP = Slack(k) /\ Slack(i) \in Nat)
  BY <1>3, SlackFact
<1>5. now - active[i].begin < SESSION_DURATION_MS + Slack(k)
  <2>1. CASE i \notin Overdue
    <3>1. ~Over(active[i], SESSION_DURATION_MS)
      <4>1. i \in DOMAIN active
        BY LenProperties DEF IInv, TypeOK
      <4> QED BY <2>1, <4>1 DEF Overdue
    <3>2. now - active[i].begin < SESSION_DURATION_MS
      BY <1>2, <1>3, <3>1, FoundOver, WithinLap
    <3> QED BY <1>2, <1>3, <1>4, <3>2
  <2>2. CASE i = k + 1
    <3>1. now - active[i].begin < SESSION_DURATION_MS + unchecked + Slack(i)
      BY <1>3 DEF SoonOver
    <3>2. now - active[i].begin \in Int
      BY <1>2, <1>3
    <3> QED BY <1>2, <1>4, <2>2, <3>1, <3>2
  <2> QED BY <2>1, <2>2
<1>6. Stamped(active[k])'
  BY <1>1, <1>3 DEF Stamped, Reading
<1>7. SoonOver(active[k], k)'
  BY <1>1, <1>2, <1>4, <1>5 DEF SoonOver, Slack
<1> QED BY <1>6, <1>7

(* A check ends the first overdue session; the others are due no later.    *)
LEMMA CheckKeepsSessions ==
    ASSUME IInv, Check
    PROVE  /\ active' \in Seq(Timed) /\ Len(active') <= MAX_BOOTH_CAPACITY
           /\ Sessions'
<1>1. /\ DOMAIN active = 1 .. Len(active) /\ Len(active) \in Nat
      /\ MAX_BOOTH_CAPACITY \in Nat /\ Len(active) <= MAX_BOOTH_CAPACITY
      /\ active \in Seq(Timed)
  BY LenProperties, ClockAssumption DEF IInv, TypeOK
<1>2. CASE Overdue = {}
  <2>1. active' = active
    BY <1>2 DEF Check
  <2>2. \A k \in 1 .. Len(active) : k \in 1 .. MAX_BOOTH_CAPACITY
    BY <1>1
  <2>3. \A k \in 1 .. Len(active') : Stamped(active[k])' /\ SoonOver(active[k], k)'
    BY <1>2, <2>1, <2>2, CheckedSession
  <2> QED BY <1>1, <2>1, <2>3 DEF Sessions
<1>3. CASE Overdue # {}
  <2>1. PICK first \in Overdue : \A x \in Overdue : first <= x /\ first = Min(Overdue)
    <3>1. Overdue \in SUBSET Nat
      BY <1>1 DEF Overdue
    <3> QED BY <1>3, <3>1, MinFact
  <2>2. active' = RemoveAt(active, first)
    BY <1>3, <2>1 DEF Check, Without
  <2>3. first \in 1 .. Len(active)
    BY <1>1, <2>1 DEF Overdue
  <2>4. /\ active' \in Seq(Timed) /\ Len(active') = Len(active) - 1
        /\ \A k \in 1 .. Len(active) - 1 :
             active'[k] = IF k < first THEN active[k] ELSE active[k + 1]
    BY <1>1, <2>2, <2>3, RemoveAtFact
  <2>5. ASSUME NEW k \in 1 .. Len(active')
        PROVE  Stamped(active[k])' /\ SoonOver(active[k], k)'
    <3>1. k \in 1 .. MAX_BOOTH_CAPACITY /\ k \in 1 .. Len(active) /\ k + 1 \in 1 .. Len(active)
      BY <1>1, <2>4
    <3>2. CASE k < first
      <4>1. k \notin Overdue
        BY <2>1, <2>3, <3>1, <3>2
      <4> QED BY <2>4, <3>1, <3>2, <4>1, CheckedSession
    <3>3. CASE ~(k < first)
      BY <2>4, <3>1, <3>3, CheckedSession
    <3> QED BY <3>2, <3>3
  <2> QED BY <1>1, <2>4, <2>5 DEF Sessions
<1> QED BY <1>2, <1>3

(* Each end that a check records is over, as the clock has it.             *)
LEMMA EndFact ==
    ASSUME TypeOK, NEW timed \in Timed, Stamped(timed),
           NEW limit \in {SESSION_DURATION_MS, QUEUE_READY_TIMEOUT_MS},
           Over(timed, limit)
    PROVE  /\ EndOf(timed, limit) \in [begin : Nat, early : BOOLEAN]
           /\ EndOf(timed, limit).early =>
                \E t \in EndOf(timed, limit).begin .. now - 1 : Reading(t + 1) = 0
<1>1. limit <= LAP
  <2>1. CHECK_GAP * MAX_BOOTH_CAPACITY \in Nat /\ CHECK_GAP \in Nat /\ LAP \in Nat
        /\ SESSION_DURATION_MS \in Nat /\ QUEUE_READY_TIMEOUT_MS \in Nat
    BY ClockAssumption
  <2> QED BY <2>1, WaitAssumption
<1>2. timed.begin \in Nat
  BY DEF Timed
<1>3. /\ EndOf(timed, limit).begin = timed.begin
      /\ EndOf(timed, limit).early = (now - timed.begin < limit)
  BY DEF EndOf
<1>4. EndOf(timed, limit) \in [begin : Nat, early : BOOLEAN]
  BY <1>2 DEF EndOf
<1>5. now \in Nat
  BY DEF TypeOK
<1> QED BY <1>1, <1>3, <1>4, <1>5, EarlyByLap

(* A check, with or without an expiry, keeps the invariant.                *)
LEMMA CheckKeeps ==
    ASSUME IInv, Check
    PROVE  IInv'
<1>1. now' = now /\ unchecked' = 0
  BY DEF Check
<1>2. call' \in {call, NoCall}
      /\ (call' # NoCall => ~Over(call, QUEUE_READY_TIMEOUT_MS))
  BY DEF Check
<1>3. Calls'
  <2> SUFFICES ASSUME call' # NoCall
               PROVE  Stamped(call)' /\ CallSoonOver'
    BY DEF Calls
  <2>1. /\ call' = call /\ call # NoCall /\ call \in Timed /\ now \in Nat
        /\ Stamped(call) /\ ~Over(call, QUEUE_READY_TIMEOUT_MS)
    BY <1>2 DEF IInv, TypeOK, Calls
  <2>2. now - call.begin < QUEUE_READY_TIMEOUT_MS
    BY <2>1, FoundOver, WithinLap
  <2>3. QUEUE_READY_TIMEOUT_MS \in Nat
    BY ClockAssumption
  <2> QED BY <1>1, <2>1, <2>2, <2>3 DEF Stamped, CallSoonOver, Reading
<1>4. \A e \in ended' :
        /\ e \in [begin : Nat, early : BOOLEAN]
        /\ e.early => \E t \in e.begin .. now - 1 : Reading(t + 1) = 0
  <2> SUFFICES ASSUME NEW e \in ended'
               PROVE  /\ e \in [begin : Nat, early : BOOLEAN]
                      /\ e.early => \E t \in e.begin .. now - 1 : Reading(t + 1) = 0
    OBVIOUS
  <2>1. \/ Overdue # {} /\ e = EndOf(active[Min(Overdue)], SESSION_DURATION_MS)
        \/ /\ call # NoCall /\ Over(call, QUEUE_READY_TIMEOUT_MS)
           /\ e = EndOf(call, QUEUE_READY_TIMEOUT_MS)
    BY DEF Check
  <2>2. CASE Overdue # {} /\ e = EndOf(active[Min(Overdue)], SESSION_DURATION_MS)
    <3>1. DOMAIN active = 1 .. Len(active) /\ Len(active) \in Nat
      BY LenProperties DEF IInv, TypeOK
    <3>2. Overdue \in SUBSET Nat
      BY <3>1 DEF Overdue
    <3>3. PICK i \in Overdue : i = Min(Overdue)
      BY <2>2, <3>2, MinFact
    <3>4. i \in 1 .. Len(active) /\ Over(active[i], SESSION_DURATION_MS)
      BY <3>1, <3>3 DEF Overdue
    <3>5. active[i] \in Timed /\ Stamped(active[i])
      BY <3>4, SessionTyped DEF IInv, Sessions
    <3> QED BY <2>2, <3>3, <3>4, <3>5, EndFact DEF IInv
  <2>3. CASE /\ call # NoCall /\ Over(call, QUEUE_READY_TIMEOUT_MS)
             /\ e = EndOf(call, QUEUE_READY_TIMEOUT_MS)
    <3>1. call \in Timed /\ Stamped(call)
      BY <2>3 DEF IInv, TypeOK, Calls
    <3> QED BY <2>3, <3>1, EndFact DEF IInv
  <2> QED BY <2>1, <2>2, <2>3
<1>5. NotEarlyInLap'
  BY <1>1, <1>4 DEF NotEarlyInLap, Reading
<1>6. TypeOK'
  <2>1. 0 \in 0 .. CHECK_GAP
    BY ClockAssumption
  <2>2. ended' \in SUBSET [begin : Nat, early : BOOLEAN]
    BY <1>4
  <2> QED BY <1>1, <1>2, <2>1, <2>2, CheckKeepsSessions DEF IInv, TypeOK
<1> QED BY <1>3, <1>5, <1>6, CheckKeepsSessions DEF IInv

-----------------------------------------------------------------------------

(* Every step keeps the invariant. *)
LEMMA NextIInv == IInv /\ [Next]_vars => IInv'
<1> SUFFICES ASSUME IInv, [Next]_vars
             PROVE  IInv'
  OBVIOUS
<1>1. CASE Tick
  BY <1>1, TickKeeps
<1>2. CASE Enter
  BY <1>2, EnterKeeps
<1>3. CASE Call
  BY <1>3, CallKeeps
<1>4. CASE Answer
  BY <1>4, AnswerKeeps
<1>5. CASE Check
  BY <1>5, CheckKeeps
<1>6. ASSUME NEW i \in DOMAIN active, Leave(i)
      PROVE  IInv'
  BY <1>6, LeaveKeeps
<1>7. CASE UNCHANGED vars
  BY <1>7 DEF vars, IInv, TypeOK, Sessions, Calls, NotEarlyInLap, Stamped, SoonOver,
              CallSoonOver, Slack, Reading
<1> QED BY <1>1, <1>2, <1>3, <1>4, <1>5, <1>6, <1>7 DEF Next

(* The invariant of the clock holds however long the boards run and        *)
(* whatever users enter, leave and are called.                             *)
THEOREM InductiveInvariant == Spec => []IInv
<1> QED BY InitIInv, NextIInv, PTL DEF Spec

(* What the invariant bounds is the delay the run checks.                  *)
LEMMA IInvNotLate == IInv => NotLate
<1> SUFFICES ASSUME IInv
             PROVE  NotLate
  OBVIOUS
<1>1. /\ now \in Nat /\ unchecked \in 0 .. CHECK_GAP /\ CHECK_GAP \in Nat
      /\ SESSION_DURATION_MS \in Nat /\ QUEUE_READY_TIMEOUT_MS \in Nat
      /\ MAX_BOOTH_CAPACITY \in Nat
  BY ClockAssumption DEF IInv, TypeOK
<1>2. ASSUME NEW i \in DOMAIN active
      PROVE  now - active[i].begin < SESSION_DURATION_MS + CHECK_GAP * MAX_BOOTH_CAPACITY
  <2>1. i \in 1 .. Len(active)
    BY LenProperties DEF IInv, TypeOK
  <2>2. i \in 1 .. MAX_BOOTH_CAPACITY /\ active[i].begin \in Nat
    BY <2>1, SessionTyped DEF IInv
  <2>3. /\ Slack(i) \in Nat /\ Slack(i) + CHECK_GAP <= CHECK_GAP * MAX_BOOTH_CAPACITY
        /\ CHECK_GAP * MAX_BOOTH_CAPACITY \in Nat
    BY <1>1, <2>2, SlackFact
  <2>4. SoonOver(active[i], i)
    BY <2>1 DEF IInv, Sessions
  <2> QED BY <1>1, <2>2, <2>3, <2>4 DEF SoonOver
<1>3. call # NoCall => now - call.begin < QUEUE_READY_TIMEOUT_MS + CHECK_GAP
  <2>1. call # NoCall => call.begin \in Nat /\ CallSoonOver
    BY DEF IInv, TypeOK, Calls, Timed
  <2> QED BY <1>1, <2>1 DEF CallSoonOver
<1> QED BY <1>2, <1>3 DEF NotLate

(* A session outlasts its time by at most one check for each place, a call *)
(* by at most one, although each check ends one session only.              *)
THEOREM EndsInTime == Spec => []NotLate
<1> QED BY InductiveInvariant, IInvNotLate, PTL

(* Nothing is ended early unless the reading started again in its time.    *)
THEOREM EarlyOnlyByLap == Spec => []NotEarlyInLap
<1>1. IInv => NotEarlyInLap
  BY DEF IInv
<1> QED BY <1>1, InductiveInvariant, PTL

=============================================================================
