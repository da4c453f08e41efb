--------------------------- MODULE RequestsProofs ---------------------------
(***************************************************************************)
(* Proofs about Requests: a file that is served is whole, what a current   *)
(* or a sample is answered with was asked for and in range, and a put does *)
(* exactly what its parameters say.                                        *)
(***************************************************************************)
EXTENDS Requests, BasicFacts

(* The larger and the smaller of two numbers.                              *)
LEMMA MaxOfTwo ==
  ASSUME NEW a \in Int, NEW b \in Int
  PROVE  Max({a, b}) = IF a >= b THEN a ELSE b
<1>1. \E x \in {a, b} : \A y \in {a, b} : x >= y
  OBVIOUS
<1>2. Max({a, b}) \in {a, b} /\ \A y \in {a, b} : Max({a, b}) >= y
  BY <1>1 DEF Max
<1> QED
  BY <1>2

(* The smaller of two numbers.                                             *)
LEMMA MinOfTwo ==
  ASSUME NEW a \in Int, NEW b \in Int
  PROVE  Min({a, b}) = IF a <= b THEN a ELSE b
<1>1. \E x \in {a, b} : \A y \in {a, b} : x =< y
  OBVIOUS
<1>2. Min({a, b}) \in {a, b} /\ \A y \in {a, b} : Min({a, b}) =< y
  BY <1>1 DEF Min
<1> QED
  BY <1>2

-----------------------------------------------------------------------------
(* The parameters.                                                         *)

IsQuery(queries) ==
  \A k \in DOMAIN queries :
    queries[k].is \in {"empty", "int", "big", "word"} /\ queries[k].n \in Int

(* The parameter that was given, in its range, or the default.             *)
GivenInRange(n, queries, param, default, min, max) ==
  /\ n \in Int
  /\ param \notin DOMAIN queries => n = default
  /\ param \in DOMAIN queries => n = queries[param].n /\ min <= n /\ n <= max

IsValue(c) == c = Value(c.n)

(* A parameter with a minimum and a maximum is accepted only in its range. *)
LEMMA ParamInRange ==
  ASSUME NEW queries, IsQuery(queries), NEW param, NEW default \in Int,
         NEW min \in Int \ {NO_VALUE32}, NEW max \in Int \ {NO_VALUE32}, NEW positive,
         NEW c, c = checkAndGetParam(queries, param, default, min, TRUE, max, positive),
         c.is = "value"
  PROVE  IsValue(c) /\ GivenInRange(c.n, queries, param, default, min, max)
<1>1. \A code : Error(code).is = code
  BY DEF Error
<1>2. \A n : Value(n).is = "value" /\ Value(n).n = n
  BY DEF Value
<1>3. CASE param \notin DOMAIN queries
  <2>1. c = Value(default)
    BY <1>3 DEF checkAndGetParam
  <2>2. c.n = default /\ c = Value(c.n)
    BY <1>2, <2>1
  <2> QED
    BY <1>3, <2>2 DEF GivenInRange, IsValue
<1>4. CASE param \in DOMAIN queries
  <2>1. PICK v : v = queries[param]
    OBVIOUS
  <2>2. v.is \in {"empty", "int", "big", "word"} /\ v.n \in Int
    BY <1>4, <2>1 DEF IsQuery
  <2>3. PICK value : value = stringToInt(v, max + 1)
    OBVIOUS
  <2>4. c = IF v.is = "empty" THEN Error("QUERY_ERROR")
            ELSE IF v.is = "word" \/ (positive /\ v.n < 0) THEN Error("OUT_OF_RANGE")
            ELSE InRange(value, min, TRUE, max, NO_VALUE32)
    BY <1>4, <2>1, <2>3 DEF checkAndGetParam
  <2>5. c = InRange(value, min, TRUE, max, NO_VALUE32) /\ v.is \in {"int", "big"}
    BY <1>1, <2>2, <2>4
  <2>6. c = Value(value) /\ ~ (value < min) /\ ~ (value > max)
    BY <1>1, <2>5 DEF InRange
  <2>7. value \in Int
    BY <2>2, <2>3 DEF stringToInt
  <2>8. v.is # "big"
    <3>1. SUFFICES ASSUME v.is = "big"
                   PROVE  FALSE
      OBVIOUS
    <3>2. value = max + 1 /\ max \in Int
      BY <2>3, <3>1 DEF stringToInt
    <3> QED
      BY <2>6, <3>2
  <2>9. value = v.n
    BY <2>3, <2>8 DEF stringToInt
  <2>10. c.n = value /\ c = Value(c.n)
    BY <1>2, <2>6
  <2>11. value = queries[param].n /\ min <= value /\ value <= max
    BY <2>1, <2>6, <2>7, <2>9
  <2> QED
    BY <1>4, <2>7, <2>10, <2>11 DEF GivenInRange, IsValue
<1> QED
  BY <1>3, <1>4

(* The first error, if there is one.                                       *)
LEMMA CheckedAll ==
  ASSUME NEW params, NEW more, "error" \notin DOMAIN Checked(params, more)
  PROVE  Checked(params, more) = more /\ \A i \in DOMAIN params : params[i].is = "value"
BY DEF Checked

(* The heartbeat is always in its range.                                   *)
LEMMA HeartbeatInRange ==
  ASSUME NEW queries, IsQuery(queries), NEW beat, beat = heartbeat(queries), beat.is = "value"
  PROVE  beat.n \in MinHeartbeat .. MaxHeartbeat
<1>1. /\ MinHeartbeat \in Int \ {NO_VALUE32} /\ MaxHeartbeat \in Int \ {NO_VALUE32}
      /\ DefaultHeartbeat \in Int
      /\ MinHeartbeat <= DefaultHeartbeat /\ DefaultHeartbeat <= MaxHeartbeat
  BY SMT DEF MinHeartbeat, MaxHeartbeat, DefaultHeartbeat, NO_VALUE32
<1>2. GivenInRange(beat.n, queries, "heartbeat", DefaultHeartbeat, MinHeartbeat, MaxHeartbeat)
  BY <1>1, ParamInRange DEF heartbeat
<1> QED
  BY <1>1, <1>2 DEF GivenInRange

(* What a current asks for is in range.                                    *)
LEMMA CurrentInRange ==
  ASSUME NEW r, IsQuery(r.query), NEW first \in Nat \ {0}, NEW next \in Nat \ {0},
         NEW since \in Nat, since <= first, NEW until \in Nat, next <= until,
         NEW asked, asked = CurrentParams(r.query, first, next), "error" \notin DOMAIN asked
  PROVE  AskedInRange(r, since, asked, until)
<1> DEFINE freq == Either(r.query, "frequency", "interval")
           at == checkAndGetParam64(r.query, "at", NO_START, first, next - 1)
           beat == heartbeat(r.query)
           more == IF freq.n # NO_FREQ /\ at.n # NO_START THEN [error |-> "INVALID_REQUEST"]
                   ELSE [call |-> "current", freq |-> freq.n, start |-> at.n, count |-> 0,
                         heartbeat |-> beat.n]
<1>1. asked = Checked(<<freq, at, beat>>, more)
  BY DEF CurrentParams
<1> HIDE DEF freq, at, beat
<1>2. asked = more /\ freq.is = "value" /\ at.is = "value" /\ beat.is = "value"
  <2> HIDE DEF more
  <2>1. PICK params : params = <<freq, at, beat>>
    OBVIOUS
  <2>2. asked = more /\ \A i \in DOMAIN params : params[i].is = "value"
    BY <1>1, <2>1, CheckedAll
  <2>3. 1 \in DOMAIN params /\ 2 \in DOMAIN params /\ 3 \in DOMAIN params
    BY <2>1
  <2>4. params[1] = freq /\ params[2] = at /\ params[3] = beat
    BY <2>1
  <2> QED
    BY <2>2, <2>3, <2>4
<1>3. NO_START \in Int /\ first \in Int \ {NO_VALUE32} /\ next - 1 \in Int \ {NO_VALUE32}
  BY DEF NO_START, NO_VALUE32
<1>4. /\ at.n \in Int
      /\ "at" \notin DOMAIN r.query => at.n = NO_START
      /\ "at" \in DOMAIN r.query => at.n = r.query["at"].n /\ first <= at.n /\ at.n <= next - 1
  <2>1. at = checkAndGetParam(r.query, "at", NO_START, first, TRUE, next - 1, TRUE)
    BY DEF at, checkAndGetParam64
  <2>2. GivenInRange(at.n, r.query, "at", NO_START, first, next - 1)
    BY <1>2, <1>3, <2>1, ParamInRange
  <2> QED
    BY <2>2 DEF GivenInRange
<1>5. beat.n \in MinHeartbeat .. MaxHeartbeat
  BY <1>2, HeartbeatInRange DEF beat
<1>6. ~ (freq.n # NO_FREQ /\ at.n # NO_START)
  <2>1. SUFFICES ASSUME freq.n # NO_FREQ, at.n # NO_START
                 PROVE  FALSE
    OBVIOUS
  <2>2. asked = [error |-> "INVALID_REQUEST"]
    BY <1>2, <2>1
  <2> QED
    BY <2>2
<1>7. /\ asked.call = "current" /\ asked.freq = freq.n /\ asked.start = at.n
      /\ asked.heartbeat = beat.n
  BY <1>2, <1>6
<1>8. asked.start # NO_START => since <= asked.start /\ asked.start < until
  BY <1>4, <1>7
<1>9. asked.start # NO_START => asked.freq = NO_FREQ
  BY <1>6, <1>7
<1>10. "at" \in DOMAIN r.query => r.query["at"].n = asked.start
  BY <1>4, <1>7
<1>11. asked.start \in Int
  BY <1>4, <1>7
<1>12. asked.start # NO_START => asked.start <= until
  BY <1>8, <1>11
<1>13. asked.heartbeat \in MinHeartbeat .. MaxHeartbeat /\ asked.call # "sample"
  BY <1>5, <1>7
<1> HIDE DEF more
<1> QED
  BY <1>8, <1>9, <1>10, <1>12, <1>13 DEF AskedInRange

(* What a sample asks for is in range.                                     *)
LEMMA SampleInRange ==
  ASSUME NEW r, IsQuery(r.query), NEW first \in Nat \ {0}, NEW next \in Nat \ {0},
         NEW since \in Nat, since <= first, NEW until \in Nat, next <= until,
         NEW asked, asked = SampleParams(r.query, first, next), "error" \notin DOMAIN asked
  PROVE  AskedInRange(r, since, asked, until)
<1> DEFINE size == m_slidingBufferSize
           count == checkAndGetParam(r.query, "count", 100, -size, TRUE, size, FALSE)
           freq == Either(r.query, "interval", "frequency")
           From(p) == checkAndGetParam64(r.query, p, NO_START, first, next)
           start == IF From("from") = Value(NO_START) THEN From("start") ELSE From("from")
           beat == heartbeat(r.query)
           zero == IF count = Value(0) THEN Error("OUT_OF_RANGE") ELSE count
           mixed == IF freq.is = "value" /\ freq.n # NO_FREQ /\ count.n < 0
                    THEN Error("OUT_OF_RANGE") ELSE freq
           more == [call |-> "sample", freq |-> freq.n, start |-> start.n, count |-> count.n,
                    heartbeat |-> beat.n]
<1>1. asked = Checked(<<zero, mixed, start, beat>>, more)
  BY DEF SampleParams
<1> HIDE DEF count, freq, start, beat, zero, mixed
<1>2. /\ asked = more
      /\ zero.is = "value" /\ mixed.is = "value" /\ start.is = "value" /\ beat.is = "value"
  <2> HIDE DEF more
  <2>1. PICK params : params = <<zero, mixed, start, beat>>
    OBVIOUS
  <2>2. asked = more /\ \A i \in DOMAIN params : params[i].is = "value"
    BY <1>1, <2>1, CheckedAll
  <2>3. 1 \in DOMAIN params /\ 2 \in DOMAIN params /\ 3 \in DOMAIN params /\ 4 \in DOMAIN params
    BY <2>1
  <2>4. params[1] = zero /\ params[2] = mixed /\ params[3] = start /\ params[4] = beat
    BY <2>1
  <2> QED
    BY <2>2, <2>3, <2>4
<1>3. /\ NO_START \in Int /\ first \in Int \ {NO_VALUE32} /\ next \in Int \ {NO_VALUE32}
      /\ size \in Nat /\ size \in Int \ {NO_VALUE32} /\ -size \in Int \ {NO_VALUE32}
  BY RequestsAssumption DEF NO_START, NO_VALUE32
<1>4. \A code : Error(code).is = code
  BY DEF Error
<1>5. ~ (count = Value(0)) /\ zero = count
  BY <1>2, <1>4 DEF zero
<1>6. ~ (count.n < 0 /\ freq.n # NO_FREQ)
  BY <1>2, <1>4 DEF mixed
<1>7. /\ count.n \in Int /\ count = Value(count.n)
      /\ "count" \notin DOMAIN r.query => count.n = 100
      /\ "count" \in DOMAIN r.query => count.n = r.query["count"].n /\ -size <= count.n /\ count.n <= size
  <2>1. PICK d, low, high : d = 100 /\ low = -size /\ high = size
    OBVIOUS
  <2>2. d \in Int /\ low \in Int \ {NO_VALUE32} /\ high \in Int \ {NO_VALUE32}
    BY <1>3, <2>1
  <2>3. count = checkAndGetParam(r.query, "count", d, low, TRUE, high, FALSE)
    BY <2>1 DEF count
  <2>4. count.is = "value"
    BY <1>2, <1>5
  <2>5. GivenInRange(count.n, r.query, "count", d, low, high)
    BY <2>2, <2>3, <2>4, ParamInRange
  <2>6. IsValue(count)
    BY <2>2, <2>3, <2>4, ParamInRange
  <2> QED
    BY <2>1, <2>5, <2>6 DEF GivenInRange, IsValue
<1>8. count.n # 0
  BY <1>5, <1>7
<1>9. beat.n \in MinHeartbeat .. MaxHeartbeat
  BY <1>2, HeartbeatInRange DEF beat
<1>10. ASSUME NEW p, From(p).is = "value"
       PROVE  /\ From(p).n \in Int
              /\ p \notin DOMAIN r.query => From(p).n = NO_START
              /\ p \in DOMAIN r.query => From(p).n = r.query[p].n /\ first <= From(p).n /\ From(p).n <= next
  <2>1. From(p) = checkAndGetParam(r.query, p, NO_START, first, TRUE, next, TRUE)
    BY DEF checkAndGetParam64
  <2> HIDE DEF From
  <2>2. GivenInRange(From(p).n, r.query, p, NO_START, first, next)
    BY <1>3, <1>10, <2>1, ParamInRange
  <2> QED
    BY <2>2 DEF GivenInRange
<1>11. "from" \notin DOMAIN r.query => From("from") = Value(NO_START)
  BY DEF checkAndGetParam64, checkAndGetParam
<1>12. start = IF From("from") = Value(NO_START) THEN From("start") ELSE From("from")
  BY DEF start
<1>13. PICK f, s : f = From("from") /\ s = From("start")
  OBVIOUS
<1> HIDE DEF From
<1>14. /\ start = IF f = Value(NO_START) THEN s ELSE f
       /\ "from" \notin DOMAIN r.query => f = Value(NO_START)
  BY <1>11, <1>12, <1>13
<1>15. Value(NO_START).is = "value" /\ Value(NO_START).n = NO_START /\ NO_START < 0
  BY DEF Value, NO_START
<1>16. f = Value(NO_START) => "from" \notin DOMAIN r.query
  BY <1>3, <1>10, <1>13, <1>15
<1>17. CASE "from" \in DOMAIN r.query
  <2>1. start = f /\ f.is = "value"
    BY <1>2, <1>14, <1>16, <1>17
  <2> QED
    <3>1. start.n = r.query["from"].n /\ first <= start.n /\ start.n <= next /\ start.n \in Int
      BY <1>10, <1>13, <1>17, <2>1
    <3>2. since <= start.n /\ start.n <= until
      BY <3>1
    <3>3. /\ asked.call = "sample" /\ asked.freq = freq.n /\ asked.start = start.n
          /\ asked.count = count.n /\ asked.heartbeat = beat.n
      BY <1>2
    <3> HIDE DEF more
    <3>4. asked.count < 0 => asked.freq = NO_FREQ
      BY <1>6, <3>3
    <3>5. "count" \in DOMAIN r.query => r.query["count"].n = asked.count /\ asked.count \in -size .. size
      BY <1>3, <1>7, <3>3
    <3> QED
      BY <1>8, <1>9, <1>17, <3>1, <3>2, <3>3, <3>4, <3>5 DEF AskedInRange
<1>18. CASE "from" \notin DOMAIN r.query
  <2>1. start = s /\ s.is = "value"
    BY <1>2, <1>14, <1>18
  <2> QED
    <3>1. /\ start.n \in Int
          /\ "start" \notin DOMAIN r.query => start.n = NO_START
          /\ "start" \in DOMAIN r.query => start.n = r.query["start"].n /\ first <= start.n /\ start.n <= next
      BY <1>10, <1>13, <2>1
    <3>2. start.n # NO_START => since <= start.n /\ start.n <= until
      BY <3>1
    <3>3. /\ asked.call = "sample" /\ asked.freq = freq.n /\ asked.start = start.n
          /\ asked.count = count.n /\ asked.heartbeat = beat.n
      BY <1>2
    <3> HIDE DEF more
    <3>4. asked.count < 0 => asked.freq = NO_FREQ
      BY <1>6, <3>3
    <3>5. "count" \in DOMAIN r.query => r.query["count"].n = asked.count /\ asked.count \in -size .. size
      BY <1>3, <1>7, <3>3
    <3> QED
      BY <1>8, <1>9, <1>18, <3>1, <3>2, <3>3, <3>4, <3>5 DEF AskedInRange
<1> QED
  BY <1>17, <1>18

-----------------------------------------------------------------------------
(* The sequence numbers.                                                   *)

(* A sequence is one of the elements it has.                               *)
LEMMA InItsRange ==
  ASSUME NEW S, NEW q \in Seq(S)
  PROVE  Len(q) \in Nat /\ q \in Seq(Range(q))
<1>1. DOMAIN q = 1 .. Len(q) /\ Len(q) \in Nat
  OBVIOUS
<1>2. \A i \in 1 .. Len(q) : q[i] \in Range(q)
  BY <1>1 DEF Range
<1>3. q \in Seq(Range(q))
  BY <1>1, <1>2
<1> QED
  BY <1>1, <1>3

(* The first sequence number lies between 1 and the next one.              *)
LEMMA FirstInWindow ==
  ASSUME Len(log) \in Nat
  PROVE  getFirstSequence \in 1 .. m_sequence /\ m_sequence \in Nat \ {0}
<1>1. m_sequence \in Nat \ {0} /\ m_slidingBufferSize \in Nat \ {0, 1}
  BY RequestsAssumption DEF m_sequence
<1>2. PICK low : low = m_sequence - m_slidingBufferSize
  OBVIOUS
<1>3. low \in Int /\ low <= m_sequence
  BY <1>1, <1>2
<1>4. getFirstSequence = IF 1 >= low THEN 1 ELSE low
  BY <1>2, <1>3, MaxOfTwo DEF getFirstSequence
<1> QED
  BY <1>1, <1>3, <1>4

(* It never goes back while the log grows.                                 *)
LEMMA FirstGrows ==
  ASSUME Len(log) \in Nat, Len(log)' \in Nat, Len(log) <= Len(log)'
  PROVE  /\ getFirstSequence <= getFirstSequence' /\ m_sequence <= m_sequence'
         /\ getFirstSequence' \in Nat /\ m_sequence' \in Nat
<1>1. /\ m_sequence \in Nat \ {0} /\ m_sequence' \in Nat \ {0} /\ m_sequence <= m_sequence'
      /\ m_slidingBufferSize \in Nat \ {0, 1}
  BY RequestsAssumption DEF m_sequence
<1>2. PICK a, b, size : a = m_sequence /\ b = m_sequence' /\ size = m_slidingBufferSize
  OBVIOUS
<1> DEFINE low == a - size
           high == b - size
<1>3. low \in Int /\ high \in Int /\ low <= high
  <2>1. a \in Nat /\ b \in Nat /\ a <= b /\ size \in Nat
    BY <1>1, <1>2
  <2> QED
    BY <2>1
<1> HIDE DEF low, high
<1>4. getFirstSequence = IF 1 >= low THEN 1 ELSE low
  BY <1>2, <1>3, MaxOfTwo DEF getFirstSequence, low
<1>5. getFirstSequence' = IF 1 >= high THEN 1 ELSE high
  BY <1>2, <1>3, MaxOfTwo DEF getFirstSequence, high
<1> QED
  BY <1>1, <1>3, <1>4, <1>5

-----------------------------------------------------------------------------
(* What a thread has found out stays true while the log and the versions   *)
(* of the files grow.                                                      *)

Grows ==
  /\ Len(log) \in Nat /\ Len(log)' \in Nat /\ Len(log) <= Len(log)'
  /\ \A f \in Range(m_fileMap) : \A v \in DOMAIN versions[f] :
       v \in DOMAIN versions'[f] /\ versions'[f][v] = versions[f][v]

(* A file that was whole stays one: versions are only added.               *)
LEMMA FileWholeKept ==
  ASSUME Grows, NEW path, NEW file, FileWhole(path, file)
  PROVE  FileWhole(path, file)'
<1>1. path \in DOMAIN m_fileMap /\ m_fileMap[path] \in Range(m_fileMap)
  BY DEF FileWhole, Range
<1>2. PICK f : f = m_fileMap[path]
  OBVIOUS
<1>3. /\ file.version \in DOMAIN versions'[f]
      /\ versions'[f][file.version] = versions[f][file.version]
  BY <1>1, <1>2 DEF FileWhole, Grows
<1> QED
  BY <1>1, <1>2, <1>3 DEF FileWhole

(* So does a part of the window, whose ends only move up.                  *)
LEMMA WindowKept ==
  ASSUME Grows, NEW since \in Nat, NEW window, WindowInv(since, window)
  PROVE  WindowInv(since, window)'
<1>1. /\ getFirstSequence <= getFirstSequence' /\ m_sequence <= m_sequence'
      /\ getFirstSequence' \in Nat /\ m_sequence' \in Nat
  BY FirstGrows DEF Grows
<1>2. getFirstSequence \in Nat /\ m_sequence \in Nat
  BY FirstInWindow DEF Grows
<1>3. CASE DOMAIN window = {"first"} /\ window.first \in since .. getFirstSequence
  <2>1. window.first \in since .. getFirstSequence'
    BY <1>1, <1>2, <1>3
  <2> QED
    BY <1>3, <2>1 DEF WindowInv
<1>4. CASE DOMAIN window = {"next"} /\ window.next \in 1 .. m_sequence
  <2>1. window.next \in 1 .. m_sequence'
    BY <1>1, <1>2, <1>4
  <2> QED
    BY <1>4, <2>1 DEF WindowInv
<1> QED
  BY <1>3, <1>4 DEF WindowInv

(* And so does all that a thread has found out.                            *)
LEMMA StepKept ==
  ASSUME Grows, NEW step, StepInv(step)
  PROVE  StepInv(step)'
<1>1. step.since \in 1 .. getFirstSequence' /\ step.since \in Nat
  <2>1. getFirstSequence <= getFirstSequence' /\ getFirstSequence' \in Nat
    BY FirstGrows DEF Grows
  <2>2. getFirstSequence \in Nat
    BY FirstInWindow DEF Grows
  <2>3. step.since \in 1 .. getFirstSequence
    BY DEF StepInv
  <2> QED
    BY <2>1, <2>2, <2>3
<1>2. step.at = "check" => WindowInv(step.since, step.window)'
  BY <1>1, WindowKept DEF StepInv
<1>3. step.at = "cache" => FileWhole(step.request.path, step.file)'
  BY FileWholeKept DEF StepInv
<1>4. step.at = "done" /\ step.answer.is = "200" => FileWhole(step.request.path, step.answer.file)'
  BY FileWholeKept DEF StepInv
<1> QED
  BY <1>1, <1>2, <1>3, <1>4 DEF StepInv

ThreadsInv ==
  /\ DOMAIN thread = Threads
  /\ \A t \in Threads : thread[t] = Idle \/ StepInv(thread[t])

(* A thread goes on to a step that is sound, and the others stay.          *)
LEMMA Moves ==
  ASSUME ThreadsInv, Grows, NEW t \in Threads, NEW step, To(t, step),
         step = Idle \/ StepInv(step)
  PROVE  ThreadsInv'
<1>1. thread' = [thread EXCEPT ![t] = step] /\ DOMAIN thread = Threads
  BY DEF To, ThreadsInv
<1>2. DOMAIN thread' = Threads /\ thread'[t] = step /\ \A u \in Threads : u # t => thread'[u] = thread[u]
  BY <1>1
<1>3. ASSUME NEW u \in Threads
      PROVE  thread'[u] = Idle \/ StepInv(thread[u])'
  <2>1. PICK s : s = thread'[u]
    OBVIOUS
  <2>2. s = Idle \/ StepInv(s)
    BY <1>2, <2>1 DEF ThreadsInv
  <2>3. s = Idle \/ StepInv(s)'
    BY <2>2, StepKept
  <2> QED
    BY <2>1, <2>3 DEF StepInv
<1> QED
  BY <1>2, <1>3 DEF ThreadsInv

(* Nothing moves.                                                          *)
LEMMA ThreadsStay ==
  ASSUME ThreadsInv, Grows, thread' = thread
  PROVE  ThreadsInv'
<1>1. ASSUME NEW u \in Threads
      PROVE  thread'[u] = Idle \/ StepInv(thread[u])'
  <2>1. PICK s : s = thread'[u]
    OBVIOUS
  <2>2. s = Idle \/ StepInv(s)
    BY <2>1 DEF ThreadsInv
  <2>3. s = Idle \/ StepInv(s)'
    BY <2>2, StepKept
  <2> QED
    BY <2>1, <2>3 DEF StepInv
<1> QED
  BY <1>1 DEF ThreadsInv

-----------------------------------------------------------------------------
(* The steps a thread goes on to.                                          *)

AnswerInv(step, what) ==
  /\ what.is = "200" => FileWhole(step.request.path, what.file)
  /\ what.is = "data" => AskedInRange(step.request, step.since, what.asked, what.until)

(* An answer without a file and without data promises nothing.             *)
LEMMA PlainAnswer ==
  ASSUME NEW step, NEW what, what.is \notin {"200", "data"}
  PROVE  AnswerInv(step, what)
BY DEF AnswerInv

(* A thread that has an answer is done.                                    *)
LEMMA AnswerStep ==
  ASSUME NEW step, StepInv(step), NEW what, AnswerInv(step, what), NEW next,
         next = [step EXCEPT !.at = "done", !.answer = what]
  PROVE  StepInv(next)
<1>1. DOMAIN step = Fields /\ {"at", "answer", "request", "since"} \subseteq Fields
  BY DEF StepInv, Fields
<1>2. /\ DOMAIN next = Fields /\ next.at = "done" /\ next.answer = what
      /\ next.request = step.request /\ next.since = step.since
  BY <1>1
<1>3. step.request \in Requests /\ step.since \in 1 .. getFirstSequence
  BY DEF StepInv
<1>4. "done" \in Steps
  BY DEF Steps
<1> QED
  BY <1>2, <1>3, <1>4 DEF StepInv, AnswerInv

(* One that httpRequest has sent on has no file yet.                       *)
LEMMA GoesStep ==
  ASSUME NEW step, StepInv(step), step.at = "route", NEW at,
         at \in {"first", "asset", "file"},
         at = "file" => step.request.path \in DOMAIN m_fileMap,
         NEW next, next = [step EXCEPT !.at = at]
  PROVE  StepInv(next)
<1>1. DOMAIN step = Fields /\ {"at", "file", "request", "since"} \subseteq Fields
  BY DEF StepInv, Fields
<1>2. /\ DOMAIN next = Fields /\ next.at = at /\ next.file = step.file
      /\ next.request = step.request /\ next.since = step.since
  BY <1>1
<1>3. /\ step.request \in Requests /\ step.since \in 1 .. getFirstSequence
      /\ step.file = NoFile
  BY DEF StepInv
<1>4. at \in Steps /\ at \notin {"check", "route", "read", "cache", "done"}
  BY DEF Steps
<1> QED
  BY <1>2, <1>3, <1>4 DEF StepInv

(* handleCall with one end of the window.                                  *)
LEMMA WindowStep ==
  ASSUME NEW step, StepInv(step), NEW window, WindowInv(step.since, window),
         NEW next, next = [step EXCEPT !.at = "check", !.window = window]
  PROVE  StepInv(next)
<1>1. DOMAIN step = Fields /\ {"at", "window", "request", "since"} \subseteq Fields
  BY DEF StepInv, Fields
<1>2. /\ DOMAIN next = Fields /\ next.at = "check" /\ next.window = window
      /\ next.request = step.request /\ next.since = step.since
  BY <1>1
<1>3. step.request \in Requests /\ step.since \in 1 .. getFirstSequence
  BY DEF StepInv
<1>4. "check" \in Steps
  BY DEF Steps
<1> QED
  BY <1>2, <1>3, <1>4 DEF StepInv

(* handlePut with its parameters.                                          *)
LEMMA TodoStep ==
  ASSUME NEW step, StepInv(step), NEW todo, NEW at, at \in {"put", "command"},
         NEW next, next = [step EXCEPT !.at = at, !.todo = todo]
  PROVE  StepInv(next)
<1>1. DOMAIN step = Fields /\ {"at", "todo", "request", "since"} \subseteq Fields
  BY DEF StepInv, Fields
<1>2. /\ DOMAIN next = Fields /\ next.at = at
      /\ next.request = step.request /\ next.since = step.since
  BY <1>1
<1>3. step.request \in Requests /\ step.since \in 1 .. getFirstSequence
  BY DEF StepInv
<1>4. at \in Steps /\ at \notin {"check", "file", "route", "read", "cache", "done"}
  BY DEF Steps
<1> QED
  BY <1>2, <1>3, <1>4 DEF StepInv

(* handlePut with one parameter less.                                      *)
LEMMA NextTodoStep ==
  ASSUME NEW step, StepInv(step), NEW todo, step.at \in {"put", "command"},
         NEW next, next = [step EXCEPT !.todo = todo]
  PROVE  StepInv(next)
<1>1. DOMAIN step = Fields /\ {"at", "todo", "request", "since"} \subseteq Fields
  BY DEF StepInv, Fields
<1>2. /\ DOMAIN next = Fields /\ next.at = step.at
      /\ next.request = step.request /\ next.since = step.since
  BY <1>1
<1>3. step.request \in Requests /\ step.since \in 1 .. getFirstSequence
  BY DEF StepInv
<1>4. next.at \in Steps /\ next.at \notin {"check", "file", "route", "read", "cache", "done"}
  BY <1>2 DEF Steps
<1> QED
  BY <1>2, <1>3, <1>4 DEF StepInv

(* handleFile with the size that stat gave.                                *)
LEMMA ReadStep ==
  ASSUME NEW step, StepInv(step), step.at = "file", NEW size \in Nat, NEW next,
         next = [step EXCEPT !.at = "read", !.file = [step.file EXCEPT !.size = size]]
  PROVE  StepInv(next)
<1>1. DOMAIN step = Fields /\ {"at", "file", "request", "since"} \subseteq Fields
  BY DEF StepInv, Fields
<1>2. PICK file : file = [step.file EXCEPT !.size = size]
  OBVIOUS
<1>3. /\ DOMAIN next = Fields /\ next.at = "read" /\ next.file = file
      /\ next.request = step.request /\ next.since = step.since
  BY <1>1, <1>2
<1>4. /\ step.request \in Requests /\ step.since \in 1 .. getFirstSequence
      /\ step.request.path \in DOMAIN m_fileMap /\ DOMAIN step.file = DOMAIN NoFile
  BY DEF StepInv
<1>5. DOMAIN file = DOMAIN NoFile /\ file.size = size
  BY <1>2, <1>4 DEF NoFile
<1>6. "read" \in Steps
  BY DEF Steps
<1> QED
  BY <1>3, <1>4, <1>5, <1>6 DEF StepInv

(* handleFile with a file that is whole.                                   *)
LEMMA CacheStep ==
  ASSUME NEW step, StepInv(step), NEW file, FileWhole(step.request.path, file), NEW next,
         next = [step EXCEPT !.at = "cache", !.file = file]
  PROVE  StepInv(next)
<1>1. DOMAIN step = Fields /\ {"at", "file", "request", "since"} \subseteq Fields
  BY DEF StepInv, Fields
<1>2. /\ DOMAIN next = Fields /\ next.at = "cache" /\ next.file = file
      /\ next.request = step.request /\ next.since = step.since
  BY <1>1
<1>3. step.request \in Requests /\ step.since \in 1 .. getFirstSequence
  BY DEF StepInv
<1>4. "cache" \in Steps
  BY DEF Steps
<1> QED
  BY <1>2, <1>3, <1>4 DEF StepInv

-----------------------------------------------------------------------------
(* The actions.                                                            *)

Still == UNCHANGED <<versions, present, m_fileCache, log, made>>

(* A thread that is not idle is at a step of a request.                    *)
LEMMA Busy ==
  ASSUME IInv, NEW t \in Threads, thread[t].at # "idle"
  PROVE  StepInv(thread[t])
<1>1. Idle.at = "idle"
  BY DEF Idle
<1> QED
  BY <1>1 DEF IInv

(* The parts of the invariant.                                             *)
LEMMA IInvParts ==
  ASSUME IInv
  PROVE  ThreadsInv /\ FilesInv /\ Len(log) \in Nat /\ made \in 0 .. MaxRequests
<1>1. log \in Seq(Range(log))
  BY DEF IInv
<1>2. Len(log) \in Nat
  BY <1>1
<1> QED
  BY <1>2 DEF IInv, ThreadsInv

(* A log and files that stay the same have grown, by nothing.              *)
LEMMA SameGrows ==
  ASSUME IInv, log' = log, versions' = versions
  PROVE  Grows
<1>1. Len(log) \in Nat /\ Len(log)' = Len(log)
  BY IInvParts
<1> QED
  BY <1>1 DEF Grows

(* The files and their cache stay sound when nobody touches them.          *)
LEMMA FilesStay ==
  ASSUME FilesInv, UNCHANGED <<versions, present, m_fileCache>>
  PROVE  FilesInv'
BY DEF FilesInv, FileWhole

(* A thread goes on and changes nothing else.                              *)
LEMMA Alone ==
  ASSUME IInv, NEW t \in Threads, NEW step, To(t, step), step = Idle \/ StepInv(step),
         UNCHANGED <<versions, present, m_fileCache, log>>, made' \in 0 .. MaxRequests
  PROVE  IInv'
<1>1. Grows
  BY SameGrows
<1>2. ThreadsInv'
  BY <1>1, Moves, IInvParts
<1>3. FilesInv'
  BY FilesStay, IInvParts
<1>4. log' \in Seq(Range(log'))
  BY DEF IInv
<1> QED
  BY <1>2, <1>3, <1>4 DEF IInv, ThreadsInv

(* An answer changes nothing else.                                         *)
LEMMA AnswerAlone ==
  ASSUME IInv, NEW t \in Threads, StepInv(thread[t]), NEW what, AnswerInv(thread[t], what),
         Answers(t, what), Still
  PROVE  IInv'
<1>1. PICK step, next : step = thread[t] /\ next = [step EXCEPT !.at = "done", !.answer = what]
  OBVIOUS
<1>2. StepInv(next)
  BY <1>1, AnswerStep
<1>3. To(t, next)
  BY <1>1 DEF Answers
<1>4. made' \in 0 .. MaxRequests
  BY IInvParts DEF Still
<1> QED
  BY <1>2, <1>3, <1>4, Alone DEF Still

(* Nor does an error.                                                      *)
LEMMA ErrorAlone ==
  ASSUME IInv, NEW t \in Threads, StepInv(thread[t]), NEW code, printError(t, code), Still
  PROVE  IInv'
<1>1. PICK what : what = [is |-> "error", code |-> code]
  OBVIOUS
<1>2. what.is = "error"
  BY <1>1
<1>3. AnswerInv(thread[t], what)
  BY <1>2, PlainAnswer
<1>4. Answers(t, what)
  BY <1>1 DEF printError
<1> QED
  BY <1>3, <1>4, AnswerAlone

(* Nor does a probe, or the error for a device that there is not.          *)
LEMMA ProbeInv ==
  ASSUME IInv, NEW t \in Threads, StepInv(thread[t]), NEW name, handleProbe(t, name), Still
  PROVE  IInv'
<1>1. ASSUME NEW of, Answers(t, [is |-> "probe", of |-> of])
      PROVE  IInv'
  <2>1. PICK what : what = [is |-> "probe", of |-> of]
    OBVIOUS
  <2>2. what.is = "probe"
    BY <2>1
  <2>3. AnswerInv(thread[t], what)
    BY <2>2, PlainAnswer
  <2> QED
    BY <1>1, <2>1, <2>3, AnswerAlone
<1> QED
  BY <1>1, ErrorAlone DEF handleProbe

(* Nor does the routing.                                                   *)
LEMMA GoesAlone ==
  ASSUME IInv, NEW t \in Threads, StepInv(thread[t]), thread[t].at = "route", NEW at,
         at \in {"first", "asset", "file"},
         at = "file" => Request(t).path \in DOMAIN m_fileMap, Goes(t, at), Still
  PROVE  IInv'
<1>1. PICK step, next : step = thread[t] /\ next = [step EXCEPT !.at = at]
  OBVIOUS
<1>2. at = "file" => step.request.path \in DOMAIN m_fileMap
  BY <1>1 DEF Request
<1>3. StepInv(next)
  BY <1>1, <1>2, GoesStep
<1>4. To(t, next)
  BY <1>1 DEF Goes
<1>5. made' \in 0 .. MaxRequests
  BY IInvParts DEF Still
<1> QED
  BY <1>3, <1>4, <1>5, Alone DEF Still

(* Nor does the beginning of a put.                                        *)
LEMMA TodoAlone ==
  ASSUME IInv, NEW t \in Threads, StepInv(thread[t]), NEW at, at \in {"put", "command"}, NEW todo,
         To(t, [thread[t] EXCEPT !.at = at, !.todo = todo]), Still
  PROVE  IInv'
<1>1. PICK step, next : step = thread[t] /\ next = [step EXCEPT !.at = at, !.todo = todo]
  OBVIOUS
<1>2. StepInv(next)
  BY <1>1, TodoStep
<1>3. To(t, next)
  BY <1>1
<1>4. made' \in 0 .. MaxRequests
  BY IInvParts DEF Still
<1> QED
  BY <1>2, <1>3, <1>4, Alone DEF Still

(* httpRequest, by what it calls.                                          *)
LEMMA HttpRequestInv ==
  ASSUME IInv, NEW t \in Threads, httpRequest(t)
  PROVE  IInv'
<1>1. thread[t].at = "route" /\ Still /\ StepInv(thread[t])
  BY Busy DEF httpRequest, Still
<1>2. PICK r : r = Request(t)
  OBVIOUS
<1>3. CASE printError(t, "UNSUPPORTED")
  BY <1>1, <1>3, ErrorAlone
<1>4. CASE isFile(r) /\ Goes(t, "file")
  BY <1>1, <1>2, <1>4, GoesAlone DEF isFile
<1>5. CASE Goes(t, "asset")
  BY <1>1, <1>5, GoesAlone
<1>6. CASE handleCall(t, Call(r), Device(r))
  <2>1. CASE Goes(t, "first")
    BY <1>1, <2>1, GoesAlone
  <2>2. CASE \E name : handleProbe(t, name)
    BY <1>1, <2>2, ProbeInv
  <2> QED
    BY <1>3, <1>6, <2>1, <2>2 DEF handleCall
<1>7. CASE handlePut(t, r)
  <2>1. CASE \E todo : To(t, [thread[t] EXCEPT !.at = "command", !.todo = todo])
    BY <1>1, <2>1, TodoAlone
  <2>2. CASE \E todo : To(t, [thread[t] EXCEPT !.at = "put", !.todo = todo])
    BY <1>1, <2>2, TodoAlone
  <2> QED
    BY <1>3, <1>7, <2>1, <2>2 DEF handlePut
<1> QED
  BY <1>2, <1>3, <1>4, <1>5, <1>6, <1>7 DEF httpRequest

(* The log grows by what is put at its end.                                *)
LEMMA LogGrows ==
  ASSUME NEW S, NEW q \in Seq(S), NEW e, NEW n, n = q \/ n = Append(q, e)
  PROVE  n \in Seq(Range(n)) /\ Len(n) \in Nat /\ Len(q) <= Len(n)
<1>1. q \in Seq(S \cup {e})
  OBVIOUS
<1>2. n \in Seq(S \cup {e}) /\ Len(q) \in Nat /\ (Len(n) = Len(q) \/ Len(n) = Len(q) + 1)
  BY <1>1
<1>3. Len(n) \in Nat /\ n \in Seq(Range(n))
  BY <1>2, InItsRange
<1> QED
  BY <1>2, <1>3

(* The end of the window that is read first is not ahead of the buffer.    *)
LEMMA ReadWindowInv ==
  ASSUME IInv, NEW t \in Threads, ReadWindow(t)
  PROVE  IInv'
<1>1. thread[t].at = "first" /\ StepInv(thread[t])
  BY Busy DEF ReadWindow
<1>2. PICK first, sequence : first = getFirstSequence /\ sequence = m_sequence
  OBVIOUS
<1>3. PICK read : /\ read \in {[first |-> first], [next |-> sequence]}
                  /\ To(t, [thread[t] EXCEPT !.at = "check", !.window = read])
  BY <1>2 DEF ReadWindow
<1>4. PICK step, next : step = thread[t] /\ next = [step EXCEPT !.at = "check", !.window = read]
  OBVIOUS
<1>5. first \in 1 .. sequence /\ sequence \in Nat \ {0} /\ step.since \in 1 .. first
  BY <1>1, <1>2, <1>4, FirstInWindow, IInvParts DEF StepInv
<1>6. WindowInv(step.since, read)
  <2>1. CASE read = [first |-> first]
    <3>1. DOMAIN read = {"first"} /\ read.first = first
      BY <2>1
    <3>2. first \in step.since .. first
      BY <1>5
    <3> QED
      BY <1>2, <3>1, <3>2 DEF WindowInv
  <2>2. CASE read = [next |-> sequence]
    <3>1. DOMAIN read = {"next"} /\ read.next = sequence
      BY <2>2
    <3>2. sequence \in 1 .. sequence
      BY <1>5
    <3> QED
      BY <1>2, <3>1, <3>2 DEF WindowInv
  <2> QED
    BY <1>3, <2>1, <2>2
<1>7. StepInv(next)
  BY <1>1, <1>4, <1>6, WindowStep
<1>8. To(t, next)
  BY <1>3, <1>4
<1>9. made' \in 0 .. MaxRequests /\ UNCHANGED <<versions, present, m_fileCache, log>>
  BY IInvParts DEF ReadWindow
<1> QED
  BY <1>7, <1>8, <1>9, Alone

(* The other end is read, and what passes the checks is in range: the      *)
(* first may be older and the next be behind, but never the other way.     *)
LEMMA CheckParamsInv ==
  ASSUME IInv, NEW t \in Threads, CheckParams(t)
  PROVE  IInv'
<1>1. thread[t].at = "check" /\ StepInv(thread[t]) /\ Still
  BY Busy DEF CheckParams, Still
<1>2. PICK first, sequence, step, r :
        first = getFirstSequence /\ sequence = m_sequence /\ step = thread[t] /\ r = step.request
  OBVIOUS
<1>3. /\ first \in 1 .. sequence /\ sequence \in Nat \ {0}
      /\ step.since \in 1 .. first /\ r \in Requests
  BY <1>1, <1>2, FirstInWindow, IInvParts DEF StepInv
<1>4. PICK old : old = step.window
  OBVIOUS
<1>5. PICK low : low = IF "first" \in DOMAIN old THEN old.first ELSE first
  OBVIOUS
<1>6. PICK high : high = IF "next" \in DOMAIN old THEN old.next ELSE sequence
  OBVIOUS
<1>7. /\ low \in Nat \ {0} /\ step.since <= low /\ step.since \in Nat
      /\ high \in Nat \ {0} /\ high <= sequence
  <2>1. WindowInv(step.since, old)
    BY <1>1, <1>2, <1>4 DEF StepInv
  <2>2. CASE DOMAIN old = {"first"} /\ old.first \in step.since .. first
    <3>1. low = old.first /\ high = sequence
      BY <1>5, <1>6, <2>2
    <3> QED
      BY <1>3, <2>2, <3>1
  <2>3. CASE DOMAIN old = {"next"} /\ old.next \in 1 .. sequence
    <3>1. low = first /\ high = old.next
      BY <1>5, <1>6, <2>3
    <3> QED
      BY <1>3, <2>3, <3>1
  <2> QED
    BY <1>2, <2>1, <2>2, <2>3 DEF WindowInv
<1>8. PICK asked : asked = Asked(r, old)
  OBVIOUS
<1>9. asked = IF Call(r) = "current" THEN CurrentParams(r.query, low, high)
              ELSE SampleParams(r.query, low, high)
  BY <1>2, <1>5, <1>6, <1>8 DEF Asked
<1>10. IsQuery(r.query)
  BY <1>3, RequestsAssumption DEF IsQuery
<1>11. CASE "error" \notin DOMAIN asked /\ Answers(t, [is |-> "data", asked |-> asked, until |-> sequence])
  <2>1. AskedInRange(r, step.since, asked, sequence)
    <3>1. CASE Call(r) = "current"
      <4>1. asked = CurrentParams(r.query, low, high)
        BY <1>9, <3>1
      <4> QED
        BY <1>3, <1>7, <1>10, <1>11, <4>1, CurrentInRange
    <3>2. CASE Call(r) # "current"
      <4>1. asked = SampleParams(r.query, low, high)
        BY <1>9, <3>2
      <4> QED
        BY <1>3, <1>7, <1>10, <1>11, <4>1, SampleInRange
    <3> QED
      BY <3>1, <3>2
  <2>2. PICK what : what = [is |-> "data", asked |-> asked, until |-> sequence]
    OBVIOUS
  <2>3. what.is = "data" /\ what.asked = asked /\ what.until = sequence
    BY <2>2
  <2>4. AnswerInv(thread[t], what)
    BY <1>2, <2>1, <2>3 DEF AnswerInv
  <2> QED
    BY <1>1, <1>11, <2>2, <2>4, AnswerAlone
<1>12. CASE \E code : printError(t, code)
  BY <1>1, <1>12, ErrorAlone
<1>13. asked = Asked(Request(t), thread[t].window)
  BY <1>2, <1>4, <1>8 DEF Request
<1> QED
  BY <1>2, <1>11, <1>12, <1>13 DEF CheckParams

(* A value that is put makes the log longer.                               *)
LEMMA PutValueInv ==
  ASSUME IInv, NEW t \in Threads, PutValue(t)
  PROVE  IInv'
<1>1. thread[t].at = "put" /\ StepInv(thread[t])
  BY Busy DEF PutValue
<1>2. PICK step, todo, next :
        step = thread[t] /\ todo = Tail(step.todo) /\ next = [step EXCEPT !.todo = todo]
  OBVIOUS
<1>3. StepInv(next)
  BY <1>1, <1>2, NextTodoStep
<1>4. To(t, next)
  BY <1>2 DEF PutValue, Next1
<1>5. PICK e : log' = log \/ log' = Append(log, e)
  BY DEF PutValue
<1>6. log \in Seq(Range(log)) /\ Len(log) \in Nat
  BY IInvParts DEF IInv
<1>7. log' \in Seq(Range(log')) /\ Len(log)' \in Nat /\ Len(log) <= Len(log)'
  BY <1>5, <1>6, LogGrows
<1>8. Grows
  BY <1>6, <1>7 DEF Grows, PutValue
<1>9. ThreadsInv'
  BY <1>3, <1>4, <1>8, Moves, IInvParts
<1>10. FilesInv' /\ made' \in 0 .. MaxRequests
  BY FilesStay, IInvParts DEF PutValue
<1> QED
  BY <1>7, <1>9, <1>10 DEF IInv, ThreadsInv

(* A command is sent.                                                      *)
LEMMA SendCommandInv ==
  ASSUME IInv, NEW t \in Threads, SendCommand(t)
  PROVE  IInv'
<1>1. thread[t].at = "command" /\ StepInv(thread[t])
  BY Busy DEF SendCommand
<1>2. PICK step, todo, next :
        step = thread[t] /\ todo = Tail(step.todo) /\ next = [step EXCEPT !.todo = todo]
  OBVIOUS
<1>3. StepInv(next)
  BY <1>1, <1>2, NextTodoStep
<1>4. To(t, next)
  BY <1>2 DEF SendCommand, Next1
<1>5. made' \in 0 .. MaxRequests /\ UNCHANGED <<versions, present, m_fileCache, log>>
  BY IInvParts DEF SendCommand
<1> QED
  BY <1>3, <1>4, <1>5, Alone

(* An answer that has neither a file nor data.                             *)
LEMMA PlainAlone ==
  ASSUME IInv, NEW t \in Threads, StepInv(thread[t]), NEW is, is \notin {"200", "data"},
         Answers(t, [is |-> is]), Still
  PROVE  IInv'
<1>1. PICK what : what = [is |-> is]
  OBVIOUS
<1>2. what.is = is
  BY <1>1
<1>3. AnswerInv(thread[t], what)
  BY <1>2, PlainAnswer
<1> QED
  BY <1>1, <1>3, AnswerAlone

(* A put is answered.                                                      *)
LEMMA PutEndsInv ==
  ASSUME IInv, NEW t \in Threads, PutEnds(t)
  PROVE  IInv'
<1>1. thread[t].at # "idle" /\ Still
  BY DEF PutEnds, Still
<1>2. StepInv(thread[t])
  BY <1>1, Busy
<1>3. Answers(t, [is |-> "success"])
  BY DEF PutEnds
<1> QED
  BY <1>1, <1>2, <1>3, PlainAlone

(* A request about assets is answered.                                     *)
LEMMA AssetInv ==
  ASSUME IInv, NEW t \in Threads, Asset(t)
  PROVE  IInv'
<1>1. thread[t].at = "asset" /\ Still
  BY DEF Asset, Still
<1>2. StepInv(thread[t])
  BY <1>1, Busy
<1>3. CASE Answers(t, [is |-> "success"])
  BY <1>1, <1>2, <1>3, PlainAlone
<1>4. CASE Answers(t, [is |-> "escaped"])
  BY <1>1, <1>2, <1>4, PlainAlone
<1>5. CASE Answers(t, [is |-> "assets"])
  BY <1>1, <1>2, <1>5, PlainAlone
<1>6. CASE Answers(t, [is |-> "failure"])
  BY <1>1, <1>2, <1>6, PlainAlone
<1> QED
  BY <1>3, <1>4, <1>5, <1>6 DEF Asset

(* What is on disk is the last version.                                    *)
LEMMA DiskIsVersion ==
  ASSUME FilesInv, NEW f \in Range(m_fileMap)
  PROVE  /\ OnDisk(f).version \in DOMAIN versions[f]
         /\ OnDisk(f).size = versions[f][OnDisk(f).version]
         /\ OnDisk(f).size \in Nat
<1>1. PICK q : q = versions[f]
  OBVIOUS
<1>2. q \in Seq(Sizes) /\ q # <<>>
  BY <1>1 DEF FilesInv
<1>3. Len(q) \in DOMAIN q /\ q[Len(q)] \in Sizes
  BY <1>2
<1>4. OnDisk(f).version = Len(q) /\ OnDisk(f).size = q[Len(q)]
  BY <1>1 DEF OnDisk, Last
<1> QED
  BY <1>1, <1>3, <1>4, RequestsAssumption

(* A file that is served was whole.                                        *)
LEMMA ServesAlone ==
  ASSUME IInv, NEW t \in Threads, StepInv(thread[t]), NEW file,
         FileWhole(Request(t).path, file), Serves(t, file), Still
  PROVE  IInv'
<1>1. PICK what : what = [is |-> "200", file |-> file]
  OBVIOUS
<1>2. what.is = "200" /\ what.file = file
  BY <1>1
<1>3. AnswerInv(thread[t], what)
  BY <1>2 DEF AnswerInv, Request
<1>4. Answers(t, what)
  BY <1>1 DEF Serves
<1> QED
  BY <1>3, <1>4, AnswerAlone

(* A cached file is served; of another one the size is taken.              *)
LEMMA FindFileInv ==
  ASSUME IInv, NEW t \in Threads, FindFile(t)
  PROVE  IInv'
<1>1. thread[t].at = "file" /\ Still /\ StepInv(thread[t])
  BY Busy DEF FindFile, Still
<1>2. PICK step, path, f : step = thread[t] /\ path = step.request.path /\ f = m_fileMap[path]
  OBVIOUS
<1>3. path \in DOMAIN m_fileMap /\ f \in Range(m_fileMap)
  BY <1>1, <1>2 DEF StepInv, Range
<1>4. CASE path \in DOMAIN m_fileCache /\ Serves(t, m_fileCache[path])
  <2>1. PICK file : file = m_fileCache[path]
    OBVIOUS
  <2>2. FileWhole(path, file)
    BY <1>4, <2>1, IInvParts DEF FilesInv
  <2>3. Serves(t, file) /\ path = Request(t).path
    BY <1>2, <1>4, <2>1 DEF Request
  <2> QED
    BY <1>1, <2>2, <2>3, ServesAlone
<1>5. CASE NotFound(t)
  BY <1>1, <1>5, PlainAlone DEF NotFound
<1>6. CASE To(t, [thread[t] EXCEPT !.at = "read", !.file.size = OnDisk(f).size])
  <2>1. PICK size : size = OnDisk(f).size
    OBVIOUS
  <2>2. size \in Nat
    BY <1>3, <2>1, DiskIsVersion, IInvParts
  <2>3. PICK next : next = [step EXCEPT !.at = "read", !.file = [step.file EXCEPT !.size = size]]
    OBVIOUS
  <2>4. StepInv(next)
    BY <1>1, <1>2, <2>2, <2>3, ReadStep
  <2>5. To(t, next)
    BY <1>2, <1>6, <2>1, <2>3
  <2>6. made' \in 0 .. MaxRequests
    BY <1>1, IInvParts DEF Still
  <2> QED
    BY <1>1, <2>4, <2>5, <2>6, Alone DEF Still
<1> QED
  BY <1>2, <1>4, <1>5, <1>6 DEF FindFile, Request

(* A file that is not shorter than stat said is whole, though the version  *)
(* may be another one by now.                                              *)
LEMMA ReadFileInv ==
  ASSUME IInv, NEW t \in Threads, ReadFile(t)
  PROVE  IInv'
<1>1. thread[t].at = "read" /\ Still /\ StepInv(thread[t])
  BY Busy DEF ReadFile, Still
<1>2. PICK step, path, f : step = thread[t] /\ path = step.request.path /\ f = m_fileMap[path]
  OBVIOUS
<1>3. path \in DOMAIN m_fileMap /\ f \in Range(m_fileMap) /\ step.file.size \in Nat
  BY <1>1, <1>2 DEF StepInv, Range
<1>4. PICK size, disk : size = step.file.size /\ disk = OnDisk(f).size
  OBVIOUS
<1>5. PICK bytes : bytes = IF f \in present THEN Min({size, disk}) ELSE -1
  OBVIOUS
<1>6. size \in Nat /\ disk \in Nat
  BY <1>3, <1>4, DiskIsVersion, IInvParts
<1>7. CASE NotFound(t)
  BY <1>1, <1>7, PlainAlone DEF NotFound
<1>8. CASE ~TooShort(bytes, size) /\
           To(t, [thread[t] EXCEPT !.at = "cache",
                    !.file = [version |-> OnDisk(f).version, size |-> size, bytes |-> bytes]])
  <2>1. ~ (bytes < size)
    BY <1>8 DEF TooShort
  <2>2. bytes = size /\ size <= disk
    <3>1. Min({size, disk}) = IF size <= disk THEN size ELSE disk
      BY <1>6, MinOfTwo
    <3> QED
      BY <1>5, <1>6, <2>1, <3>1
  <2>3. PICK version : version = OnDisk(f).version
    OBVIOUS
  <2>4. version \in DOMAIN versions[f] /\ disk = versions[f][version]
    BY <1>3, <1>4, <2>3, DiskIsVersion, IInvParts
  <2>5. PICK file : file = [version |-> version, size |-> size, bytes |-> bytes]
    OBVIOUS
  <2>6. file.version = version /\ file.size = size /\ file.bytes = bytes
    BY <2>5
  <2>7. FileWhole(path, file)
    BY <1>2, <1>3, <1>6, <2>2, <2>4, <2>6 DEF FileWhole
  <2>8. PICK next : next = [step EXCEPT !.at = "cache", !.file = file]
    OBVIOUS
  <2>9. StepInv(next)
    BY <1>1, <1>2, <2>7, <2>8, CacheStep
  <2>10. To(t, next)
    BY <1>2, <1>8, <2>3, <2>5, <2>8
  <2>11. made' \in 0 .. MaxRequests
    BY <1>1, IInvParts DEF Still
  <2> QED
    BY <1>1, <2>9, <2>10, <2>11, Alone DEF Still
<1> QED
  BY <1>2, <1>4, <1>5, <1>7, <1>8 DEF ReadFile, Request

(* What is put into the cache was whole.                                   *)
LEMMA CacheFileInv ==
  ASSUME IInv, NEW t \in Threads, CacheFile(t)
  PROVE  IInv'
<1>1. thread[t].at = "cache" /\ StepInv(thread[t])
  BY Busy DEF CacheFile
<1>2. PICK step, path, file : step = thread[t] /\ path = step.request.path /\ file = step.file
  OBVIOUS
<1>3. FileWhole(path, file)
  BY <1>1, <1>2 DEF StepInv
<1>4. UNCHANGED <<versions, present, log, made>> /\ Grows
  BY SameGrows DEF CacheFile
<1>5. ThreadsInv'
  <2>1. PICK what, next :
          what = [is |-> "200", file |-> file] /\ next = [step EXCEPT !.at = "done", !.answer = what]
    OBVIOUS
  <2>2. what.is = "200" /\ what.file = file
    BY <2>1
  <2>3. AnswerInv(step, what)
    BY <1>2, <1>3, <2>2 DEF AnswerInv
  <2>4. StepInv(next)
    BY <1>1, <1>2, <2>1, <2>3, AnswerStep
  <2>5. To(t, next)
    BY <1>2, <2>1 DEF CacheFile, Serves, Answers
  <2> QED
    BY <1>4, <2>4, <2>5, Moves, IInvParts
<1>6. \A p \in DOMAIN m_fileCache' : FileWhole(p, m_fileCache'[p])
  <2>1. \A p \in DOMAIN m_fileCache : FileWhole(p, m_fileCache[p])
    BY IInvParts DEF FilesInv
  <2>2. CASE m_fileCache' = m_fileCache
    BY <2>1, <2>2
  <2>3. CASE m_fileCache' = Cached(path, file)
    <3>1. /\ DOMAIN m_fileCache' = DOMAIN m_fileCache \cup {path}
          /\ \A p \in DOMAIN m_fileCache' :
               m_fileCache'[p] = IF p \in DOMAIN m_fileCache THEN m_fileCache[p] ELSE file
      BY <2>3 DEF Cached
    <3>2. ASSUME NEW p \in DOMAIN m_fileCache'
          PROVE  FileWhole(p, m_fileCache'[p])
      <4>1. CASE p \in DOMAIN m_fileCache
        <5>1. m_fileCache'[p] = m_fileCache[p]
          BY <3>1, <4>1
        <5> QED
          BY <2>1, <4>1, <5>1
      <4>2. CASE p \notin DOMAIN m_fileCache
        <5>1. m_fileCache'[p] = file /\ p = path
          BY <3>1, <4>2
        <5> QED
          BY <1>3, <5>1
      <4> QED
        BY <4>1, <4>2
    <3> QED
      BY <3>2
  <2> QED
    BY <1>2, <2>2, <2>3 DEF CacheFile, Request
<1>7. FilesInv'
  <2>1. ASSUME NEW p \in DOMAIN m_fileCache'
        PROVE  FileWhole(p, m_fileCache[p])'
    BY <1>4, <1>6 DEF FileWhole
  <2>2. FilesInv
    BY IInvParts
  <2> QED
    BY <1>4, <2>1, <2>2 DEF FilesInv
<1> QED
  BY <1>4, <1>5, <1>7 DEF IInv, ThreadsInv

(* A request begins at the present window.                                 *)
LEMMA MakeInv ==
  ASSUME IInv, NEW t \in Threads, NEW r \in Requests, Make(t, r)
  PROVE  IInv'
<1>1. PICK id, format, first, begun :
        /\ id = made' /\ format = printerForAccepts(r.accept) /\ first = getFirstSequence
        /\ begun = Len(log)
  OBVIOUS
<1>2. PICK step : step = [at |-> "route", id |-> id, request |-> r, format |-> format, since |-> first,
                          begun |-> begun, window |-> <<>>, todo |-> <<>>, file |-> NoFile, answer |-> [is |-> "none"]]
  OBVIOUS
<1>3. To(t, step)
  BY <1>1, <1>2 DEF Make
<1>4. DOMAIN step = Fields /\ step.at = "route" /\ step.request = r /\ step.since = first /\ step.file = NoFile
  BY <1>2 DEF Fields
<1>5. first \in 1 .. first
  BY <1>1, FirstInWindow, IInvParts
<1>6. StepInv(step)
  BY <1>1, <1>4, <1>5 DEF StepInv, Steps
<1>7. made' \in 0 .. MaxRequests
  BY IInvParts, RequestsAssumption DEF Make
<1> QED
  BY <1>3, <1>6, <1>7, Alone DEF Make

(* A thread is free again.                                                 *)
LEMMA FinishInv ==
  ASSUME IInv, NEW t \in Threads, Finish(t)
  PROVE  IInv'
<1>1. made' \in 0 .. MaxRequests
  BY IInvParts DEF Finish
<1> QED
  BY <1>1, Alone DEF Finish

(* An adapter makes the log longer.                                        *)
LEMMA ObserveInv ==
  ASSUME IInv, Observe
  PROVE  IInv'
<1>1. PICK e : log' = Append(log, e)
  BY DEF Observe
<1>2. log \in Seq(Range(log)) /\ Len(log) \in Nat
  BY IInvParts DEF IInv
<1>3. log' \in Seq(Range(log')) /\ Len(log)' \in Nat /\ Len(log) <= Len(log)'
  BY <1>1, <1>2, LogGrows
<1>4. Grows
  BY <1>2, <1>3 DEF Grows, Observe
<1>5. ThreadsInv'
  BY <1>4, ThreadsStay, IInvParts DEF Observe
<1>6. FilesInv' /\ made' \in 0 .. MaxRequests
  BY FilesStay, IInvParts DEF Observe
<1> QED
  BY <1>3, <1>5, <1>6 DEF IInv, ThreadsInv

(* A file that is written has one more version.                            *)
LEMMA WriteFileInv ==
  ASSUME IInv, NEW f \in Range(m_fileMap), NEW size \in Sizes, WriteFile(f, size)
  PROVE  IInv'
<1>1. /\ versions \in [Range(m_fileMap) -> Seq(Sizes)]
      /\ versions' = [versions EXCEPT ![f] = Append(versions[f], size)]
      /\ UNCHANGED <<m_fileCache, log, made, thread>>
  BY IInvParts DEF FilesInv, WriteFile
<1>2. PICK old, new : old = versions[f] /\ new = Append(old, size)
  OBVIOUS
<1>3. old \in Seq(Sizes)
  BY <1>1, <1>2
<1>4. /\ new \in Seq(Sizes) /\ new # <<>>
      /\ \A v \in DOMAIN old : v \in DOMAIN new /\ new[v] = old[v]
  BY <1>2, <1>3
<1>5. versions'[f] = new /\ \A g \in Range(m_fileMap) : g # f => versions'[g] = versions[g]
  BY <1>1, <1>2
<1>6. versions' \in [Range(m_fileMap) -> Seq(Sizes)]
  BY <1>1, <1>2, <1>4
<1>7. ASSUME NEW g \in Range(m_fileMap), NEW v \in DOMAIN versions[g]
      PROVE  v \in DOMAIN versions'[g] /\ versions'[g][v] = versions[g][v]
  BY <1>2, <1>4, <1>5
<1>8. Grows
  <2>1. Len(log) \in Nat /\ Len(log)' = Len(log)
    BY <1>1, IInvParts
  <2> QED
    BY <1>7, <2>1 DEF Grows
<1>9. ThreadsInv'
  BY <1>1, <1>8, ThreadsStay, IInvParts
<1>10. ASSUME NEW p \in DOMAIN m_fileCache'
       PROVE  FileWhole(p, m_fileCache[p])'
  <2>1. PICK file : file = m_fileCache[p]
    OBVIOUS
  <2>2. FileWhole(p, file)
    BY <1>1, <2>1, IInvParts DEF FilesInv
  <2>3. FileWhole(p, file)'
    BY <1>8, <2>2, FileWholeKept
  <2> QED
    BY <1>1, <2>1, <2>3 DEF FileWhole
<1>11. \A g \in Range(m_fileMap) : versions'[g] # <<>>
  BY <1>4, <1>5, IInvParts DEF FilesInv
<1>12. present' \subseteq Range(m_fileMap)
  BY IInvParts DEF FilesInv, WriteFile
<1>13. FilesInv'
  BY <1>6, <1>10, <1>11, <1>12 DEF FilesInv
<1> QED
  BY <1>1, <1>9, <1>13 DEF IInv, ThreadsInv

(* A file that is removed keeps the versions it has had.                   *)
LEMMA RemoveFileInv ==
  ASSUME IInv, NEW f \in Range(m_fileMap), RemoveFile(f)
  PROVE  IInv'
<1>1. UNCHANGED <<versions, m_fileCache, log, made, thread>> /\ present' \subseteq present
  BY DEF RemoveFile
<1>2. ThreadsInv'
  BY <1>1, SameGrows, ThreadsStay, IInvParts
<1>3. FilesInv'
  BY <1>1, IInvParts DEF FilesInv, FileWhole
<1> QED
  BY <1>1, <1>2, <1>3 DEF IInv, ThreadsInv

-----------------------------------------------------------------------------
(* The invariant.                                                          *)

(* The observations the agent starts with are a sequence.                  *)
LEMMA InitialLogHolds ==
  InitialLog \in Seq(InitialObservations)
<1>1. PICK S, n : S = InitialObservations /\ n = Cardinality(S)
  OBVIOUS
<1>2. n \in Nat /\ ExistsBijection(1 .. n, S)
  BY <1>1, FS_CardinalityType, RequestsAssumption
<1>3. \E f \in [1 .. n -> S] : IsInjective(f)
  BY <1>2 DEF ExistsBijection, Bijection, Injection, IsInjective
<1>4. InitialLog \in [1 .. n -> S]
  BY <1>1, <1>3 DEF InitialLog, SetToSeq
<1>5. PICK q : q = InitialLog
  OBVIOUS
<1>6. q \in Seq(S)
  BY <1>2, <1>4, <1>5
<1> QED
  BY <1>1, <1>5, <1>6

(* And one of what it has.                                                 *)
LEMMA InitialLogIsSeq ==
  InitialLog \in Seq(Range(InitialLog))
BY InitialLogHolds, InItsRange

(* The agent starts with no requests and an empty cache.                   *)
LEMMA InitInv ==
  Init => IInv
<1> SUFFICES ASSUME Init
             PROVE  IInv
  OBVIOUS
<1>1. versions \in [Range(m_fileMap) -> {<<s>> : s \in Sizes}]
  BY DEF Init
<1>2. ASSUME NEW f \in Range(m_fileMap)
      PROVE  versions[f] \in Seq(Sizes) /\ versions[f] # <<>>
  <2>1. PICK s \in Sizes : versions[f] = <<s>>
    BY <1>1
  <2>2. <<s>> \in Seq(Sizes) /\ <<s>> # <<>>
    OBVIOUS
  <2> QED
    BY <2>1, <2>2
<1>3. versions \in [Range(m_fileMap) -> Seq(Sizes)]
  BY <1>1, <1>2
<1>4. DOMAIN m_fileCache = {} /\ present = Range(m_fileMap)
  BY DEF Init
<1>5. FilesInv
  BY <1>2, <1>3, <1>4 DEF FilesInv
<1>6. log \in Seq(Range(log))
  BY InitialLogIsSeq DEF Init
<1>7. made \in 0 .. MaxRequests
  BY RequestsAssumption DEF Init
<1>8. DOMAIN thread = Threads /\ \A t \in Threads : thread[t] = Idle
  BY DEF Init
<1> QED
  BY <1>5, <1>6, <1>7, <1>8 DEF IInv

(* Every step keeps the invariant.                                         *)
LEMMA NextInv ==
  IInv /\ [Next]_vars => IInv'
<1> SUFFICES ASSUME IInv, [Next]_vars
             PROVE  IInv'
  OBVIOUS
<1>1. ASSUME NEW t \in Threads, Serve(t)
      PROVE  IInv'
  BY <1>1, HttpRequestInv, ReadWindowInv, CheckParamsInv, PutValueInv, SendCommandInv,
     PutEndsInv, AssetInv, FindFileInv, ReadFileInv, CacheFileInv DEF Serve
<1>2. ASSUME NEW t \in Threads, Finish(t) \/ \E r \in Requests : Make(t, r)
      PROVE  IInv'
  BY <1>2, FinishInv, MakeInv
<1>3. ASSUME NEW f \in Range(m_fileMap), RemoveFile(f) \/ \E size \in Sizes : WriteFile(f, size)
      PROVE  IInv'
  BY <1>3, RemoveFileInv, WriteFileInv
<1>4. CASE UNCHANGED vars
  <2>1. UNCHANGED <<versions, present, m_fileCache, log, made, thread>>
    BY <1>4 DEF vars
  <2>2. ThreadsInv'
    BY <2>1, SameGrows, ThreadsStay, IInvParts
  <2>3. FilesInv'
    BY <2>1, FilesStay, IInvParts
  <2> QED
    BY <2>1, <2>2, <2>3 DEF IInv, ThreadsInv
<1> QED
  BY <1>1, <1>2, <1>3, <1>4, ObserveInv DEF Next

(* In every behaviour of the requests, for every set of threads, requests, *)
(* devices and files, the invariant holds.                                 *)
THEOREM Invariance == Spec => []IInv
BY InitInv, NextInv, PTL DEF Spec

(* A file that handleFile serves has the bytes its Content-Length says,    *)
(* and all of them are of one version of the file.                         *)
THEOREM FilesCorrect == Spec => []ServedFileWhole
<1>1. IInv => ServedFileWhole
  <2> SUFFICES ASSUME IInv
               PROVE  ServedFileWhole
    OBVIOUS
  <2>1. FilesInv /\ Len(log) \in Nat /\ made \in 0 .. MaxRequests
    BY IInvParts
  <2>2. ASSUME NEW f \in DOMAIN versions
        PROVE  ToSet(versions[f]) \subseteq Sizes
    <3>1. versions[f] \in Seq(Sizes)
      BY <2>1 DEF FilesInv
    <3> QED
      BY <3>1 DEF ToSet
  <2>3. present \subseteq DOMAIN versions /\ DOMAIN m_fileCache \subseteq DOMAIN m_fileMap
    BY <2>1 DEF FilesInv, FileWhole
  <2>4. ASSUME NEW t \in Threads, thread[t] # Idle
        PROVE  thread[t].at \in Steps /\ thread[t].since \in 1 .. m_sequence
    <3>1. StepInv(thread[t])
      BY <2>4 DEF IInv
    <3>2. PICK first, since, next : first = getFirstSequence /\ since = thread[t].since /\ next = m_sequence
      OBVIOUS
    <3>3. since \in 1 .. first /\ thread[t].at \in Steps
      BY <3>1, <3>2 DEF StepInv
    <3>4. first \in 1 .. next /\ next \in Nat \ {0}
      BY <2>1, <3>2, FirstInWindow
    <3>5. since \in 1 .. next
      BY <3>3, <3>4
    <3> QED
      BY <3>2, <3>3, <3>5
  <2>5. TypeOK
    BY <2>1, <2>2, <2>3, <2>4 DEF TypeOK, Steps
  <2>6. ASSUME NEW t \in Threads, thread[t].at = "done", thread[t].answer.is = "200"
        PROVE  FileWhole(Request(t).path, thread[t].answer.file)
    BY <2>6, Busy DEF StepInv, Request
  <2> QED
    BY <2>5, <2>6 DEF ServedFileWhole, FileWhole
<1> QED
  BY <1>1, Invariance, PTL

(* What a current or a sample is answered with was asked for, and its      *)
(* sequence number was in the buffer between the request and the check,    *)
(* though handleCall reads the window without a lock.                      *)
THEOREM AcceptedCorrect == Spec => []AcceptedInRange
<1>1. IInv => AcceptedInRange
  <2> SUFFICES ASSUME IInv, NEW t \in Threads, thread[t].at = "done", thread[t].answer.is = "data"
               PROVE  AskedInRange(Request(t), thread[t].since, thread[t].answer.asked,
                                   thread[t].answer.until)
    BY DEF AcceptedInRange
  <2>1. StepInv(thread[t])
    BY Busy
  <2> QED
    BY <2>1 DEF StepInv, Request
<1> QED
  BY <1>1, Invariance, PTL

-----------------------------------------------------------------------------
(* What each request has put, sent and stored.                             *)

(* A sequence of what the adapters and the first n requests have made.     *)
Belongs(seq, n) == seq \in Seq(Range(seq)) /\ \A i \in DOMAIN seq : seq[i].by \in 0 .. n

ToSend(r) ==
  [i \in DOMAIN Devices[PutDevice(r)].adapters |->
    [j \in DOMAIN r.keys |->
       [key |-> r.keys[j], adapter |-> Devices[PutDevice(r)].adapters[i]]]]

(* What sendCommand has been called with.                                  *)
Called(commands) ==
  [i \in DOMAIN commands |-> [key |-> commands[i].key, adapter |-> commands[i].adapter]]

PutsUpTo(r, n, left) == Subsequence(r.keys, {i \in 1 .. n : Puts(r, r.keys[i])} \ left)

IsPut(r) == PutAllowed(r) /\ PutDevice(r) \in DOMAIN Devices

(* The first n parameters of a put have added these observations, and left *)
(* out nothing but data sets.                                              *)
HasPut(r, n, added) ==
  \E left \in SUBSET Sets(r) :
    (\A i \in left : i <= n) /\ Keys(added) = PutsUpTo(r, n, left)

(* A put that has come to the parameters todo.                             *)
AtPut(r, todo, added) ==
  /\ IsPut(r) /\ Word(r, "_type") # "command"
  /\ todo \in Seq(ToSet(r.keys)) /\ EndOf(todo, r.keys)
  /\ HasPut(r, Len(r.keys) - Len(todo), added)
  /\ \A i \in DOMAIN added : added[i].device = PutDevice(r)

(* A command that has come to those that are still to be sent.             *)
AtCommand(r, todo, commands) ==
  /\ IsPut(r) /\ Word(r, "_type") = "command"
  /\ todo \in Seq(Range(todo))
  /\ \A i \in DOMAIN todo : todo[i] = [key |-> todo[i].key, adapter |-> todo[i].adapter]
  /\ Called(commands) \o todo = FlattenSeq(ToSend(r))

(* What a request has made that is answered.                               *)
AtEnd(r, success, added, commands, assets) ==
  IF success THEN PutAllowed(r) /\ (~ IsAsset(r) => Exact(r, added, commands))
  ELSE added = <<>> /\ commands = <<>> /\ assets = <<>>

(* A request at its step s, and what it has made.                          *)
AtWork(s, added, commands, assets) ==
  /\ s.at = "asset" => MethodAccepted(s.request) /\ IsAsset(s.request)
  /\ s.at = "put" => AtPut(s.request, s.todo, added)
  /\ s.at = "command" => AtCommand(s.request, s.todo, commands)
  /\ s.at \notin {"put", "done"} => added = <<>>
  /\ s.at \notin {"command", "done"} => commands = <<>>
  /\ s.at # "done" => assets = <<>>
  /\ s.at = "done" => AtEnd(s.request, s.answer.is = "success", added, commands, assets)

(* The data sets among the first n parameters of a put have had what it    *)
(* puts.                                                                   *)
EffectiveUpTo(seq, r, n, begun) == \A i \in Sets(r) : i <= n => Effective(seq, r, i, begun)

(* The data sets of a request at its step s.                               *)
AtSets(s, seq) ==
  /\ s.begun \in 0 .. Len(seq)
  /\ s.at = "put" => EffectiveUpTo(seq, s.request, Len(s.request.keys) - Len(s.todo), s.begun)
  /\ s.at = "done" /\ s.answer.is = "success" /\ ~ IsAsset(s.request)
       /\ Word(s.request, "_type") # "command" =>
         EffectiveUpTo(seq, s.request, Len(s.request.keys), s.begun)

Worker(s) ==
  /\ s.id \in 1 .. made
  /\ AtWork(s, Made(s.id, log), Made(s.id, sent), Made(s.id, stored))
  /\ AtSets(s, log)

(* The requests are told apart by their numbers: each has made only what   *)
(* its step says.                                                          *)
PutInv ==
  /\ Belongs(log, made) /\ Belongs(sent, made) /\ Belongs(stored, made)
  /\ \A t \in Threads : thread[t] # Idle => Worker(thread[t])
  /\ \A t, u \in Threads :
       t # u /\ thread[t] # Idle /\ thread[u] # Idle => thread[t].id # thread[u].id

(* A sequence grows by what one of the requests makes.                     *)
GrowsBy(id, seq, next) == next = seq \/ \E e : e.by = id /\ next = Append(seq, e)

(* What is in a data set after n observations stays so when others follow. *)
LEMMA HeldKept ==
  ASSUME NEW S, NEW seq \in Seq(S), NEW id, NEW next, GrowsBy(id, seq, next),
         NEW n \in 0 .. Len(seq), NEW d, NEW key, NEW entry, Held(seq, n, d, key, entry)
  PROVE  Held(next, n, d, key, entry)
<1>1. \A i \in 1 .. n : next[i] = seq[i]
  BY DEF GrowsBy
<1>2. PICK i \in 1 .. n :
        /\ seq[i].device = d /\ seq[i].key = key /\ entry \in seq[i].set
        /\ \A j \in i + 1 .. n :
             seq[j].device = d /\ seq[j].key = key =>
               ~ seq[j].unavailable /\ \A e \in seq[j].set : e.name # entry.name
  BY DEF Held
<1>3. \A j \in i + 1 .. n : next[j] = seq[j]
  BY <1>1, <1>2
<1> QED
  BY <1>1, <1>2, <1>3 DEF Held

(* What has been in effect since there were begun observations has been.   *)
LEMMA EffectiveKept ==
  ASSUME NEW S, NEW seq \in Seq(S), NEW id, NEW next, GrowsBy(id, seq, next),
         NEW begun \in 0 .. Len(seq), NEW r, NEW i, Effective(seq, r, i, begun)
  PROVE  Effective(next, r, i, begun)
<1>1. PICK n \in begun .. Len(seq) : \A e \in r.query[r.keys[i]].set :
        Held(seq, n, PutDevice(r), r.keys[i], e)
  BY DEF Effective
<1>2. Len(next) \in Nat /\ Len(seq) \in Nat /\ Len(seq) <= Len(next)
  BY LogGrows DEF GrowsBy
<1>3. n \in 0 .. Len(seq) /\ n \in begun .. Len(next)
  BY <1>1, <1>2
<1>4. \A e \in r.query[r.keys[i]].set : Held(next, n, PutDevice(r), r.keys[i], e)
  BY <1>1, <1>3, HeldKept
<1> QED
  BY <1>3, <1>4 DEF Effective

(* So the data sets of a request stay as they should be.                   *)
LEMMA AtSetsKept ==
  ASSUME NEW S, NEW seq \in Seq(S), NEW id, NEW next, GrowsBy(id, seq, next), NEW s, AtSets(s, seq)
  PROVE  AtSets(s, next)
<1>1. Len(next) \in Nat /\ Len(seq) \in Nat /\ Len(seq) <= Len(next)
  BY LogGrows DEF GrowsBy
<1>2. PICK begun : begun = s.begun
  OBVIOUS
<1>3. begun \in 0 .. Len(seq) /\ begun \in 0 .. Len(next)
  BY <1>1, <1>2 DEF AtSets
<1>4. ASSUME NEW r, NEW n, EffectiveUpTo(seq, r, n, begun)
      PROVE  EffectiveUpTo(next, r, n, begun)
  <2>1. \A i : Effective(seq, r, i, begun) => Effective(next, r, i, begun)
    BY <1>3, EffectiveKept
  <2> QED
    BY <1>4, <2>1 DEF EffectiveUpTo
<1> QED
  BY <1>2, <1>3, <1>4 DEF AtSets

(* An observation of the entries that change a data set brings all that    *)
(* were put into effect.                                                   *)
LEMMA ChangesTakeEffect ==
  ASSUME NEW S, NEW seq \in Seq(S), NEW d, NEW key, NEW entries,
         \A e, f \in entries : e.name = f.name => e = f,
         NEW o, o.device = d, o.key = key, ~ o.unavailable,
         o.set = {e \in entries : ~ Held(seq, Len(seq), d, key, e)},
         NEW entry \in entries
  PROVE  Held(Append(seq, o), Len(seq) + 1, d, key, entry)
<1>1. PICK next, n : next = Append(seq, o) /\ n = Len(seq)
  OBVIOUS
<1>2. /\ n \in Nat /\ next[n + 1] = o /\ \A i \in 1 .. n : next[i] = seq[i]
  BY <1>1
<1>3. CASE entry \in o.set
  <2>1. n + 1 \in 1 .. n + 1 /\ (n + 1) + 1 .. n + 1 = {}
    BY <1>2
  <2> QED
    BY <1>1, <1>2, <1>3, <2>1 DEF Held
<1>4. CASE entry \notin o.set
  <2>1. Held(seq, n, d, key, entry)
    BY <1>1, <1>4
  <2>2. PICK i \in 1 .. n :
          /\ seq[i].device = d /\ seq[i].key = key /\ entry \in seq[i].set
          /\ \A j \in i + 1 .. n :
               seq[j].device = d /\ seq[j].key = key =>
                 ~ seq[j].unavailable /\ \A e \in seq[j].set : e.name # entry.name
    BY <2>1 DEF Held
  <2>3. \A e \in o.set : e.name # entry.name
    BY <1>4
  <2>4. ASSUME NEW j \in i + 1 .. n + 1, next[j].device = d, next[j].key = key
        PROVE  ~ next[j].unavailable /\ \A e \in next[j].set : e.name # entry.name
    <3>1. CASE j = n + 1
      BY <1>2, <2>3, <3>1
    <3>2. CASE j # n + 1
      <4>1. j \in i + 1 .. n /\ j \in 1 .. n
        BY <1>2, <2>2, <2>4, <3>2
      <4>2. next[j] = seq[j]
        BY <1>2, <4>1
      <4> QED
        BY <2>2, <2>4, <4>1, <4>2
    <3> QED
      BY <3>1, <3>2
  <2>5. i \in 1 .. n + 1 /\ next[i] = seq[i]
    BY <1>2, <2>2
  <2> QED
    BY <1>1, <2>2, <2>4, <2>5 DEF Held
<1> QED
  BY <1>3, <1>4

(* What a request has made is a part of the sequence.                      *)
LEMMA MadeType ==
  ASSUME NEW S, NEW seq \in Seq(S), NEW id
  PROVE  Made(id, seq) \in Seq(S)
<1>1. {i \in DOMAIN seq : seq[i].by = id} \in SUBSET (1 .. Len(seq))
  OBVIOUS
<1> QED
  BY <1>1, SubsequenceSelects DEF Made

(* What another request adds is not in it.                                 *)
LEMMA MadeByOther ==
  ASSUME NEW S, NEW seq \in Seq(S), NEW id, NEW e \in S, e.by # id
  PROVE  Made(id, Append(seq, e)) = Made(id, seq)
<1> DEFINE K == {i \in DOMAIN seq : seq[i].by = id}
<1>1. PICK next : next = Append(seq, e)
  OBVIOUS
<1>2. /\ DOMAIN next = 1 .. Len(seq) + 1 /\ DOMAIN seq = 1 .. Len(seq) /\ Len(seq) \in Nat
      /\ next[Len(seq) + 1] = e /\ \A i \in DOMAIN seq : next[i] = seq[i]
  BY <1>1
<1>3. {i \in DOMAIN next : next[i].by = id} = K
  BY <1>2
<1>4. K \in SUBSET (1 .. Len(seq))
  BY <1>2
<1> HIDE DEF K
<1>5. Subsequence(next, K) = Subsequence(seq, K)
  BY <1>1, <1>4, SubsequenceOfAppend
<1>6. Made(id, next) = Subsequence(next, K)
  BY <1>3 DEF Made
<1>7. Made(id, seq) = Subsequence(seq, K)
  BY DEF Made, K
<1> QED
  BY <1>1, <1>5, <1>6, <1>7

(* What it adds itself is at its end.                                      *)
LEMMA MadeByOne ==
  ASSUME NEW S, NEW seq \in Seq(S), NEW id, NEW e \in S, e.by = id
  PROVE  Made(id, Append(seq, e)) = Append(Made(id, seq), e)
<1> DEFINE K == {i \in DOMAIN seq : seq[i].by = id}
<1>1. PICK next, n : next = Append(seq, e) /\ n = Len(seq) + 1
  OBVIOUS
<1>2. /\ DOMAIN next = 1 .. n /\ DOMAIN seq = 1 .. n - 1 /\ n \in Nat /\ Len(next) = n
      /\ next \in Seq(S) /\ next[n] = e /\ \A i \in DOMAIN seq : next[i] = seq[i]
      /\ n \in 1 .. n
  BY <1>1
<1>3. {i \in DOMAIN next : next[i].by = id} = K \cup {n}
  BY <1>2
<1>4. K \in SUBSET (1 .. Len(seq)) /\ K \in SUBSET (1 .. Len(next)) /\ \A j \in K : j < n
  BY <1>1, <1>2
<1> HIDE DEF K
<1>5. Subsequence(next, K) = Subsequence(seq, K)
  BY <1>1, <1>4, SubsequenceOfAppend
<1>6. Subsequence(next, K \cup {n}) = Append(Subsequence(next, K), next[n])
  BY <1>2, <1>4, SubsequenceAppend
<1>7. Made(id, next) = Subsequence(next, K \cup {n})
  BY <1>3 DEF Made
<1>8. Made(id, seq) = Subsequence(seq, K)
  BY DEF Made, K
<1> QED
  BY <1>1, <1>2, <1>5, <1>6, <1>7, <1>8

(* A sequence that grows stays one of what was made, and of what the       *)
(* others have made nothing changes.                                       *)
LEMMA Growth ==
  ASSUME NEW n \in Nat, NEW m \in Nat, n <= m, NEW seq, Belongs(seq, n), NEW id \in 0 .. m, NEW next,
         GrowsBy(id, seq, next)
  PROVE  Belongs(next, m) /\ \A other : other # id => Made(other, next) = Made(other, seq)
<1>1. CASE next = seq
  BY <1>1 DEF Belongs
<1>2. ASSUME NEW e, e.by = id, next = Append(seq, e)
      PROVE  Belongs(next, m) /\ \A other : other # id => Made(other, next) = Made(other, seq)
  <2>1. PICK S : S = Range(seq) \cup {e}
    OBVIOUS
  <2>2. seq \in Seq(S) /\ e \in S
    BY <2>1 DEF Belongs
  <2>3. \A other : other # id => Made(other, next) = Made(other, seq)
    BY <1>2, <2>2, MadeByOther
  <2>4. next \in Seq(S)
    BY <1>2, <2>2
  <2>5. next \in Seq(Range(next))
    BY <2>4, InItsRange
  <2>6. ASSUME NEW i \in DOMAIN next
        PROVE  next[i].by \in 0 .. m
    <3>1. next[i] = e \/ (i \in DOMAIN seq /\ next[i] = seq[i])
      BY <1>2, <2>2, <2>6
    <3>2. i \in DOMAIN seq => seq[i].by \in 0 .. n
      BY DEF Belongs
    <3> QED
      BY <1>2, <3>1, <3>2
  <2> QED
    BY <2>3, <2>5, <2>6 DEF Belongs
<1> QED
  BY <1>1, <1>2 DEF GrowsBy

(* Nobody has made anything yet of a number that was not given.            *)
LEMMA MadeNothing ==
  ASSUME NEW n \in Nat, NEW seq, Belongs(seq, n)
  PROVE  Made(n + 1, seq) = <<>>
<1>1. \A i \in DOMAIN seq : seq[i].by # n + 1
  BY DEF Belongs
<1>2. {i \in DOMAIN seq : seq[i].by = n + 1} = {} /\ seq \in Seq(Range(seq))
  BY <1>1 DEF Belongs
<1> QED
  BY <1>2, SubsequenceEmpty DEF Made

(* The sequences grow by what the request id makes.                        *)
AllGrow(id) == GrowsBy(id, log, log') /\ GrowsBy(id, sent, sent') /\ GrowsBy(id, stored, stored')

(* The work of the other requests stays as it was.                         *)
LEMMA OthersStay ==
  ASSUME IInv, PutInv, made \in Nat, made' \in Nat, made <= made', NEW id \in 0 .. made', AllGrow(id)
  PROVE  /\ Belongs(log, made)' /\ Belongs(sent, made)' /\ Belongs(stored, made)'
         /\ \A s : s.id # id /\ Worker(s) => Worker(s)'
<1>1. /\ Belongs(log', made') /\ \A other : other # id => Made(other, log') = Made(other, log)
      /\ Belongs(sent', made') /\ \A other : other # id => Made(other, sent') = Made(other, sent)
      /\ Belongs(stored', made') /\ \A other : other # id => Made(other, stored') = Made(other, stored)
  BY Growth DEF PutInv, AllGrow
<1>2. ASSUME NEW s, s.id # id, Worker(s)
      PROVE  Worker(s)'
  <2>1. s.id \in 1 .. made'
    BY <1>2 DEF Worker
  <2>2. AtWork(s, Made(s.id, log'), Made(s.id, sent'), Made(s.id, stored'))
    BY <1>1, <1>2 DEF Worker
  <2>3. AtSets(s, log')
    <3>1. log \in Seq(Range(log))
      BY DEF IInv
    <3>2. AtSets(s, log) /\ GrowsBy(id, log, log')
      BY <1>2 DEF Worker, AllGrow
    <3> QED
      BY <3>1, <3>2, AtSetsKept
  <2> QED
    BY <2>1, <2>2, <2>3 DEF Worker
<1> QED
  BY <1>1, <1>2 DEF Belongs

(* A request goes on, makes what its next step says, and the others stay.  *)
LEMMA Works ==
  ASSUME IInv, PutInv, ThreadsInv, NEW t \in Threads, NEW next, To(t, next),
         made \in Nat, made' = made \/ (made' = made + 1 /\ thread[t] = Idle),
         NEW id \in 1 .. made', thread[t] = Idle => id = made' /\ made' = made + 1,
         thread[t] # Idle => thread[t].id = id,
         AllGrow(id), next = Idle \/ (next.id = id /\ Worker(next)')
  PROVE  PutInv'
<1>1. made' \in Nat /\ made <= made' /\ id \in 0 .. made'
  OBVIOUS
<1>2. /\ Belongs(log, made)' /\ Belongs(sent, made)' /\ Belongs(stored, made)'
      /\ \A s : s.id # id /\ Worker(s) => Worker(s)'
  BY <1>1, OthersStay
<1>3. thread' = [thread EXCEPT ![t] = next] /\ DOMAIN thread = Threads
  BY DEF To, ThreadsInv
<1>4. thread'[t] = next /\ \A u \in Threads : u # t => thread'[u] = thread[u]
  BY <1>3
<1>5. ASSUME NEW u \in Threads, u # t, thread[u] # Idle
      PROVE  thread[u].id # id /\ thread[u].id \in 1 .. made
  <2>1. Worker(thread[u])
    BY <1>5 DEF PutInv
  <2>2. thread[u].id \in 1 .. made
    BY <2>1 DEF Worker
  <2>3. thread[t] # Idle => thread[t].id # thread[u].id
    BY <1>5 DEF PutInv
  <2> QED
    BY <2>2, <2>3
<1>6. ASSUME NEW u \in Threads, thread'[u] # Idle
      PROVE  Worker(thread[u])'
  <2>1. PICK s : s = thread'[u]
    OBVIOUS
  <2>2. CASE u = t
    <3>1. s = next
      BY <1>4, <2>1, <2>2
    <3> QED
      BY <1>6, <2>1, <3>1 DEF Worker
  <2>3. CASE u # t
    <3>1. s = thread[u] /\ s # Idle
      BY <1>4, <1>6, <2>1, <2>3
    <3>2. s.id # id /\ Worker(s)
      BY <1>5, <2>3, <3>1 DEF PutInv
    <3>3. Worker(s)'
      BY <1>2, <3>2
    <3> QED
      BY <2>1, <3>3 DEF Worker
  <2> QED
    BY <2>2, <2>3
<1>7. ASSUME NEW u \in Threads, NEW v \in Threads, u # v, thread'[u] # Idle, thread'[v] # Idle
      PROVE  thread'[u].id # thread'[v].id
  <2>1. CASE u = t
    BY <1>4, <1>5, <1>7, <2>1
  <2>2. CASE v = t
    BY <1>4, <1>5, <1>7, <2>2
  <2>3. CASE u # t /\ v # t
    <3>1. thread'[u] = thread[u] /\ thread'[v] = thread[v]
      BY <1>4, <2>3
    <3> QED
      BY <1>7, <3>1 DEF PutInv
  <2> QED
    BY <2>1, <2>2, <2>3
<1> QED
  BY <1>2, <1>6, <1>7 DEF PutInv

-----------------------------------------------------------------------------
(* Steps that make nothing.                                                *)

(* What was made does not grow by nothing.                                 *)
LEMMA NothingGrows ==
  ASSUME NEW id, UNCHANGED <<log, sent, stored>>
  PROVE  AllGrow(id)
BY DEF AllGrow, GrowsBy

(* The step of a thread that serves a request.                             *)
LEMMA BusyFacts ==
  ASSUME IInv, PutInv, NEW t \in Threads, thread[t].at # "idle"
  PROVE  /\ StepInv(thread[t]) /\ Worker(thread[t]) /\ thread[t] # Idle
         /\ DOMAIN thread[t] = Fields /\ thread[t].id \in 1 .. made /\ made \in Nat
<1>1. Idle.at = "idle"
  BY DEF Idle
<1>2. thread[t] # Idle
  BY <1>1
<1>3. Worker(thread[t])
  BY <1>2 DEF PutInv
<1>4. StepInv(thread[t])
  BY Busy
<1>5. made \in Nat
  BY IInvParts, RequestsAssumption
<1> QED
  BY <1>2, <1>3, <1>4, <1>5 DEF Worker, StepInv

(* A thread goes on with the same request and nothing is made.             *)
LEMMA QuietWorks ==
  ASSUME IInv, PutInv, NEW t \in Threads, thread[t].at # "idle", NEW next, To(t, next),
         UNCHANGED <<log, sent, stored, made>>, next.id = thread[t].id,
         \A added, commands, assets :
           AtWork(thread[t], added, commands, assets) => AtWork(next, added, commands, assets),
         AtSets(thread[t], log) => AtSets(next, log)
  PROVE  PutInv'
<1>1. PICK s, id : s = thread[t] /\ id = s.id
  OBVIOUS
<1>2. Worker(s) /\ s # Idle /\ id \in 1 .. made /\ made \in Nat /\ next.id = id
  BY <1>1, BusyFacts
<1>3. AtWork(next, Made(id, log), Made(id, sent), Made(id, stored))
  BY <1>1, <1>2 DEF Worker
<1>4. Worker(next)'
  <2>1. AtSets(next, log)
    BY <1>1, <1>2 DEF Worker
  <2> QED
    BY <1>2, <1>3, <2>1 DEF Worker
<1>5. AllGrow(id)
  BY NothingGrows
<1>6. ThreadsInv
  BY IInvParts
<1> QED
  BY <1>1, <1>2, <1>4, <1>5, <1>6, Works

(* A request that has made nothing goes on, and still has made nothing.    *)
LEMMA QuietMove ==
  ASSUME IInv, PutInv, NEW t \in Threads, thread[t].at \notin {"idle", "put", "command", "done"},
         NEW next, To(t, next), UNCHANGED <<log, sent, stored, made>>,
         next.id = thread[t].id, next.request = thread[t].request, next.begun = thread[t].begun,
         next.at \notin {"put", "command"},
         next.at = "asset" => MethodAccepted(next.request) /\ IsAsset(next.request),
         next.at = "done" => next.answer.is # "success"
  PROVE  PutInv'
<1>1. ASSUME NEW added, NEW commands, NEW assets, AtWork(thread[t], added, commands, assets)
      PROVE  AtWork(next, added, commands, assets)
  <2>1. added = <<>> /\ commands = <<>> /\ assets = <<>>
    BY <1>1 DEF AtWork
  <2>2. next.at = "done" => AtEnd(next.request, next.answer.is = "success", added, commands, assets)
    BY <2>1 DEF AtEnd
  <2> QED
    BY <2>1, <2>2 DEF AtWork
<1>2. AtSets(thread[t], log) => AtSets(next, log)
  BY DEF AtSets
<1> QED
  BY <1>1, <1>2, QuietWorks

(* So does one that is answered, but not with success.                     *)
LEMMA AnswerMove ==
  ASSUME IInv, PutInv, NEW t \in Threads, thread[t].at \notin {"idle", "put", "command", "done"},
         NEW what, Answers(t, what), what.is # "success", UNCHANGED <<log, sent, stored, made>>
  PROVE  PutInv'
<1>1. PICK s, next : s = thread[t] /\ next = [s EXCEPT !.at = "done", !.answer = what]
  OBVIOUS
<1>2. DOMAIN s = Fields /\ {"at", "answer", "request", "id", "begun"} \subseteq Fields
  BY <1>1, BusyFacts DEF Fields
<1>3. /\ next.at = "done" /\ next.answer = what /\ next.request = s.request /\ next.id = s.id
      /\ next.begun = s.begun
  BY <1>1, <1>2
<1>4. To(t, next)
  BY <1>1 DEF Answers
<1> QED
  BY <1>1, <1>3, <1>4, QuietMove

(* The kinds of such answers.                                              *)
LEMMA PlainMove ==
  ASSUME IInv, PutInv, NEW t \in Threads, thread[t].at \notin {"idle", "put", "command", "done"},
         UNCHANGED <<log, sent, stored, made>>,
         \/ \E code : printError(t, code)
         \/ \E of : Answers(t, [is |-> "probe", of |-> of])
         \/ \E asked, until : Answers(t, [is |-> "data", asked |-> asked, until |-> until])
         \/ \E file : Serves(t, file)
         \/ NotFound(t) \/ Answers(t, [is |-> "assets"]) \/ Answers(t, [is |-> "escaped"])
         \/ Answers(t, [is |-> "failure"])
  PROVE  PutInv'
<1>1. SUFFICES ASSUME NEW what, what.is # "success", Answers(t, what)
               PROVE  PutInv'
  <2>1. ASSUME NEW code, printError(t, code)
        PROVE  PutInv'
    <3>1. PICK what : what = [is |-> "error", code |-> code]
      OBVIOUS
    <3>2. what.is = "error"
      BY <3>1
    <3> QED
      BY <1>1, <2>1, <3>1, <3>2 DEF printError
  <2>2. ASSUME NEW of, Answers(t, [is |-> "probe", of |-> of])
        PROVE  PutInv'
    <3>1. PICK what : what = [is |-> "probe", of |-> of]
      OBVIOUS
    <3>2. what.is = "probe"
      BY <3>1
    <3> QED
      BY <1>1, <2>2, <3>1, <3>2
  <2>3. ASSUME NEW asked, NEW until, Answers(t, [is |-> "data", asked |-> asked, until |-> until])
        PROVE  PutInv'
    <3>1. PICK what : what = [is |-> "data", asked |-> asked, until |-> until]
      OBVIOUS
    <3>2. what.is = "data"
      BY <3>1
    <3> QED
      BY <1>1, <2>3, <3>1, <3>2
  <2>4. ASSUME NEW file, Serves(t, file)
        PROVE  PutInv'
    <3>1. PICK what : what = [is |-> "200", file |-> file]
      OBVIOUS
    <3>2. what.is = "200"
      BY <3>1
    <3> QED
      BY <1>1, <2>4, <3>1, <3>2 DEF Serves
  <2>5. ASSUME NEW is \in {"404", "assets", "escaped", "failure"}, Answers(t, [is |-> is])
        PROVE  PutInv'
    <3>1. PICK what : what = [is |-> is]
      OBVIOUS
    <3>2. what.is = is /\ is # "success"
      BY <3>1
    <3> QED
      BY <1>1, <2>5, <3>1, <3>2
  <2> QED
    BY <2>1, <2>2, <2>3, <2>4, <2>5 DEF NotFound
<1> QED
  BY <1>1, AnswerMove

(* httpRequest sends a request on.                                         *)
LEMMA GoesMove ==
  ASSUME IInv, PutInv, NEW t \in Threads, thread[t].at \notin {"idle", "put", "command", "done"},
         NEW at \in {"first", "asset", "file"}, Goes(t, at),
         at = "asset" => MethodAccepted(Request(t)) /\ IsAsset(Request(t)),
         UNCHANGED <<log, sent, stored, made>>
  PROVE  PutInv'
<1>1. PICK s, next : s = thread[t] /\ next = [s EXCEPT !.at = at]
  OBVIOUS
<1>2. DOMAIN s = Fields /\ {"at", "request", "id", "begun"} \subseteq Fields
  BY <1>1, BusyFacts DEF Fields
<1>3. next.at = at /\ next.request = s.request /\ next.id = s.id /\ next.begun = s.begun
  BY <1>1, <1>2
<1>4. To(t, next)
  BY <1>1 DEF Goes
<1>5. /\ next.at \notin {"put", "command", "done"}
      /\ next.at = "asset" => MethodAccepted(next.request) /\ IsAsset(next.request)
  BY <1>1, <1>3 DEF Request
<1> QED
  BY <1>1, <1>3, <1>4, <1>5, QuietMove

(* The window is read, the file is found or read.                          *)
LEMMA FieldMove ==
  ASSUME IInv, PutInv, NEW t \in Threads, thread[t].at \notin {"idle", "put", "command", "done"},
         NEW at \in {"check", "read", "cache"}, NEW field \in {"window", "file"}, NEW value,
         NEW next, next = [[thread[t] EXCEPT !.at = at] EXCEPT ![field] = value], To(t, next),
         UNCHANGED <<log, sent, stored, made>>
  PROVE  PutInv'
<1>1. PICK s, base : s = thread[t] /\ base = [s EXCEPT !.at = at]
  OBVIOUS
<1>2. DOMAIN s = Fields /\ {"at", "request", "id", "begun", "window", "file"} \subseteq Fields
  BY <1>1, BusyFacts DEF Fields
<1>3. /\ DOMAIN base = Fields /\ base.at = at /\ base.request = s.request /\ base.id = s.id
      /\ base.begun = s.begun
  BY <1>1, <1>2
<1>4. /\ next = [base EXCEPT ![field] = value] /\ field # "at" /\ field # "request" /\ field # "id"
      /\ field # "begun"
  BY <1>1
<1>5. next.at = at /\ next.request = s.request /\ next.id = s.id /\ next.begun = s.begun
  BY <1>2, <1>3, <1>4
<1>6. next.at \notin {"put", "command", "done", "asset"}
  BY <1>5
<1> QED
  BY <1>1, <1>5, <1>6, QuietMove

(* One end of the window.                                                  *)
LEMMA ReadWindowPut ==
  ASSUME IInv, PutInv, NEW t \in Threads, ReadWindow(t)
  PROVE  PutInv'
<1>1. PICK read : To(t, [thread[t] EXCEPT !.at = "check", !.window = read])
  BY DEF ReadWindow
<1>2. /\ thread[t].at \notin {"idle", "put", "command", "done"}
      /\ UNCHANGED <<log, sent, stored, made>>
  BY DEF ReadWindow
<1>3. PICK at, field : at = "check" /\ field = "window"
  OBVIOUS
<1>4. PICK next : next = [[thread[t] EXCEPT !.at = at] EXCEPT ![field] = read]
  OBVIOUS
<1>5. next = [thread[t] EXCEPT !.at = "check", !.window = read]
  BY <1>3, <1>4
<1>6. To(t, next) /\ at \in {"check", "read", "cache"} /\ field \in {"window", "file"}
  BY <1>1, <1>3, <1>5
<1> QED
  BY <1>2, <1>4, <1>6, FieldMove

(* The other end, and the checks.                                          *)
LEMMA CheckParamsPut ==
  ASSUME IInv, PutInv, NEW t \in Threads, CheckParams(t)
  PROVE  PutInv'
<1>1. /\ thread[t].at \notin {"idle", "put", "command", "done"}
      /\ UNCHANGED <<log, sent, stored, made>>
  BY DEF CheckParams
<1>2. \/ \E code : printError(t, code)
      \/ \E asked, until : Answers(t, [is |-> "data", asked |-> asked, until |-> until])
  BY DEF CheckParams
<1> QED
  BY <1>1, <1>2, PlainMove

(* stat of a file, or the cached one.                                      *)
LEMMA FindFilePut ==
  ASSUME IInv, PutInv, NEW t \in Threads, FindFile(t)
  PROVE  PutInv'
<1>1. /\ thread[t].at \notin {"idle", "put", "command", "done"}
      /\ UNCHANGED <<log, sent, stored, made>>
  BY DEF FindFile
<1>2. PICK size : \/ (\E file : Serves(t, file)) \/ NotFound(t)
                  \/ To(t, [thread[t] EXCEPT !.at = "read", !.file.size = size])
  BY DEF FindFile
<1>3. CASE (\E file : Serves(t, file)) \/ NotFound(t)
  BY <1>1, <1>3, PlainMove
<1>4. CASE To(t, [thread[t] EXCEPT !.at = "read", !.file.size = size])
  <2>1. PICK at, field, value : /\ at = "read" /\ field = "file"
                                /\ value = [thread[t].file EXCEPT !.size = size]
    OBVIOUS
  <2>2. PICK next : next = [[thread[t] EXCEPT !.at = at] EXCEPT ![field] = value]
    OBVIOUS
  <2>3. DOMAIN thread[t] = Fields /\ {"at", "file"} \subseteq Fields
    BY <1>1, BusyFacts DEF Fields
  <2>4. next = [thread[t] EXCEPT !.at = "read", !.file.size = size]
    BY <2>1, <2>2, <2>3
  <2>5. To(t, next) /\ at \in {"check", "read", "cache"} /\ field \in {"window", "file"}
    BY <1>4, <2>1, <2>4
  <2> QED
    BY <1>1, <2>2, <2>5, FieldMove
<1> QED
  BY <1>2, <1>3, <1>4

(* The bytes of a file.                                                    *)
LEMMA ReadFilePut ==
  ASSUME IInv, PutInv, NEW t \in Threads, ReadFile(t)
  PROVE  PutInv'
<1>1. /\ thread[t].at \notin {"idle", "put", "command", "done"}
      /\ UNCHANGED <<log, sent, stored, made>>
  BY DEF ReadFile
<1>2. PICK file : NotFound(t) \/ To(t, [thread[t] EXCEPT !.at = "cache", !.file = file])
  BY DEF ReadFile
<1>3. CASE NotFound(t)
  BY <1>1, <1>3, PlainMove
<1>4. CASE To(t, [thread[t] EXCEPT !.at = "cache", !.file = file])
  <2>1. PICK at, field : at = "cache" /\ field = "file"
    OBVIOUS
  <2>2. PICK next : next = [[thread[t] EXCEPT !.at = at] EXCEPT ![field] = file]
    OBVIOUS
  <2>3. next = [thread[t] EXCEPT !.at = "cache", !.file = file]
    BY <2>1, <2>2
  <2>4. To(t, next) /\ at \in {"check", "read", "cache"} /\ field \in {"window", "file"}
    BY <1>4, <2>1, <2>3
  <2> QED
    BY <1>1, <2>2, <2>4, FieldMove
<1> QED
  BY <1>2, <1>3, <1>4

(* A file is served, and kept in the cache when it is small.               *)
LEMMA CacheFilePut ==
  ASSUME IInv, PutInv, NEW t \in Threads, CacheFile(t)
  PROVE  PutInv'
<1>1. /\ thread[t].at \notin {"idle", "put", "command", "done"}
      /\ UNCHANGED <<log, sent, stored, made>> /\ \E file : Serves(t, file)
  BY DEF CacheFile
<1> QED
  BY <1>1, PlainMove

-----------------------------------------------------------------------------
(* Steps that make something.                                              *)

(* An asset is put or removed, after httpRequest has accepted the method.  *)
LEMMA AssetPut ==
  ASSUME IInv, PutInv, NEW t \in Threads, Asset(t)
  PROVE  PutInv'
<1>1. thread[t].at = "asset" /\ UNCHANGED <<log, sent, made>>
  BY DEF Asset
<1>2. CASE /\ UNCHANGED stored
           /\ \E is \in {"assets", "escaped", "failure"} : Answers(t, [is |-> is])
  BY <1>1, <1>2, PlainMove
<1>3. CASE /\ Request(t).method # "GET" /\ Answers(t, [is |-> "success"])
           /\ stored' = Append(stored, [by |-> thread[t].id, method |-> Request(t).method,
                                       device |-> AssetDevice(Request(t))])
  <2>1. PICK s, id, r : s = thread[t] /\ id = s.id /\ r = s.request
    OBVIOUS
  <2>2. PICK what, next : what = [is |-> "success"] /\ next = [s EXCEPT !.at = "done", !.answer = what]
    OBVIOUS
  <2>3. PICK e : e = [by |-> id, method |-> r.method, device |-> AssetDevice(r)]
    OBVIOUS
  <2>4. To(t, next) /\ stored' = Append(stored, e) /\ e.by = id
    <3>1. Answers(t, [is |-> "success"]) /\ stored' = Append(stored, e)
      BY <1>3, <2>1, <2>3 DEF Request
    <3>2. To(t, next)
      BY <2>1, <2>2, <3>1 DEF Answers
    <3> QED
      BY <2>3, <3>1, <3>2
  <2>5. /\ DOMAIN s = Fields /\ {"at", "answer", "request", "id", "begun"} \subseteq Fields
        /\ s # Idle /\ id \in 1 .. made /\ made \in Nat /\ Worker(s)
    BY <1>1, <2>1, BusyFacts DEF Fields
  <2>6. /\ next.at = "done" /\ next.answer = what /\ next.request = r /\ next.id = id
        /\ next.begun = s.begun /\ what.is = "success"
    BY <2>1, <2>2, <2>5
  <2>7. AtWork(s, Made(id, log), Made(id, sent), Made(id, stored))
    BY <2>1, <2>5 DEF Worker
  <2>8. PutAllowed(r) /\ IsAsset(r)
    <3>1. MethodAccepted(r) /\ IsAsset(r)
      BY <1>1, <2>1, <2>7 DEF AtWork
    <3> QED
      BY <1>3, <2>1, <3>1 DEF MethodAccepted, Request
  <2>9. AtSets(next, log)
    <3>1. AtSets(s, log)
      BY <2>5 DEF Worker
    <3> QED
      BY <2>6, <2>8, <3>1 DEF AtSets
  <2>10. AtEnd(r, TRUE, Made(id, log'), Made(id, sent'), Made(id, stored'))
    BY <2>8 DEF AtEnd
  <2>11. AtWork(next, Made(id, log'), Made(id, sent'), Made(id, stored'))
    BY <2>6, <2>10 DEF AtWork
  <2>12. Worker(next)'
    BY <1>1, <2>5, <2>6, <2>9, <2>11 DEF Worker
  <2>13. AllGrow(id)
    BY <1>1, <2>4 DEF AllGrow, GrowsBy
  <2>14. ThreadsInv
    BY IInvParts
  <2> QED
    BY <1>1, <2>1, <2>4, <2>5, <2>6, <2>12, <2>13, <2>14, Works
<1> QED
  BY <1>1, <1>2, <1>3 DEF Asset

-----------------------------------------------------------------------------
(* Sequences of equal lengths, one after the other.                        *)

IsRows(s, q, k, n) ==
  Len(s) = k * n /\ \A i \in 1 .. k : \A j \in 1 .. n : s[(i - 1) * n + j] = q[i][j]

HasLength(r, n) == Len(r) = n

SoFar(f, q, k, n, S) == k = 0 \/ (f[k] \in Seq(S) /\ IsRows(f[k], q, k, n))

(* The place of the j-th element of the i-th of k sequences.               *)
LEMMA RowIndex ==
  ASSUME NEW k \in Nat, NEW n \in Nat, NEW i \in 1 .. k, NEW j \in 1 .. n
  PROVE  (i - 1) * n + j \in 1 .. k * n
<1>1. k * n = (i - 1) * n + n + (k - i) * n
  OBVIOUS
<1>2. \A x, y \in Nat : x * y \in Nat
  OBVIOUS
<1>3. i - 1 \in Nat /\ k - i \in Nat
  OBVIOUS
<1>4. (i - 1) * n \in Nat /\ (k - i) * n \in Nat
  BY <1>2, <1>3
<1> QED
  BY <1>1, <1>4

(* One more sequence.                                                      *)
LEMMA RowsAppend ==
  ASSUME NEW S, NEW k \in Nat, NEW n \in Nat, NEW q, NEW s \in Seq(S), IsRows(s, q, k, n),
         NEW r \in Seq(S), HasLength(r, n), r = q[k + 1]
  PROVE  IsRows(s \o r, q, k + 1, n)
<1>1. PICK m : m = k * n
  OBVIOUS
<1>2. m \in Nat /\ (k + 1) * n = m + n
  BY <1>1
<1>3. PICK t : t = s \o r
  OBVIOUS
<1>4. /\ Len(t) = Len(s) + Len(r)
      /\ \A p \in 1 .. Len(s) : t[p] = s[p]
      /\ \A p \in 1 .. Len(r) : t[Len(s) + p] = r[p]
  BY <1>3
<1>5. Len(s) = m /\ Len(r) = n
  BY <1>1 DEF IsRows, HasLength
<1>6. Len(t) = m + n /\ (\A p \in 1 .. m : t[p] = s[p]) /\ \A p \in 1 .. n : t[m + p] = r[p]
  BY <1>4, <1>5
<1>7. ASSUME NEW i \in 1 .. k + 1, NEW j \in 1 .. n
      PROVE  t[(i - 1) * n + j] = q[i][j]
  <2>1. CASE i = k + 1
    <3>1. (i - 1) * n = m
      BY <1>1, <2>1
    <3>2. t[m + j] = r[j]
      BY <1>6
    <3> QED
      BY <2>1, <3>1, <3>2
  <2>2. CASE i \in 1 .. k
    <3>1. (i - 1) * n + j \in 1 .. m
      BY <1>1, <2>2, RowIndex
    <3>2. s[(i - 1) * n + j] = q[i][j]
      BY <2>2 DEF IsRows
    <3> QED
      BY <1>6, <3>1, <3>2
  <2>3. i = k + 1 \/ i \in 1 .. k
    OBVIOUS
  <2> QED
    BY <2>1, <2>2, <2>3
<1>8. Len(t) = (k + 1) * n
  BY <1>2, <1>6
<1> QED
  BY <1>3, <1>7, <1>8 DEF IsRows

Uniform(q, n) == \A i \in DOMAIN q : Len(q[i]) = n

(* FlattenSeq of sequences of equal lengths.                               *)
LEMMA FlattenRows ==
  ASSUME NEW S, NEW q \in Seq(Seq(S)), NEW n \in Nat, Uniform(q, n)
  PROVE  FlattenSeq(q) \in Seq(S) /\ IsRows(FlattenSeq(q), q, Len(q), n)
<1> DEFINE N == Len(q)
           f == CHOOSE f : IsFlat(f, q, N)
           T == {k \in 0 .. N : SoFar(f, q, k, n, S)}
<1>1. N \in Nat /\ DOMAIN q = 1 .. N /\ \A k \in 1 .. N : q[k] \in Seq(S)
  OBVIOUS
<1>2. N # 0 => FlattenSeq(q) = f[N]
  BY <1>1 DEF FlattenSeq, IsFlat
<1>3. IsFlat(f, q, N)
  BY <1>1, FlatExists
<1>4. N = 0 => FlattenSeq(q) = q /\ q \in Seq(S) /\ IsRows(q, q, N, n)
  BY <1>1 DEF FlattenSeq, IsRows
<1>5. N = Len(q)
  OBVIOUS
<1> HIDE DEF N, f
<1>6. \A k \in 1 .. N : f[k] = IF k = 1 THEN q[k] ELSE f[k - 1] \o q[k]
  BY <1>3 DEF IsFlat
<1>7. N \in Nat /\ 0 \in T
  BY <1>1 DEF SoFar
<1>8. ASSUME NEW k \in 0 .. N - 1, k \in T
      PROVE  k + 1 \in T
  <2>1. k + 1 \in 1 .. N /\ k + 1 \in 0 .. N /\ (k + 1) - 1 = k /\ k \in Nat
    BY <1>1
  <2>2. PICK s, r : s = f[k + 1] /\ r = q[k + 1]
    OBVIOUS
  <2>3. r \in Seq(S) /\ Len(r) = n
    BY <1>1, <2>1, <2>2 DEF Uniform
  <2>4. CASE k = 0
    <3>1. s = r
      BY <1>6, <2>1, <2>2, <2>4
    <3>2. IsRows(s, q, 1, n)
      <4>1. s = q[1] /\ Len(s) = n
        BY <2>2, <2>3, <2>4, <3>1
      <4>2. (1 - 1) * n = 0 /\ 1 * n = n
        OBVIOUS
      <4> QED
        BY <4>1, <4>2 DEF IsRows
    <3> QED
      BY <2>1, <2>2, <2>3, <2>4, <3>1, <3>2 DEF SoFar
  <2>5. CASE k # 0
    <3>1. PICK before : before = f[k]
      OBVIOUS
    <3>2. before \in Seq(S) /\ IsRows(before, q, k, n)
      <4>1. f[k] \in Seq(S) /\ IsRows(f[k], q, k, n)
        BY <1>8, <2>5 DEF SoFar
      <4> QED
        BY <3>1, <4>1
    <3>3. s = before \o r
      <4>1. k + 1 # 1
        BY <2>1, <2>5
      <4>2. f[k + 1] = f[k] \o q[k + 1]
        BY <1>6, <2>1, <4>1
      <4> QED
        BY <2>2, <3>1, <4>2
    <3>4. IsRows(s, q, k + 1, n)
      <4>1. HasLength(r, n)
        BY <2>3 DEF HasLength
      <4> QED
        BY <2>1, <2>2, <2>3, <3>2, <3>3, <4>1, RowsAppend
    <3>5. s \in Seq(S)
      BY <2>3, <3>2, <3>3
    <3> QED
      BY <2>1, <2>2, <3>4, <3>5 DEF SoFar
  <2> QED
    BY <2>4, <2>5
<1> HIDE DEF T
<1>9. N \in T
  <2>1. \A k \in 0 .. N : k \in T
    BY <1>7, <1>8, UpTo
  <2>2. N \in 0 .. N
    BY <1>7
  <2> QED
    BY <2>1, <2>2
<1> QED
  <2>1. SoFar(f, q, N, n, S)
    BY <1>9 DEF T
  <2> QED
    BY <1>2, <1>4, <1>5, <2>1 DEF SoFar

(* The commands of a put go to every adapter.                              *)
LEMMA CommandsFacts ==
  ASSUME NEW r \in Requests, PutDevice(r) \in DOMAIN Devices, NEW all, all = FlattenSeq(ToSend(r))
  PROVE  /\ all \in Seq(Range(all))
         /\ \A i \in DOMAIN all : all[i] = [key |-> all[i].key, adapter |-> all[i].adapter]
         /\ ToEach(Devices[PutDevice(r)].adapters, r.keys, all)
<1>1. PICK adapters, keys : adapters = Devices[PutDevice(r)].adapters /\ keys = r.keys
  OBVIOUS
<1>2. adapters \in Seq(ToSet(adapters)) /\ keys \in Seq(ToSet(keys))
  BY <1>1, RequestsAssumption
<1>3. PICK S : S = {c \in [key : ToSet(keys), adapter : ToSet(adapters)] : TRUE}
  OBVIOUS
<1>4. PICK q : q = ToSend(r)
  OBVIOUS
<1>5. q = [i \in DOMAIN adapters |->
            [j \in DOMAIN keys |-> [key |-> keys[j], adapter |-> adapters[i]]]]
  BY <1>1, <1>4 DEF ToSend
<1>6. /\ DOMAIN adapters = 1 .. Len(adapters) /\ DOMAIN keys = 1 .. Len(keys)
      /\ Len(adapters) \in Nat /\ Len(keys) \in Nat
  BY <1>2
<1>7. ASSUME NEW i \in DOMAIN adapters
      PROVE  q[i] \in Seq(S) /\ Len(q[i]) = Len(keys)
  <2>1. adapters[i] \in ToSet(adapters)
    BY DEF ToSet
  <2>2. \A j \in DOMAIN keys : keys[j] \in ToSet(keys)
    BY DEF ToSet
  <2>3. \A j \in DOMAIN keys : [key |-> keys[j], adapter |-> adapters[i]] \in S
    BY <1>3, <2>1, <2>2
  <2>4. q[i] = [j \in DOMAIN keys |-> [key |-> keys[j], adapter |-> adapters[i]]]
    BY <1>5
  <2> QED
    BY <1>6, <2>3, <2>4
<1>8. q \in Seq(Seq(S)) /\ Len(q) = Len(adapters) /\ DOMAIN q = DOMAIN adapters
  BY <1>5, <1>6, <1>7
<1>9. all \in Seq(S) /\ IsRows(all, q, Len(adapters), Len(keys))
  <2>1. Uniform(q, Len(keys))
    BY <1>7, <1>8 DEF Uniform
  <2> QED
    BY <1>4, <1>6, <1>8, <2>1, FlattenRows
<1>10. \A i \in DOMAIN all : all[i] = [key |-> all[i].key, adapter |-> all[i].adapter]
  <2>1. \A c \in S : c = [key |-> c.key, adapter |-> c.adapter]
    BY <1>3
  <2>2. \A i \in DOMAIN all : all[i] \in S
    BY <1>9
  <2> QED
    BY <2>1, <2>2
<1>11. all \in Seq(Range(all))
  BY <1>9, InItsRange
<1>12. ToEach(adapters, keys, all)
  <2>1. Len(all) = Len(adapters) * Len(keys)
    BY <1>9 DEF IsRows
  <2>2. ASSUME NEW i \in DOMAIN adapters, NEW j \in DOMAIN keys
        PROVE  /\ all[(i - 1) * Len(keys) + j].adapter = adapters[i]
               /\ all[(i - 1) * Len(keys) + j].key = keys[j]
    <3>1. all[(i - 1) * Len(keys) + j] = q[i][j]
      BY <1>6, <1>9 DEF IsRows
    <3>2. q[i][j] = [key |-> keys[j], adapter |-> adapters[i]]
      BY <1>5
    <3> QED
      BY <3>1, <3>2
  <2> QED
    BY <2>1, <2>2 DEF ToEach
<1> QED
  BY <1>1, <1>10, <1>11, <1>12

(* What sendCommand is called with once more.                              *)
LEMMA CalledFacts ==
  /\ Called(<<>>) = <<>>
  /\ \A S : \A seq \in Seq(S) : \A e :
       Called(Append(seq, e)) = Append(Called(seq), [key |-> e.key, adapter |-> e.adapter])
<1>1. Called(<<>>) = <<>>
  BY DEF Called
<1>2. ASSUME NEW S, NEW seq \in Seq(S), NEW e
      PROVE  Called(Append(seq, e)) = Append(Called(seq), [key |-> e.key, adapter |-> e.adapter])
  <2> DEFINE C(c) == [key |-> c.key, adapter |-> c.adapter]
  <2>1. PICK n, next, T : n = Len(seq) /\ next = Append(seq, e) /\ T = {C(seq[i]) : i \in 1 .. n} \cup {C(e)}
    OBVIOUS
  <2>2. /\ n \in Nat /\ DOMAIN seq = 1 .. n /\ DOMAIN next = 1 .. n + 1
        /\ next[n + 1] = e /\ \A i \in 1 .. n : next[i] = seq[i]
    BY <2>1
  <2>3. PICK old, new : old = Called(seq) /\ new = Called(next)
    OBVIOUS
  <2>4. old = [i \in 1 .. n |-> C(seq[i])] /\ new = [i \in 1 .. n + 1 |-> C(next[i])]
    BY <2>2, <2>3 DEF Called
  <2> HIDE DEF C
  <2>5. old \in Seq(T) /\ Len(old) = n /\ \A i \in 1 .. n : old[i] = C(seq[i])
    BY <2>1, <2>2, <2>4
  <2>6. new \in Seq(T) /\ Len(new) = n + 1 /\ \A i \in 1 .. n + 1 : new[i] = C(next[i])
    <3>1. \A i \in 1 .. n + 1 : C(next[i]) \in T
      BY <2>1, <2>2
    <3> QED
      BY <2>2, <2>4, <3>1
  <2>7. PICK c : c = C(e)
    OBVIOUS
  <2>8. c \in T /\ new[n + 1] = c /\ \A i \in 1 .. n : new[i] = old[i]
    BY <2>1, <2>2, <2>5, <2>6, <2>7
  <2>9. new = Append(old, c)
    BY <2>2, <2>5, <2>6, <2>8
  <2> QED
    BY <2>1, <2>3, <2>7, <2>9 DEF C
<1> QED
  BY <1>1, <1>2

-----------------------------------------------------------------------------
(* The parameters of a put.                                                *)

(* All the parameters are the end of the parameters.                       *)
LEMMA EndOfAll ==
  ASSUME NEW S, NEW keys \in Seq(S)
  PROVE  EndOf(keys, keys)
<1>1. Len(keys) \in Nat /\ keys = SubSeq(keys, 1, Len(keys))
  OBVIOUS
<1>2. Len(keys) + 1 - Len(keys) = 1
  BY <1>1
<1> QED
  BY <1>1, <1>2 DEF EndOf

(* The keys of a sequence, and of one more element.                        *)
LEMMA KeysFacts ==
  Keys(<<>>) = <<>> /\ \A S : \A seq \in Seq(S) : \A e :
    Keys(Append(seq, e)) = Append(Keys(seq), e.key)
<1>1. Keys(<<>>) = <<>>
  BY DEF Keys
<1>2. ASSUME NEW S, NEW seq \in Seq(S), NEW e
      PROVE  Keys(Append(seq, e)) = Append(Keys(seq), e.key)
  <2>1. PICK n, next, T : n = Len(seq) /\ next = Append(seq, e) /\ T = {seq[i].key : i \in 1 .. n} \cup {e.key}
    OBVIOUS
  <2>2. /\ n \in Nat /\ DOMAIN seq = 1 .. n /\ DOMAIN next = 1 .. n + 1
        /\ next[n + 1] = e /\ \A i \in 1 .. n : next[i] = seq[i]
    BY <2>1
  <2>3. PICK old, new : old = Keys(seq) /\ new = Keys(next)
    OBVIOUS
  <2>4. old = [i \in 1 .. n |-> seq[i].key] /\ new = [i \in 1 .. n + 1 |-> next[i].key]
    BY <2>2, <2>3 DEF Keys
  <2>5. old \in Seq(T) /\ Len(old) = n /\ \A i \in 1 .. n : old[i] = seq[i].key
    BY <2>1, <2>2, <2>4
  <2>6. new \in Seq(T) /\ Len(new) = n + 1 /\ \A i \in 1 .. n + 1 : new[i] = next[i].key
    <3>1. \A i \in 1 .. n + 1 : next[i].key \in T
      BY <2>1, <2>2
    <3> QED
      BY <2>2, <2>4, <3>1
  <2>7. PICK key : key = e.key
    OBVIOUS
  <2>8. key \in T /\ new[n + 1] = key /\ \A i \in 1 .. n : new[i] = old[i]
    BY <2>1, <2>2, <2>5, <2>6, <2>7
  <2>9. new = Append(old, key)
    BY <2>2, <2>5, <2>6, <2>8
  <2> QED
    BY <2>1, <2>3, <2>7, <2>9
<1> QED
  BY <1>1, <1>2

(* One parameter more, put or left out.                                    *)
LEMMA PutsNext ==
  ASSUME NEW r, r.keys \in Seq(ToSet(r.keys)), NEW n \in Nat, n < Len(r.keys),
         NEW left \in SUBSET Nat, \A i \in left : i <= n
  PROVE  /\ PutsUpTo(r, n + 1, left) = IF Puts(r, r.keys[n + 1])
                                       THEN Append(PutsUpTo(r, n, left), r.keys[n + 1])
                                       ELSE PutsUpTo(r, n, left)
         /\ PutsUpTo(r, n + 1, left \cup {n + 1}) = PutsUpTo(r, n, left)
<1> DEFINE K(m, out) == {i \in 1 .. m : Puts(r, r.keys[i])} \ out
<1>1. PICK keys, k : keys = r.keys /\ k = n + 1
  OBVIOUS
<1>2. keys \in Seq(ToSet(keys)) /\ k \in 1 .. Len(keys)
  BY <1>1
<1>3. K(n, left) \in SUBSET (1 .. Len(keys)) /\ \A j \in K(n, left) : j < k
  BY <1>1, <1>2
<1>4. k \notin left /\ k \notin 1 .. n
  BY <1>1
<1>5. 1 .. k = 1 .. n \cup {k}
  BY <1>1
<1>6. K(k, left) = IF Puts(r, keys[k]) THEN K(n, left) \cup {k} ELSE K(n, left)
  BY <1>1, <1>4, <1>5
<1>7. K(k, left \cup {k}) = K(n, left)
  BY <1>4, <1>5
<1>8. \A m, out : PutsUpTo(r, m, out) = Subsequence(keys, K(m, out))
  BY <1>1 DEF PutsUpTo
<1> HIDE DEF K
<1>9. Subsequence(keys, K(n, left) \cup {k}) = Append(Subsequence(keys, K(n, left)), keys[k])
  BY <1>2, <1>3, SubsequenceAppend
<1>10. PutsUpTo(r, k, left) = IF Puts(r, keys[k]) THEN Append(PutsUpTo(r, n, left), keys[k])
                              ELSE PutsUpTo(r, n, left)
  BY <1>6, <1>8, <1>9
<1>11. PutsUpTo(r, k, left \cup {k}) = PutsUpTo(r, n, left)
  BY <1>7, <1>8
<1> QED
  BY <1>1, <1>10, <1>11

(* A parameter is put, names nothing, or is a data set that is left out.   *)
LEMMA HasPutNext ==
  ASSUME NEW r, r.keys \in Seq(ToSet(r.keys)), NEW n \in Nat, n < Len(r.keys),
         NEW added, HasPut(r, n, added), NEW new,
         \/ Puts(r, r.keys[n + 1]) /\ Keys(new) = Append(Keys(added), r.keys[n + 1])
         \/ ~ Puts(r, r.keys[n + 1]) /\ Keys(new) = Keys(added)
         \/ n + 1 \in Sets(r) /\ Keys(new) = Keys(added)
  PROVE  HasPut(r, n + 1, new)
<1>1. PICK left \in SUBSET Sets(r) : (\A i \in left : i <= n) /\ Keys(added) = PutsUpTo(r, n, left)
  BY DEF HasPut
<1>2. Sets(r) \subseteq Nat
  BY DEF Sets, Named
<1>3. left \in SUBSET Nat /\ \A i \in left : i <= n + 1
  BY <1>1, <1>2
<1>4. /\ PutsUpTo(r, n + 1, left) = IF Puts(r, r.keys[n + 1])
                                    THEN Append(PutsUpTo(r, n, left), r.keys[n + 1])
                                    ELSE PutsUpTo(r, n, left)
      /\ PutsUpTo(r, n + 1, left \cup {n + 1}) = PutsUpTo(r, n, left)
  BY <1>1, <1>3, PutsNext
<1>5. CASE Keys(new) = PutsUpTo(r, n + 1, left)
  BY <1>1, <1>3, <1>5 DEF HasPut
<1>6. CASE n + 1 \in Sets(r) /\ Keys(new) = PutsUpTo(r, n + 1, left \cup {n + 1})
  <2>1. PICK out : out = left \cup {n + 1}
    OBVIOUS
  <2>2. out \in SUBSET Sets(r) /\ \A i \in out : i <= n + 1
    BY <1>1, <1>3, <1>6, <2>1
  <2> QED
    BY <1>6, <2>1, <2>2 DEF HasPut
<1> QED
  BY <1>1, <1>4, <1>5, <1>6

(* Before the first parameter nothing is put.                              *)
LEMMA PutsFirst ==
  ASSUME NEW r, r.keys \in Seq(ToSet(r.keys))
  PROVE  HasPut(r, 0, <<>>)
<1>1. {i \in 1 .. 0 : Puts(r, r.keys[i])} \ {} = {}
  OBVIOUS
<1>2. Subsequence(r.keys, {}) = <<>>
  BY SubsequenceEmpty
<1>3. PutsUpTo(r, 0, {}) = <<>>
  BY <1>1, <1>2 DEF PutsUpTo
<1>4. {} \in SUBSET Sets(r) /\ \A i \in {} : i <= 0
  OBVIOUS
<1> QED
  BY <1>3, <1>4, KeysFacts DEF HasPut

(* handlePut begins with all the parameters, or all the commands.          *)
LEMMA HandlePutWorks ==
  ASSUME IInv, PutInv, NEW t \in Threads, thread[t].at = "route",
         UNCHANGED <<log, sent, stored, made>>,
         NEW r, r = Request(t), handlePut(t, r), PutAllowed(r)
  PROVE  PutInv'
<1>1. PICK s, id : s = thread[t] /\ id = s.id
  OBVIOUS
<1>2. /\ DOMAIN s = Fields /\ {"at", "todo", "request", "id", "begun"} \subseteq Fields
      /\ s.request = r /\ r \in Requests
  BY <1>1, BusyFacts DEF Fields, StepInv, Request
<1>3. CASE \E code : printError(t, code)
  BY <1>3, PlainMove
<1>4. ASSUME NEW todo, NEW at \in {"put", "command"}, To(t, [s EXCEPT !.at = at, !.todo = todo]),
             at = "put" => AtPut(r, todo, <<>>) /\ Len(todo) = Len(r.keys),
             at = "command" => AtCommand(r, todo, <<>>)
      PROVE  PutInv'
  <2>1. PICK next : next = [s EXCEPT !.at = at, !.todo = todo]
    OBVIOUS
  <2>2. To(t, next) /\ next.at = at /\ next.todo = todo /\ next.request = r /\ next.id = id /\ next.begun = s.begun
    BY <1>1, <1>2, <1>4, <2>1
  <2>3. ASSUME NEW added, NEW commands, NEW assets, AtWork(s, added, commands, assets)
        PROVE  AtWork(next, added, commands, assets)
    <3>1. added = <<>> /\ commands = <<>> /\ assets = <<>>
      BY <1>1, <2>3 DEF AtWork
    <3> QED
      BY <1>4, <2>2, <3>1 DEF AtWork
  <2>4. AtSets(s, log) => AtSets(next, log)
    <3>1. r.keys \in Seq(ToSet(r.keys))
      BY <1>2, RequestsAssumption
    <3>2. \A i \in Sets(r) : ~ i <= 0
      BY <3>1 DEF Sets, Named
    <3>3. EffectiveUpTo(log, r, 0, s.begun)
      BY <3>2 DEF EffectiveUpTo
    <3>4. at = "put" => Len(r.keys) - Len(todo) = 0
      BY <1>4, <3>1
    <3> QED
      BY <2>2, <3>3, <3>4 DEF AtSets
  <2> QED
    BY <1>1, <2>2, <2>3, <2>4, QuietWorks
<1>5. CASE PutDevice(r) \in DOMAIN Devices /\ Word(r, "_type") = "command"
  <2>1. PICK all : all = FlattenSeq(ToSend(r))
    OBVIOUS
  <2>2. To(t, [s EXCEPT !.at = "command", !.todo = all])
    BY <1>1, <1>5, <2>1 DEF handlePut, ToSend
  <2>3. all \in Seq(Range(all)) /\ \A i \in DOMAIN all : all[i] = [key |-> all[i].key, adapter |-> all[i].adapter]
    BY <1>2, <1>5, <2>1, CommandsFacts
  <2>4. Called(<<>>) = <<>> /\ <<>> \o all = all
    BY <2>3, CalledFacts
  <2>5. AtCommand(r, all, <<>>)
    BY <1>5, <2>1, <2>3, <2>4 DEF AtCommand, IsPut
  <2>6. PICK at : at = "command"
    OBVIOUS
  <2> QED
    BY <1>4, <2>2, <2>5, <2>6
<1>6. CASE PutDevice(r) \in DOMAIN Devices /\ Word(r, "_type") # "command"
  <2>1. PICK keys : keys = r.keys
    OBVIOUS
  <2>2. To(t, [s EXCEPT !.at = "put", !.todo = keys])
    BY <1>1, <1>6, <2>1 DEF handlePut
  <2>3. keys \in Seq(ToSet(keys)) /\ Len(keys) - Len(keys) = 0
    BY <1>2, <2>1, RequestsAssumption
  <2>4. EndOf(keys, keys) /\ HasPut(r, 0, <<>>)
    BY <2>1, <2>3, EndOfAll, PutsFirst
  <2>5. AtPut(r, keys, <<>>) /\ Len(keys) = Len(r.keys)
    BY <1>6, <2>1, <2>3, <2>4 DEF AtPut, IsPut
  <2>6. PICK at : at = "put"
    OBVIOUS
  <2> QED
    BY <1>4, <2>2, <2>5, <2>6
<1> QED
  BY <1>3, <1>5, <1>6 DEF handlePut

(* httpRequest, by what it calls: nothing that puts is called before the   *)
(* method has been accepted.                                               *)
LEMMA HttpRequestPut ==
  ASSUME IInv, PutInv, NEW t \in Threads, httpRequest(t)
  PROVE  PutInv'
<1>1. thread[t].at = "route" /\ UNCHANGED <<log, sent, stored, made>>
  BY DEF httpRequest
<1>2. PICK r : r = Request(t)
  OBVIOUS
<1>3. CASE \E code : printError(t, code)
  BY <1>1, <1>3, PlainMove
<1>4. CASE Goes(t, "file")
  BY <1>1, <1>4, GoesMove
<1>5. CASE Goes(t, "asset") /\ MethodAccepted(r) /\ IsAsset(r)
  BY <1>1, <1>2, <1>5, GoesMove
<1>6. CASE handleCall(t, Call(r), Device(r))
  <2>1. CASE Goes(t, "first")
    BY <1>1, <2>1, GoesMove
  <2>2. CASE \E name : handleProbe(t, name)
    <3>1. (\E code : printError(t, code)) \/ (\E of : Answers(t, [is |-> "probe", of |-> of]))
      BY <2>2 DEF handleProbe
    <3> QED
      BY <1>1, <3>1, PlainMove
  <2> QED
    BY <1>3, <1>6, <2>1, <2>2 DEF handleCall
<1>7. CASE handlePut(t, r) /\ MethodAccepted(r) /\ r.method # "GET"
  BY <1>1, <1>2, <1>7, HandlePutWorks DEF MethodAccepted
<1> QED
  BY <1>2, <1>3, <1>4, <1>5, <1>6, <1>7 DEF httpRequest

(* A data set that is put has what was put, or had it.                     *)
LEMMA PutTakesEffect ==
  ASSUME NEW S, log \in Seq(S), NEW r \in Requests, NEW i, NEW key, key = r.keys[i],
         NEW d, d = PutDevice(r), NEW entries, entries = r.query[key].set, NEW begun \in 0 .. Len(log),
         key \in DOMAIN r.query, key \in Devices[d].dataSets, NEW o, o.device = d, o.key = key,
         o.unavailable <=> r.query[key].word = "UNAVAILABLE", o.set = Changes(d, key, entries),
         log' = IF ~ Unchanged(d, key, entries) THEN Append(log, o) ELSE log
  PROVE  Effective(log', r, i, begun)
<1>1. PICK seq, n : seq = log /\ n = Len(seq)
  OBVIOUS
<1>2. seq \in Seq(S) /\ n \in Nat /\ begun \in 0 .. n
  BY <1>1
<1>3. (\A e, f \in entries : e.name = f.name => e = f) /\ (r.query[key].word = "UNAVAILABLE" => entries = {})
  BY RequestsAssumption
<1>4. Changes(d, key, entries) = {e \in entries : ~ Held(seq, n, d, key, e)}
  BY <1>1 DEF Changes
<1>5. CASE Unchanged(d, key, entries)
  <2>1. \A e \in entries : Held(seq, n, d, key, e)
    BY <1>4, <1>5 DEF Unchanged
  <2>2. n \in begun .. n
    BY <1>2
  <2> QED
    BY <1>1, <1>5, <2>1, <2>2 DEF Effective
<1>6. CASE ~ Unchanged(d, key, entries)
  <2>1. PICK next : next = Append(seq, o)
    OBVIOUS
  <2>2. ASSUME NEW e \in entries
        PROVE  Held(next, n + 1, d, key, e)
    <3>1. ~ o.unavailable
      BY <1>3
    <3>2. o.set = {x \in entries : ~ Held(seq, Len(seq), d, key, x)}
      BY <1>1, <1>4
    <3> QED
      BY <1>1, <1>2, <1>3, <2>1, <3>1, <3>2, ChangesTakeEffect
  <2>3. n + 1 \in begun .. Len(next)
    BY <1>1, <1>2, <2>1
  <2> QED
    BY <1>1, <1>6, <2>1, <2>2, <2>3 DEF Effective
<1> QED
  BY <1>5, <1>6

(* A parameter is put, or is not one to put.                               *)
LEMMA PutValuePut ==
  ASSUME IInv, PutInv, NEW t \in Threads, PutValue(t)
  PROVE  PutInv'
<1>1. /\ thread[t].at = "put" /\ thread[t].todo # <<>> /\ UNCHANGED <<sent, stored, made>>
      /\ To(t, Next1(t))
  BY DEF PutValue
<1>2. PICK s, id, r, todo : s = thread[t] /\ id = s.id /\ r = s.request /\ todo = s.todo
  OBVIOUS
<1>3. PICK key, rest, next : /\ key = Head(todo) /\ rest = Tail(todo)
                             /\ next = [s EXCEPT !.todo = rest]
  OBVIOUS
<1>4. /\ DOMAIN s = Fields /\ {"at", "todo", "request", "id", "begun"} \subseteq Fields
      /\ s # Idle /\ id \in 1 .. made /\ made \in Nat /\ Worker(s) /\ r \in Requests
  BY <1>1, <1>2, BusyFacts DEF Fields, StepInv
<1>5. /\ next.at = "put" /\ next.todo = rest /\ next.request = r /\ next.id = id
      /\ next.begun = s.begun /\ To(t, next)
  <2>1. To(t, next)
    BY <1>1, <1>2, <1>3 DEF Next1
  <2> QED
    BY <1>1, <1>2, <1>3, <1>4, <2>1
<1>6. PICK added : added = Made(id, log)
  OBVIOUS
<1>7. AtWork(s, added, Made(id, sent), Made(id, stored))
  BY <1>2, <1>4, <1>6 DEF Worker
<1>8. AtPut(r, todo, added) /\ Made(id, sent) = <<>> /\ Made(id, stored) = <<>>
  BY <1>1, <1>2, <1>7 DEF AtWork
<1>9. PICK keys : keys = r.keys
  OBVIOUS
<1>10. keys \in Seq(ToSet(keys)) /\ todo \in Seq(ToSet(keys)) /\ todo # <<>> /\ EndOf(todo, keys)
  BY <1>1, <1>2, <1>4, <1>8, <1>9, RequestsAssumption DEF AtPut
<1>11. /\ Len(todo) \in 1 .. Len(keys) /\ key = keys[Len(keys) + 1 - Len(todo)]
       /\ rest \in Seq(ToSet(keys)) /\ Len(rest) = Len(todo) - 1 /\ EndOf(rest, keys)
  BY <1>3, <1>10, RestAdvances
<1>12. PICK n : n = Len(keys) - Len(todo)
  OBVIOUS
<1>13. n \in Nat /\ n < Len(keys) /\ key = keys[n + 1] /\ Len(keys) - Len(rest) = n + 1
  <2>1. Len(keys) \in Nat
    BY <1>10
  <2>2. Len(keys) + 1 - Len(todo) = n + 1
    BY <1>11, <1>12, <2>1
  <2> QED
    BY <1>11, <1>12, <2>1, <2>2
<1>14. PICK d, text, entries, begun : /\ d = PutDevice(r) /\ text = r.query[key] /\ entries = text.set
                                      /\ begun = s.begun
  OBVIOUS
<1>15. PICK e : e = Observation(id, d, key, text)
  OBVIOUS
<1>16. /\ e.by = id /\ e.key = key /\ e.device = d
       /\ (e.unavailable <=> text.word = "UNAVAILABLE")
       /\ key \in Devices[d].dataSets => e.set = Changes(d, key, entries)
  BY <1>14, <1>15 DEF Observation
<1>17. log' = IF Puts(r, key) /\ ~ Unchanged(d, key, entries) THEN Append(log, e) ELSE log
  BY <1>2, <1>3, <1>14, <1>15 DEF PutValue, Request
<1>18. PICK S : S = Range(log) \cup {e}
  OBVIOUS
<1>19. log \in Seq(S) /\ e \in S /\ added \in Seq(S)
  <2>1. log \in Seq(S) /\ e \in S
    BY <1>18 DEF PutInv, Belongs
  <2> QED
    BY <1>6, <2>1, MadeType
<1>20. Made(id, log') = IF Puts(r, key) /\ ~ Unchanged(d, key, entries) THEN Append(added, e) ELSE added
  <2>1. Made(id, Append(log, e)) = Append(Made(id, log), e)
    BY <1>16, <1>19, MadeByOne
  <2> QED
    BY <1>6, <1>17, <2>1
<1>21. PICK new : new = Made(id, log')
  OBVIOUS
<1>22. AtPut(r, rest, new)
  <2>1. HasPut(r, n + 1, new)
    <3>1. HasPut(r, n, added)
      BY <1>8, <1>9, <1>12 DEF AtPut
    <3>2. Keys(Append(added, e)) = Append(Keys(added), key)
      BY <1>16, <1>19, KeysFacts
    <3>3. CASE ~ Puts(r, key)
      BY <1>9, <1>10, <1>13, <1>20, <1>21, <3>1, <3>3, HasPutNext
    <3>4. CASE Puts(r, key) /\ ~ Unchanged(d, key, entries)
      BY <1>9, <1>10, <1>13, <1>20, <1>21, <3>1, <3>2, <3>4, HasPutNext
    <3>5. CASE Puts(r, key) /\ Unchanged(d, key, entries)
      <4>1. n + 1 \in DOMAIN keys
        BY <1>10, <1>13
      <4>2. n + 1 \in Sets(r)
        BY <1>9, <1>13, <1>14, <3>5, <4>1 DEF Sets, Named, Puts, Unchanged
      <4> QED
        BY <1>9, <1>10, <1>13, <1>20, <1>21, <3>1, <3>5, <4>2, HasPutNext
    <3> QED
      BY <3>3, <3>4, <3>5
  <2>2. \A i \in DOMAIN new : new[i].device = PutDevice(r)
    <3>1. \A i \in DOMAIN added : added[i].device = PutDevice(r)
      BY <1>8 DEF AtPut
    <3>2. \A i \in DOMAIN Append(added, e) : Append(added, e)[i] = e \/ (i \in DOMAIN added /\ Append(added, e)[i] = added[i])
      BY <1>19
    <3> QED
      BY <1>14, <1>16, <1>20, <1>21, <3>1, <3>2
  <2>3. HasPut(r, Len(keys) - Len(rest), new)
    BY <1>13, <2>1
  <2>4. IsPut(r) /\ Word(r, "_type") # "command"
    BY <1>8 DEF AtPut
  <2> QED
    BY <1>9, <1>11, <2>2, <2>3, <2>4 DEF AtPut
<1>23. AtWork(next, new, Made(id, sent), Made(id, stored))
  BY <1>5, <1>8, <1>22 DEF AtWork
<1>24. AtSets(s, log) /\ begun \in 0 .. Len(log) /\ EffectiveUpTo(log, r, n, begun)
  BY <1>1, <1>2, <1>4, <1>9, <1>12, <1>14 DEF Worker, AtSets
<1>25. GrowsBy(id, log, log')
  BY <1>16, <1>17 DEF GrowsBy
<1>26. Puts(r, key) /\ key \in Devices[d].dataSets => Effective(log', r, n + 1, begun)
  <2>1. key \in DOMAIN r.query
    <3>1. key \in ToSet(keys)
      BY <1>10, <1>13 DEF ToSet
    <3> QED
      BY <1>4, <1>9, <3>1, RequestsAssumption
  <2>2. PICK i : i = n + 1 /\ key = r.keys[i]
    BY <1>9, <1>13
  <2> QED
    BY <1>4, <1>14, <1>16, <1>17, <1>19, <1>24, <2>1, <2>2, PutTakesEffect
<1>27. EffectiveUpTo(log', r, n + 1, begun)
  <2> SUFFICES ASSUME NEW i \in Sets(r), i <= n + 1
               PROVE  Effective(log', r, i, begun)
    BY DEF EffectiveUpTo
  <2>1. i \in Nat /\ r.keys[i] # "time" /\ r.keys[i] \in Devices[d].items /\ r.keys[i] \in Devices[d].dataSets
    BY <1>9, <1>10, <1>14 DEF Sets, Named
  <2>2. CASE i = n + 1
    BY <1>9, <1>13, <1>14, <1>26, <2>1, <2>2 DEF Puts
  <2>3. CASE i <= n
    <3>1. Effective(log, r, i, begun)
      BY <1>24, <2>3 DEF EffectiveUpTo
    <3> QED
      BY <1>19, <1>24, <1>25, <3>1, EffectiveKept
  <2> QED
    BY <1>13, <2>1, <2>2, <2>3
<1>28. AtSets(next, log')
  <2>1. begun \in 0 .. Len(log')
    <3>1. Len(log') \in Nat /\ Len(log) \in Nat /\ Len(log) <= Len(log')
      BY <1>19, <1>25, LogGrows DEF GrowsBy
    <3> QED
      BY <1>24, <3>1
  <2>2. Len(r.keys) - Len(rest) = n + 1
    BY <1>9, <1>13
  <2> QED
    BY <1>5, <1>14, <1>27, <2>1, <2>2 DEF AtSets
<1>29. Worker(next)'
  BY <1>1, <1>4, <1>5, <1>21, <1>23, <1>28 DEF Worker
<1>30. AllGrow(id)
  BY <1>1, <1>25 DEF AllGrow, GrowsBy
<1>31. ThreadsInv
  BY IInvParts
<1> QED
  BY <1>1, <1>2, <1>4, <1>5, <1>29, <1>30, <1>31, Works

(* The first of several and the rest of them.                              *)
LEMMA MoveOne ==
  ASSUME NEW S, NEW first \in Seq(S), NEW rest \in Seq(S), rest # <<>>
  PROVE  /\ Append(first, Head(rest)) \o Tail(rest) = first \o rest
         /\ Head(rest) = rest[1] /\ 1 \in DOMAIN rest /\ Tail(rest) \in Seq(S)
         /\ \A i \in DOMAIN Tail(rest) : i + 1 \in DOMAIN rest /\ Tail(rest)[i] = rest[i + 1]
OBVIOUS

(* A command is sent.                                                      *)
LEMMA SendCommandPut ==
  ASSUME IInv, PutInv, NEW t \in Threads, SendCommand(t)
  PROVE  PutInv'
<1>1. /\ thread[t].at = "command" /\ thread[t].todo # <<>> /\ UNCHANGED <<log, stored, made>>
      /\ To(t, Next1(t))
  BY DEF SendCommand
<1>2. PICK s, id, r, todo : s = thread[t] /\ id = s.id /\ r = s.request /\ todo = s.todo
  OBVIOUS
<1>3. PICK c, rest, next : c = Head(todo) /\ rest = Tail(todo) /\ next = [s EXCEPT !.todo = rest]
  OBVIOUS
<1>20. PICK written \in BOOLEAN :
         sent' = Append(sent, [by |-> id, key |-> c.key, adapter |-> c.adapter, written |-> written])
  BY <1>2, <1>3 DEF SendCommand
<1>21. PICK e : e = [by |-> id, key |-> c.key, adapter |-> c.adapter, written |-> written]
  OBVIOUS
<1>22. e.by = id /\ e.key = c.key /\ e.adapter = c.adapter /\ sent' = Append(sent, e)
  BY <1>20, <1>21
<1>4. /\ DOMAIN s = Fields /\ {"at", "todo", "request", "id", "begun"} \subseteq Fields
      /\ s # Idle /\ id \in 1 .. made /\ made \in Nat /\ Worker(s)
  BY <1>1, <1>2, BusyFacts DEF Fields
<1>5. /\ next.at = "command" /\ next.todo = rest /\ next.request = r /\ next.id = id
      /\ next.begun = s.begun /\ To(t, next)
  <2>1. To(t, next)
    BY <1>1, <1>2, <1>3 DEF Next1
  <2> QED
    BY <1>1, <1>2, <1>3, <1>4, <2>1
<1>6. PICK commands : commands = Made(id, sent)
  OBVIOUS
<1>7. AtWork(s, Made(id, log), commands, Made(id, stored))
  BY <1>2, <1>4, <1>6 DEF Worker
<1>8. AtCommand(r, todo, commands) /\ Made(id, log) = <<>> /\ Made(id, stored) = <<>>
  BY <1>1, <1>2, <1>7 DEF AtWork
<1>9. PICK S, T, called : S = Range(sent) \cup {e} /\ called = Called(commands)
                          /\ T = Range(called) \cup Range(todo)
  OBVIOUS
<1>10. sent \in Seq(S) /\ e \in S /\ commands \in Seq(S)
  <2>1. sent \in Seq(S) /\ e \in S
    BY <1>9 DEF PutInv, Belongs
  <2> QED
    BY <1>6, <2>1, MadeType
<1>11. called \in Seq(T) /\ todo \in Seq(T) /\ todo # <<>>
  <2>1. DOMAIN called = 1 .. Len(commands) /\ Len(commands) \in Nat
    BY <1>9, <1>10 DEF Called
  <2>2. \A i \in DOMAIN called : called[i] \in T
    BY <1>9 DEF Range
  <2>3. \E m \in Nat : DOMAIN called = 1 .. m
    BY <2>1
  <2>4. called = [i \in DOMAIN called |-> called[i]]
    BY <1>9 DEF Called
  <2>5. called \in Seq(T)
    BY <2>2, <2>3, <2>4
  <2>6. todo \in Seq(Range(todo))
    BY <1>8 DEF AtCommand
  <2> QED
    BY <1>1, <1>2, <1>9, <2>5, <2>6
<1>12. /\ Append(called, c) \o rest = called \o todo
       /\ c = todo[1] /\ 1 \in DOMAIN todo /\ rest \in Seq(T)
       /\ \A i \in DOMAIN rest : i + 1 \in DOMAIN todo /\ rest[i] = todo[i + 1]
  BY <1>3, <1>11, MoveOne
<1>13. /\ c = [key |-> e.key, adapter |-> e.adapter]
       /\ \A i \in DOMAIN rest : rest[i] = [key |-> rest[i].key, adapter |-> rest[i].adapter]
  <2>1. \A i \in DOMAIN todo : todo[i] = [key |-> todo[i].key, adapter |-> todo[i].adapter]
    BY <1>8 DEF AtCommand
  <2> QED
    BY <1>12, <1>22, <2>1
<1>14. Made(id, sent') = Append(commands, e) /\ Called(Append(commands, e)) = Append(called, c)
  <2>1. Made(id, Append(sent, e)) = Append(Made(id, sent), e)
    BY <1>10, <1>22, MadeByOne
  <2>2. Called(Append(commands, e)) = Append(Called(commands), [key |-> e.key, adapter |-> e.adapter])
    BY <1>10, CalledFacts
  <2> QED
    BY <1>6, <1>9, <1>13, <1>22, <2>1, <2>2
<1>15. AtCommand(r, rest, Append(commands, e))
  <2>1. rest \in Seq(Range(rest))
    BY <1>12, InItsRange
  <2>2. called \o todo = FlattenSeq(ToSend(r))
    BY <1>8, <1>9 DEF AtCommand
  <2>3. Called(Append(commands, e)) \o rest = FlattenSeq(ToSend(r))
    BY <1>12, <1>14, <2>2
  <2> QED
    BY <1>8, <1>13, <2>1, <2>3 DEF AtCommand
<1>16. AtWork(next, Made(id, log), Append(commands, e), Made(id, stored))
  BY <1>5, <1>8, <1>15 DEF AtWork
<1>23. AtSets(next, log)
  BY <1>2, <1>4, <1>5 DEF Worker, AtSets
<1>17. Worker(next)'
  BY <1>1, <1>4, <1>5, <1>14, <1>16, <1>23 DEF Worker
<1>18. AllGrow(id)
  BY <1>1, <1>22 DEF AllGrow, GrowsBy
<1>19. ThreadsInv
  BY IInvParts
<1> QED
  BY <1>1, <1>2, <1>4, <1>5, <1>17, <1>18, <1>19, Works

(* A put is answered when it has come to its end.                          *)
LEMMA PutEndsPut ==
  ASSUME IInv, PutInv, NEW t \in Threads, PutEnds(t)
  PROVE  PutInv'
<1>1. /\ thread[t].at \in {"put", "command"} /\ thread[t].todo = <<>>
      /\ UNCHANGED <<log, sent, stored, made>> /\ Answers(t, [is |-> "success"])
  BY DEF PutEnds
<1>2. PICK s, id, r : s = thread[t] /\ id = s.id /\ r = s.request
  OBVIOUS
<1>3. PICK what, next : what = [is |-> "success"] /\ next = [s EXCEPT !.at = "done", !.answer = what]
  OBVIOUS
<1>4. /\ DOMAIN s = Fields /\ {"at", "answer", "request", "id", "begun"} \subseteq Fields
      /\ r \in Requests /\ thread[t].at # "idle" /\ Worker(s)
  BY <1>1, <1>2, BusyFacts DEF Fields, StepInv
<1>5. /\ next.at = "done" /\ next.answer.is = "success" /\ next.request = r /\ next.id = id
      /\ next.begun = s.begun /\ To(t, next)
  <2>1. To(t, next)
    BY <1>1, <1>2, <1>3 DEF Answers
  <2>2. what.is = "success"
    BY <1>3
  <2> QED
    BY <1>2, <1>3, <1>4, <2>1, <2>2
<1>6. ASSUME NEW added, NEW assets, s.at = "put", AtPut(r, <<>>, added)
      PROVE  AtEnd(r, TRUE, added, <<>>, assets)
  <2>1. PICK keys, device : keys = r.keys /\ device = Devices[PutDevice(r)]
    OBVIOUS
  <2>2. Len(keys) \in Nat /\ DOMAIN keys = 1 .. Len(keys) /\ Len(keys) - Len(<<>>) = Len(keys)
    BY <1>4, <2>1, RequestsAssumption
  <2>3. PICK left \in SUBSET Sets(r) : Keys(added) = PutsUpTo(r, Len(keys), left)
    BY <1>6, <2>1, <2>2 DEF AtPut, HasPut
  <2>4. {i \in 1 .. Len(keys) : Puts(r, keys[i])} = Named(r)
    BY <2>1, <2>2 DEF Puts, Named
  <2>5. Keys(added) = Subsequence(r.keys, Named(r) \ left)
    BY <2>1, <2>3, <2>4 DEF PutsUpTo
  <2>6. Exact(r, added, <<>>)
    BY <1>6, <2>5 DEF Exact, AtPut
  <2> QED
    BY <1>6, <2>6 DEF AtEnd, AtPut, IsPut
<1>7. ASSUME NEW commands, NEW assets, AtCommand(r, <<>>, commands), NEW S, commands \in Seq(S)
      PROVE  AtEnd(r, TRUE, <<>>, commands, assets)
  <2>1. PICK called, keys, adapters :
          called = Called(commands) /\ keys = r.keys /\ adapters = Devices[PutDevice(r)].adapters
    OBVIOUS
  <2>2. IsPut(r) /\ Word(r, "_type") = "command" /\ called \o <<>> = FlattenSeq(ToSend(r))
    BY <1>7, <2>1 DEF AtCommand
  <2>6. /\ DOMAIN called = DOMAIN commands /\ Len(called) = Len(commands) /\ called \o <<>> = called
        /\ \A i \in DOMAIN commands : called[i].key = commands[i].key /\ called[i].adapter = commands[i].adapter
    <3>1. called = [i \in 1 .. Len(commands) |-> [key |-> commands[i].key, adapter |-> commands[i].adapter]]
      BY <1>7, <2>1 DEF Called
    <3>2. PICK T : T = {[key |-> commands[i].key, adapter |-> commands[i].adapter] : i \in 1 .. Len(commands)}
      OBVIOUS
    <3>3. called \in Seq(T) /\ Len(called) = Len(commands)
      BY <1>7, <3>1, <3>2
    <3> QED
      BY <1>7, <3>1, <3>3
  <2>7. ToEach(adapters, keys, called)
    BY <1>4, <2>1, <2>2, <2>6, CommandsFacts DEF IsPut
  <2>8. adapters \in Seq(ToSet(adapters)) /\ keys \in Seq(ToSet(keys))
    BY <1>4, <2>1, <2>2, RequestsAssumption DEF IsPut
  <2>9. ASSUME NEW i \in DOMAIN adapters, NEW j \in DOMAIN keys
        PROVE  (i - 1) * Len(keys) + j \in DOMAIN commands
    <3>1. i \in 1 .. Len(adapters) /\ j \in 1 .. Len(keys) /\ Len(adapters) \in Nat /\ Len(keys) \in Nat
      BY <2>8
    <3>2. (i - 1) * Len(keys) + j \in 1 .. Len(adapters) * Len(keys)
      BY <3>1, RowIndex
    <3>3. Len(commands) = Len(adapters) * Len(keys)
      BY <2>6, <2>7 DEF ToEach
    <3> QED
      BY <1>7, <3>2, <3>3
  <2>10. ASSUME NEW i \in DOMAIN adapters, NEW j \in DOMAIN keys, NEW k, k = (i - 1) * Len(keys) + j
         PROVE  commands[k].adapter = adapters[i] /\ commands[k].key = keys[j]
    <3>1. called[k].adapter = adapters[i] /\ called[k].key = keys[j]
      BY <2>7, <2>10 DEF ToEach
    <3>2. k \in DOMAIN commands
      BY <2>9, <2>10
    <3> QED
      BY <2>6, <3>1, <3>2
  <2>11. Len(commands) = Len(adapters) * Len(keys)
    BY <2>6, <2>7 DEF ToEach
  <2>12. ToEach(adapters, keys, commands)
    BY <2>10, <2>11 DEF ToEach
  <2>3. ToEach(Devices[PutDevice(r)].adapters, r.keys, commands)
    BY <2>1, <2>12
  <2>4. DOMAIN <<>> = {}
    OBVIOUS
  <2>5. Exact(r, <<>>, commands)
    BY <2>2, <2>3, <2>4 DEF Exact
  <2> QED
    BY <2>2, <2>5 DEF AtEnd, IsPut
<1>8. PICK added, commands, assets :
        added = Made(id, log) /\ commands = Made(id, sent) /\ assets = Made(id, stored)
  OBVIOUS
<1>9. AtWork(s, added, commands, assets) /\ s.todo = <<>>
  BY <1>1, <1>2, <1>4, <1>8 DEF Worker
<1>10. commands \in Seq(Range(sent))
  BY <1>8, MadeType DEF PutInv, Belongs
<1>11. AtEnd(r, TRUE, added, commands, assets)
  <2>1. CASE s.at = "put"
    <3>1. AtPut(r, <<>>, added) /\ commands = <<>>
      BY <1>2, <1>9, <2>1 DEF AtWork
    <3> QED
      BY <1>6, <2>1, <3>1
  <2>2. CASE s.at = "command"
    <3>1. AtCommand(r, <<>>, commands) /\ added = <<>>
      BY <1>2, <1>9, <2>2 DEF AtWork
    <3> QED
      BY <1>7, <1>10, <3>1
  <2> QED
    BY <1>1, <1>2, <2>1, <2>2
<1>12. assets = <<>>
  BY <1>1, <1>2, <1>9 DEF AtWork
<1>13. AtWork(next, added, commands, assets)
  BY <1>5, <1>11 DEF AtWork
<1>14. s # Idle /\ id \in 1 .. made /\ made \in Nat
  BY <1>1, <1>2, <1>4, BusyFacts
<1>17. AtSets(next, log)
  <2>1. AtSets(s, log)
    BY <1>4 DEF Worker
  <2>2. Len(r.keys) \in Nat
    BY <1>4, RequestsAssumption
  <2>5. Len(r.keys) - Len(s.todo) = Len(r.keys)
    <3>1. s.todo = <<>> /\ Len(<<>>) = 0
      BY <1>1, <1>2
    <3> QED
      BY <2>2, <3>1
  <2>6. s.at = "put" => EffectiveUpTo(log, r, Len(r.keys) - Len(s.todo), s.begun)
    BY <1>2, <2>1 DEF AtSets
  <2>3. s.at = "put" => EffectiveUpTo(log, r, Len(r.keys), s.begun)
    BY <2>5, <2>6
  <2>4. s.at = "command" => Word(r, "_type") = "command"
    BY <1>2, <1>9 DEF AtWork, AtCommand
  <2> QED
    BY <1>1, <1>2, <1>5, <2>1, <2>3, <2>4 DEF AtSets
<1>15. Worker(next)'
  BY <1>1, <1>5, <1>8, <1>13, <1>14, <1>17 DEF Worker
<1>16. AllGrow(id) /\ ThreadsInv
  BY <1>1, NothingGrows, IInvParts
<1> QED
  BY <1>1, <1>2, <1>5, <1>14, <1>15, <1>16, Works

(* A request begins with a number of its own, and has made nothing.        *)
LEMMA MakePut ==
  ASSUME IInv, PutInv, NEW t \in Threads, NEW r \in Requests, Make(t, r)
  PROVE  PutInv'
<1>1. thread[t] = Idle /\ made' = made + 1 /\ UNCHANGED <<log, sent, stored>>
  BY DEF Make
<1>2. PICK id, format, first, begun :
        /\ id = made' /\ format = printerForAccepts(r.accept) /\ first = getFirstSequence
        /\ begun = Len(log)
  OBVIOUS
<1>3. PICK next : next = [at |-> "route", id |-> id, request |-> r, format |-> format, since |-> first,
                          begun |-> begun, window |-> <<>>, todo |-> <<>>, file |-> NoFile, answer |-> [is |-> "none"]]
  OBVIOUS
<1>4. To(t, next)
  BY <1>2, <1>3 DEF Make
<1>5. next.at = "route" /\ next.id = id /\ next.begun = begun
  BY <1>3
<1>6. made \in Nat
  BY IInvParts, RequestsAssumption
<1>7. id \in 1 .. made' /\ id = made + 1
  BY <1>1, <1>2, <1>6
<1>8. Made(id, log) = <<>> /\ Made(id, sent) = <<>> /\ Made(id, stored) = <<>>
  BY <1>6, <1>7, MadeNothing DEF PutInv
<1>9. AtWork(next, <<>>, <<>>, <<>>)
  BY <1>5 DEF AtWork
<1>12. AtSets(next, log)
  <2>1. begun \in 0 .. Len(log)
    BY <1>2, IInvParts
  <2> QED
    BY <1>5, <2>1 DEF AtSets
<1>10. Worker(next)'
  BY <1>1, <1>5, <1>7, <1>8, <1>9, <1>12 DEF Worker
<1>11. AllGrow(id) /\ ThreadsInv
  BY <1>1, NothingGrows, IInvParts
<1> QED
  BY <1>1, <1>2, <1>4, <1>5, <1>6, <1>7, <1>10, <1>11, Works

(* A thread is free, or nothing moves at all.                              *)
LEMMA FinishPut ==
  ASSUME IInv, PutInv, NEW t \in Threads, Finish(t)
  PROVE  PutInv'
<1>1. thread[t].at = "done" /\ UNCHANGED <<log, sent, stored, made>> /\ To(t, Idle)
  BY DEF Finish
<1>2. PICK id : id = thread[t].id
  OBVIOUS
<1>3. thread[t] # Idle /\ id \in 1 .. made /\ made \in Nat
  BY <1>1, <1>2, BusyFacts
<1>4. AllGrow(id) /\ ThreadsInv
  BY <1>1, NothingGrows, IInvParts
<1> QED
  BY <1>1, <1>2, <1>3, <1>4, Works

(* The adapters have the number 0, which no request has.                   *)
LEMMA ObservePut ==
  ASSUME IInv, PutInv, thread' = thread, made' = made, AllGrow(0)
  PROVE  PutInv'
<1>1. made \in Nat
  BY IInvParts, RequestsAssumption
<1>2. /\ Belongs(log, made)' /\ Belongs(sent, made)' /\ Belongs(stored, made)'
      /\ \A s : s.id # 0 /\ Worker(s) => Worker(s)'
  BY <1>1, OthersStay
<1>3. ASSUME NEW t \in Threads, thread'[t] # Idle
      PROVE  Worker(thread[t])'
  <2>1. PICK s : s = thread[t]
    OBVIOUS
  <2>2. Worker(s)
    BY <1>3, <2>1 DEF PutInv
  <2>3. s.id # 0
    BY <1>1, <2>2 DEF Worker
  <2>4. Worker(s)'
    BY <1>2, <2>2, <2>3
  <2> QED
    BY <2>1, <2>4 DEF Worker
<1> QED
  BY <1>2, <1>3 DEF PutInv

-----------------------------------------------------------------------------
(* Every step.                                                             *)

(* The agent starts with its own observations, and no request.             *)
LEMMA InitPut ==
  Init => PutInv
<1> SUFFICES ASSUME Init
             PROVE  PutInv
  OBVIOUS
<1>1. /\ log = InitialLog /\ sent = <<>> /\ stored = <<>> /\ made = 0
      /\ \A t \in Threads : thread[t] = Idle
  BY DEF Init
<1>2. ASSUME NEW i \in DOMAIN InitialLog
      PROVE  InitialLog[i].by = 0
  <2>1. InitialLog[i] \in InitialObservations
    BY InitialLogHolds, <1>2
  <2> QED
    BY <2>1 DEF InitialObservations
<1>3. InitialLog \in Seq(Range(InitialLog)) /\ <<>> \in Seq(Range(<<>>)) /\ DOMAIN <<>> = {}
  BY InitialLogIsSeq
<1>4. Belongs(log, 0) /\ Belongs(sent, 0) /\ Belongs(stored, 0)
  BY <1>1, <1>2, <1>3 DEF Belongs
<1> QED
  BY <1>1, <1>4 DEF PutInv

(* Every step keeps it.                                                    *)
LEMMA NextPut ==
  IInv /\ PutInv /\ [Next]_vars => PutInv'
<1> SUFFICES ASSUME IInv, PutInv, [Next]_vars
             PROVE  PutInv'
  OBVIOUS
<1>1. ASSUME NEW t \in Threads, Serve(t)
      PROVE  PutInv'
  BY <1>1, HttpRequestPut, ReadWindowPut, CheckParamsPut, PutValuePut, SendCommandPut,
     PutEndsPut, AssetPut, FindFilePut, ReadFilePut, CacheFilePut DEF Serve
<1>2. ASSUME NEW t \in Threads, Finish(t) \/ \E r \in Requests : Make(t, r)
      PROVE  PutInv'
  BY <1>2, FinishPut, MakePut
<1>3. CASE Observe
  <2>1. PICK key : log' = Append(log, [by |-> 0, device |-> FirstDevice, key |-> key, set |-> {},
                                      unavailable |-> key # "x"])
    BY <1>3 DEF Observe
  <2>4. PICK e : e = [by |-> 0, device |-> FirstDevice, key |-> key, set |-> {}, unavailable |-> key # "x"]
    OBVIOUS
  <2>2. log' = Append(log, e) /\ e.by = 0 /\ UNCHANGED <<sent, stored, made, thread>>
    BY <1>3, <2>1, <2>4 DEF Observe
  <2>3. AllGrow(0)
    BY <2>2 DEF AllGrow, GrowsBy
  <2> QED
    BY <2>2, <2>3, ObservePut
<1>4. ASSUME UNCHANGED <<log, sent, stored, made, thread>>
      PROVE  PutInv'
  BY <1>4, NothingGrows, ObservePut
<1>5. ASSUME NEW f \in Range(m_fileMap), RemoveFile(f) \/ \E size \in Sizes : WriteFile(f, size)
      PROVE  PutInv'
  BY <1>4, <1>5 DEF RemoveFile, WriteFile
<1>6. CASE UNCHANGED vars
  BY <1>4, <1>6 DEF vars
<1> QED
  BY <1>1, <1>2, <1>3, <1>5, <1>6 DEF Next

(* Only a request that httpRequest has accepted changes anything, and what *)
(* a put that is answered with success has made is exactly what its        *)
(* parameters say, whatever the adapters and the other requests have made  *)
(* between its parameters; the data sets it puts have had its entries      *)
(* since it began, those addToBuffer left out as well.                     *)
THEOREM PutsCorrect == Spec => []PutIsExact
<1>1. IInv /\ PutInv => PutIsExact
  <2> SUFFICES ASSUME IInv, PutInv, NEW t \in Threads, thread[t].at = "done",
                      NEW r, r = Request(t)
               PROVE  /\ OnlyAllowed(t)
                      /\ thread[t].answer.is = "success" /\ ~ IsAsset(r) =>
                           /\ Exact(r, By(t, log), By(t, sent))
                           /\ Word(r, "_type") # "command" =>
                                \A i \in Sets(r) : Effective(log, r, i, thread[t].begun)
    BY DEF PutIsExact
  <2>1. PICK s : s = thread[t]
    OBVIOUS
  <2>2. Worker(s) /\ s.at = "done" /\ r = s.request /\ r \in Requests
    BY <2>1, BusyFacts DEF Request, StepInv
  <2>3. AtEnd(r, s.answer.is = "success", By(t, log), By(t, sent), By(t, stored))
    BY <2>1, <2>2 DEF Worker, AtWork, By
  <2>4. CASE s.answer.is = "success"
    <3>1. OnlyAllowed(t)
      BY <2>1, <2>2, <2>3, <2>4 DEF AtEnd, OnlyAllowed, PutAllowed, Request
    <3>2. ~ IsAsset(r) => Exact(r, By(t, log), By(t, sent))
      BY <2>3, <2>4 DEF AtEnd
    <3>3. ASSUME ~ IsAsset(r), Word(r, "_type") # "command", NEW i \in Sets(r)
          PROVE  Effective(log, r, i, s.begun)
      <4>1. EffectiveUpTo(log, r, Len(r.keys), s.begun)
        BY <2>2, <2>4, <3>3 DEF Worker, AtSets
      <4>2. i <= Len(r.keys)
        BY <2>2, RequestsAssumption DEF Sets, Named
      <4> QED
        BY <4>1, <4>2 DEF EffectiveUpTo
    <3> QED
      BY <2>1, <3>1, <3>2, <3>3
  <2>5. CASE s.answer.is # "success"
    BY <2>1, <2>3, <2>5 DEF AtEnd, OnlyAllowed
  <2> QED
    BY <2>4, <2>5
<1>2. Init => PutInv
  BY InitPut
<1>3. IInv /\ PutInv /\ [Next]_vars => PutInv'
  BY NextPut
<1> QED
  BY <1>1, <1>2, <1>3, Invariance, PTL DEF Spec
=============================================================================
