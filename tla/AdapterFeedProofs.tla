------------------------- MODULE AdapterFeedProofs -------------------------
(***************************************************************************)
(* What an item shows of what its adapter sends is right for every set of  *)
(* adapters, devices, items and lines: FeedInv is inductive, and the       *)
(* properties of AdapterFeed follow from it.                               *)
(*                                                                         *)
(* The argument: a step changes what is known of an item i only if it is a *)
(* step of an adapter that feeds i.  For an item only adapter a feeds,     *)
(* every step is therefore one of seven kinds (a quiet one, the connection *)
(* comes up or goes down, a value is accepted, marked UNAVAILABLE, or      *)
(* added, the availability is posted), and each part of the invariant is   *)
(* kept by each kind.                                                      *)
(***************************************************************************)
EXTENDS AdapterFeed, BasicFacts

-----------------------------------------------------------------------------
(* Assets: the lines gathered and the lines still to come are what the     *)
(* peer began to send.                                                     *)
StartOf(lines, follow) == Len(lines) <= Len(follow) /\ lines = SubSeq(follow, 1, Len(lines))

Follows(a, g, l) ==
  /\ l.kind = "multiline" /\ l.id = g.id
  /\ StartOf(g.lines, l.follow)
  /\ Len(g.lines) + Len(peer[a]) = Len(l.follow)

(* The peer's remaining lines are the end of an asset's.                   *)
RestOf(a) ==
  \E l \in Lines[a] :
    /\ l.kind = "multiline" /\ EndOf(peer[a], l.follow)
    /\ \A g \in gathering[a] : g.conn = conn[a] => Follows(a, g, l)

AssetInv ==
  /\ \A a \in Adapters :
       /\ gathering[a] = {} => peer[a] = <<>>
       /\ peer[a] # <<>> => RestOf(a)
       /\ \A g \in gathering[a] : g.conn <= conn[a] /\ (g.conn = conn[a] => up[a] /\ peer[a] # <<>>)
  /\ \A s \in stored :
       s.began = s.ended =>
         \E a \in Adapters : \E l \in Lines[a] :
           l.kind = "multiline" /\ l.id = s.id /\ s.lines = Front(l.follow)

(* Times: the base of a connection is the time of its first line, and      *)
(* m_parseTime says how that is read.                                      *)
TimeInv ==
  \A a \in Adapters : Config[a].relativeTime /\ a \notin commanded /\ OneForm(a) =>
    /\ setting[a].relativeTime
    /\ ~ clock[a].base => timing[a].first = {}
    /\ clock[a].base => timing[a].first = {clock[a].offset}
    /\ clock[a].parse => \A l \in Lines[a] : Timed(l) => l.time.form = "date"
    /\ clock[a].base => \A l \in Lines[a] : Timed(l) => clock[a].parse = (l.time.form = "date")
    /\ job[a].does = "line" =>
         \A t \in timing[a].last, z \in timing[a].first : t >= z => job[a].offset = {t - z}

(* Jobs: what is left of a line, or of the devices of a connection.        *)
JobInv ==
  \A a \in Adapters :
    /\ job[a].does = "line" => up[a] /\ \A k \in DOMAIN job[a].todo : job[a].todo[k] \in Pairs[a]
    /\ job[a].does = "connected" =>
         /\ up[a] /\ Config[a].autoAvailable
         /\ \A k \in DOMAIN job[a].todo :
              \E m \in DOMAIN Config[a].allDevices : job[a].todo[k] = Config[a].allDevices[m]
    /\ job[a].does = "disconnected" => ~ up[a] /\ \A k \in DOMAIN job[a].todo : Reached(a, job[a].todo[k])
    /\ ~ up[a] => \A p \in post[a] : p.value = Down(p.item)
    /\ a \notin commanded => setting[a].conversionRequired

(* Only an adapter that feeds an item posts, owns or shows it.             *)
FeederInv ==
  /\ \A a \in Adapters : \A p \in post[a] : a \in Feeders[p.item]
  /\ \A i \in Items : source[i] # None => source[i] \in Feeders[i]
  /\ \A i \in Items : latest[i].by # None => latest[i].by \in Feeders[i]

-----------------------------------------------------------------------------
(* An item i that only a feeds.  What a's thread is about to add for it,   *)
(* and whether the loss of the connection has still to reach it.           *)
Pending(a, i) == {p \in post[a] : p.item = i}

Waits(a, i) == job[a].does = "disconnected" /\ \E k \in DOMAIN job[a].todo : job[a].todo[k] = i

(* The value shown, or about to be, in the units of the item.              *)
Shows(a, i, v) ==
  /\ Pending(a, i) = {} => Plain(latest[i].value) = v
  /\ \A p \in Pending(a, i) : Displayed(i, p.value) = v

ShowsText(a, i, w) ==
  /\ Pending(a, i) = {} => latest[i].value.text = w
  /\ \A p \in Pending(a, i) : Said(i, p.value).text = w

Untouched(a, i) ==
  source[i] = None /\ ~ Bypassed(a, i) =>
    /\ latest[i].value.text = Unavailable /\ latest[i].by = None
    /\ Pending(a, i) = {} /\ received[i] = Word(Unavailable)

Deduped(a, i) ==
  /\ Config[a].dupCheck /\ ~ Bypassed(a, i)
  /\ Def[i].representation = "VALUE" /\ ~ Def[i].discrete /\ Unfiltered(i)

MarkedOnce(a, i) ==
  Deduped(a, i) /\ lastValue[i] = Down(i) => ShowsText(a, i, Unavailable)

Current(a, i) ==
  Covered(a, i) =>
    /\ up[a] => latest[i].value.text = Unavailable \/ (latest[i].by = a /\ latest[i].conn = conn[a])
    /\ ~ up[a] => latest[i].value.text = Unavailable \/ Waits(a, i) \/ Pending(a, i) # {}

ConvInv(a, i) ==
  a \notin commanded => conv[i] = NewConversion \/ conv[i] = Settled(i, NewConversion)

(* m_lastValue is what is shown, once something was.                       *)
LastIsShown(a, i) ==
  Deduped(a, i) /\ SentAsShown(a, i) /\ a \notin commanded =>
    IF latest[i].by = None /\ Pending(a, i) = {}
      THEN lastValue[i] = Word("") /\ latest[i].value.text = Unavailable
      ELSE Shows(a, i, Displayed(i, lastValue[i]))

ReceivedIsShown(a, i) ==
  /\ Covered(a, i) /\ Unfiltered(i) /\ ~ Bypassed(a, i) /\ a \notin commanded
  /\ Config[a].dupCheck => SentAsShown(a, i)
  => \/ Shows(a, i, Displayed(i, received[i]))
     \/ received[i].text = "" /\ latest[i].by = None /\ Pending(a, i) = {}

(* What is compared and what is shown determine each other.                *)
Canonical(i, v) ==
  ~ v.trigger /\ (Def[i].factor > 1 /\ ~ IsCondition(i) => v.text \in {"number", Unavailable})

Comparable(a, i) ==
  /\ SentAsShown(a, i)
  /\ \A v \in SentValues[a][i] :
       /\ v.trigger => Def[i].reset
       /\ Def[i].factor > 1 /\ ~ IsCondition(i) => v.text \in {"number", Unavailable}

(* Only a condition may be published as UNAVAILABLE twice.                 *)
Differ(i, u, v) == u # v \/ (IsCondition(i) /\ u = Word(Unavailable))

NewIsOther(a, i) ==
  Deduped(a, i) /\ Comparable(a, i) /\ a \notin commanded =>
    /\ latest[i].by = a \/ Pending(a, i) # {} => Canonical(i, lastValue[i])
    /\ latest[i].by = a => \A p \in Pending(a, i) : Differ(i, Displayed(i, p.value), Plain(latest[i].value))
    /\ latest[i].by = a /\ before[i].by = a => Differ(i, Plain(latest[i].value), Plain(before[i].value))

(* m_lastSampleValue is the sample that is shown.                          *)
Sampled(a, i) ==
  /\ ~ Bypassed(a, i) /\ a \notin commanded /\ SentAsShown(a, i)
  /\ Def[i].delta > 0 /\ Def[i].period = 0 /\ Def[i].category = "SAMPLE" /\ ~ Def[i].discrete

Observation(i, v) == Observed(i, Settled(i, NewConversion), v)

Apart(i, m, n) == m - n \notin (1 - Def[i].delta) .. (Def[i].delta - 1)

SampleIsShown(a, i) ==
  Sampled(a, i) =>
    /\ Pending(a, i) = {} /\ latest[i].value.text = "number" => lastSample[i] = {latest[i].value.n}
    /\ \A p \in Pending(a, i) : Observation(i, p.value).text = "number" =>
         /\ lastSample[i] = {Observation(i, p.value).n}
         /\ latest[i].value.text = "number" => Apart(i, Observation(i, p.value).n, latest[i].value.n)
    /\ latest[i].value.text = "number" /\ before[i].value.text = "number" =>
         Apart(i, latest[i].value.n, before[i].value.n)

(* A period runs only while a sample is shown.                             *)
Timely(a, i) ==
  /\ Covered(a, i) /\ ~ Bypassed(a, i) /\ Def[i].period > 0 /\ ~ IsCondition(i)
  /\ \A v \in SentValues[a][i] : v.text = "number"
  => /\ Def[i].discrete => lastOffset[i] = {}
     /\ lastOffset[i] # {} => ShowsText(a, i, "number")
     /\ received[i].text = "number" => ShowsText(a, i, "number")

ItemInv(a, i) ==
  /\ Untouched(a, i) /\ MarkedOnce(a, i) /\ Current(a, i) /\ ConvInv(a, i)
  /\ LastIsShown(a, i) /\ ReceivedIsShown(a, i) /\ NewIsOther(a, i)
  /\ SampleIsShown(a, i) /\ Timely(a, i)

PrivateInv == \A a \in Adapters, i \in Items : Private(a, i) => ItemInv(a, i)

FeedInv == TypeOK /\ AssetInv /\ TimeInv /\ JobInv /\ FeederInv /\ PrivateInv

-----------------------------------------------------------------------------
(* s has exactly the elements of the first n sequences of q.               *)
FlatUpTo(s, q, n) ==
  /\ \A k \in 1 .. n : \A j \in 1 .. Len(q[k]) : \E m \in 1 .. Len(s) : s[m] = q[k][j]
  /\ \A m \in 1 .. Len(s) : \E k \in 1 .. n : \E j \in 1 .. Len(q[k]) : s[m] = q[k][j]

(* FlattenSeq has the elements of all the sequences.                       *)
LEMMA FlattenFacts ==
  ASSUME NEW S, NEW q \in Seq(Seq(S)), q # <<>>, q[1] # <<>>
  PROVE  /\ FlattenSeq(q) \in Seq(S) /\ FlattenSeq(q) # <<>>
         /\ FlatUpTo(FlattenSeq(q), q, Len(q))
<1> DEFINE N == Len(q)
           f == CHOOSE f : IsFlat(f, q, N)
           T == {n \in 0 .. N : n = 0 \/ (f[n] \in Seq(S) /\ f[n] # <<>> /\ FlatUpTo(f[n], q, n))}
<1>1. N \in Nat \ {0} /\ \A n \in 1 .. N : q[n] \in Seq(S)
  OBVIOUS
<1>2. FlattenSeq(q) = f[N]
  BY <1>1 DEF FlattenSeq, IsFlat
<1>3. IsFlat(f, q, N)
  BY <1>1, FlatExists
<1> HIDE DEF N, f
<1>4. \A n \in 1 .. N : f[n] = IF n = 1 THEN q[n] ELSE f[n - 1] \o q[n]
  BY <1>3 DEF IsFlat
<1>5. 0 \in T
  BY <1>1
<1>6. ASSUME NEW n \in 0 .. N - 1, n \in T
      PROVE  n + 1 \in T
  <2>1. n + 1 \in 1 .. N /\ n + 1 \in 0 .. N /\ (n + 1) - 1 = n
    BY <1>1
  <2>2. PICK s : s = f[n + 1]
    OBVIOUS
  <2>3. PICK r : r = q[n + 1]
    OBVIOUS
  <2>4. r \in Seq(S)
    BY <1>1, <2>1, <2>3
  <2>5. CASE n = 0
    <3>1. s = r /\ r # <<>>
      BY <1>4, <2>1, <2>2, <2>3, <2>5
    <3>2. FlatUpTo(s, q, 1)
      BY <2>3, <2>4, <2>5, <3>1 DEF FlatUpTo
    <3> QED
      BY <2>1, <2>2, <2>4, <2>5, <3>1, <3>2
  <2>6. CASE n # 0
    <3>1. PICK t : t = f[n]
      OBVIOUS
    <3>2. t \in Seq(S) /\ t # <<>> /\ FlatUpTo(t, q, n) /\ s = t \o r
      <4>1. n + 1 # 1
        BY <2>6
      <4>2. f[n + 1] = f[n] \o q[n + 1]
        BY <1>4, <2>1, <4>1
      <4> QED
        BY <1>6, <2>2, <2>3, <2>6, <3>1, <4>2
    <3>3. /\ s \in Seq(S) /\ Len(s) = Len(t) + Len(r)
          /\ \A m \in 1 .. Len(t) : s[m] = t[m]
          /\ \A m \in 1 .. Len(r) : s[Len(t) + m] = r[m]
          /\ Len(t) \in Nat /\ Len(r) \in Nat /\ Len(t) > 0
      BY <2>4, <3>2
    <3>4. ASSUME NEW k \in 1 .. n + 1, NEW j \in 1 .. Len(q[k])
          PROVE  \E m \in 1 .. Len(s) : s[m] = q[k][j]
      <4>1. CASE k = n + 1
        <5>1. j \in 1 .. Len(r) /\ q[k][j] = r[j]
          BY <2>3, <4>1
        <5>2. Len(t) + j \in 1 .. Len(s)
          BY <3>3, <5>1
        <5> QED
          BY <3>3, <5>1, <5>2
      <4>2. CASE k \in 1 .. n
        <5>1. PICK m \in 1 .. Len(t) : t[m] = q[k][j]
          BY <3>2, <4>2 DEF FlatUpTo
        <5>2. m \in 1 .. Len(s)
          BY <3>3
        <5>3. s[m] = q[k][j]
          BY <3>3, <5>1
        <5> QED
          BY <5>2, <5>3
      <4> QED
        BY <4>1, <4>2
    <3>5. ASSUME NEW m \in 1 .. Len(s)
          PROVE  \E k \in 1 .. n + 1 : \E j \in 1 .. Len(q[k]) : s[m] = q[k][j]
      <4>1. CASE m \in 1 .. Len(t)
        <5>1. PICK k \in 1 .. n : \E j \in 1 .. Len(q[k]) : t[m] = q[k][j]
          BY <3>2, <4>1 DEF FlatUpTo
        <5>2. k \in 1 .. n + 1 /\ s[m] = t[m]
          BY <3>3, <4>1, <5>1
        <5> QED
          BY <5>1, <5>2
      <4>2. CASE m \notin 1 .. Len(t)
        <5>1. m - Len(t) \in 1 .. Len(r) /\ Len(t) + (m - Len(t)) = m
          BY <3>3, <4>2
        <5>2. s[m] = r[m - Len(t)]
          BY <3>3, <5>1
        <5>3. n + 1 \in 1 .. n + 1
          BY <2>1
        <5> QED
          BY <2>3, <5>1, <5>2, <5>3
      <4> QED
        BY <4>1, <4>2
    <3>6. FlatUpTo(s, q, n + 1)
      BY <3>4, <3>5 DEF FlatUpTo
    <3>7. s # <<>>
      BY <3>3
    <3> QED
      BY <2>1, <2>2, <3>3, <3>6, <3>7
  <2> QED
    BY <2>5, <2>6
<1> HIDE DEF T
<1>7. \A n \in 0 .. N : n \in T
  BY <1>1, <1>5, <1>6, UpTo
<1>8. N \in T /\ N # 0
  BY <1>1, <1>7
<1> QED
  BY <1>2, <1>8 DEF T, N

-----------------------------------------------------------------------------
(* Types of the operators.                                                 *)

(* A key leads to an item of the device, or to none.                       *)
LEMMA ItemFound ==
  ASSUME NEW d \in Devices \cup {None}, NEW key, getDeviceDataItem(d, key) # None
  PROVE  /\ d \in Devices /\ getDeviceDataItem(d, key) \in Items
         /\ Names(key, getDeviceDataItem(d, key))
<1> DEFINE items   == IF d = None THEN {} ELSE ToSet(DeviceItems[d])
           sources == {i \in items : Def[i].source = key}
           names   == {i \in items : Def[i].name = key}
           ids     == {i \in items : Def[i].id = key}
           found   == IF sources # {} THEN sources ELSE IF names # {} THEN names ELSE ids
<1>1. getDeviceDataItem(d, key) = IF found = {} THEN None ELSE CHOOSE i \in found : TRUE
  BY DEF getDeviceDataItem
<1>2. found \subseteq items
  OBVIOUS
<1>3. found # {}
  BY <1>1
<1>4. d \in Devices
  <2>1. d # None
    BY <1>2, <1>3
  <2> QED
    BY <2>1
<1>5. items \subseteq Items
  <2>1. items = ToSet(DeviceItems[d]) /\ DeviceItems[d] \in Seq(Items)
    BY <1>4, FeedAssumption
  <2> QED
    BY <2>1 DEF ToSet
<1>6. getDeviceDataItem(d, key) \in found
  <2> HIDE DEF found
  <2> QED
    BY <1>1, <1>3
<1> HIDE DEF found, items
<1> QED
  BY <1>2, <1>4, <1>5, <1>6 DEF Names

(* The words the agent itself posts are values.                            *)
LEMMA WordType ==
  /\ Word(Unavailable) \in Value /\ Word(Available) \in Value /\ Word("") \in Value
  /\ Word(Unavailable).text = Unavailable /\ Word(Available).text = Available
  /\ \A i \in Items : Down(i) \in Value
<1>1. \A w \in Text : Word(w) \in [text : Text, n : Int, trigger : BOOLEAN]
  BY DEF Word
<1>2. \A w : Word(w).n = 0 /\ Word(w).text = w /\ Word(w).trigger = FALSE
  BY DEF Word
<1>3. \A w \in Text : Word(w) \in Value
  BY <1>1, <1>2 DEF Value
<1>4. Unavailable \in Text /\ ConditionUnavailable \in Text /\ Available \in Text /\ "" \in Text
  BY DEF Text
<1>5. \A i \in Items : Down(i) \in {Word(Unavailable), Word(ConditionUnavailable)}
  BY DEF Down
<1> QED
  BY <1>2, <1>3, <1>4, <1>5

(* What is known of a value.                                               *)
LEMMA ValueFacts ==
  ASSUME NEW v \in Value
  PROVE  /\ v.text \in Text /\ v.n \in Int /\ v.trigger \in BOOLEAN
         /\ v.text # "number" => v.n = 0
         /\ v.trigger => v.text # Unavailable
         /\ v = [text |-> v.text, n |-> v.n, trigger |-> v.trigger]
BY DEF Value

(* What is known of an item's definition.                                  *)
LEMMA DefFacts ==
  ASSUME NEW i \in Items
  PROVE  /\ Def[i].delta \in Nat /\ Def[i].period \in Nat /\ Def[i].factor \in Nat
         /\ Def[i].discrete \in BOOLEAN /\ Def[i].reset \in BOOLEAN
BY FeedAssumption DEF ItemDef

(* The operations on an item's conversion keep its type.                   *)
LEMMA ConversionType ==
  ASSUME NEW i \in Items, NEW c \in Conversion
  PROVE  /\ Settled(i, c) \in Conversion
         /\ FilterSettles(i, c) \in Conversion
         /\ \A a \in Adapters : setDataSource(a, c) \in Conversion
         /\ \A f \in Nat \ {0} : setConversionFactor(c, f) \in Conversion
         /\ NewConversion \in Conversion
<1>1. Def[i].factor \in Nat
  BY DefFacts
<1>2. conversionRequired(i, c) \in Conversion
  BY DEF conversionRequired, Conversion
<1>3. \A x \in Conversion : computeConversionFactors(i, x) \in Conversion
  BY <1>1 DEF computeConversionFactors, Conversion
<1>4. Settled(i, c) \in Conversion
  BY <1>2, <1>3 DEF Settled
<1>5. FilterSettles(i, c) \in Conversion
  BY <1>4 DEF FilterSettles
<1>6. \A a \in Adapters : setDataSource(a, c) \in Conversion
  BY DEF setDataSource, Conversion
<1>7. \A f \in Nat \ {0} : setConversionFactor(c, f) \in Conversion
  BY DEF setConversionFactor, Conversion
<1>8. NewConversion \in Conversion
  BY DEF NewConversion, Conversion
<1> QED
  BY <1>4, <1>5, <1>6, <1>7, <1>8

(* What a reset, or a condition, makes of a value is a value.              *)
LEMMA SaidType ==
  ASSUME NEW i \in Items, NEW v \in Value
  PROVE  /\ AfterReset(i, v) \in Value /\ Said(i, v) \in Value
         /\ ~ v.trigger => AfterReset(i, v) = v
         /\ AfterReset(i, v) = v \/ AfterReset(i, v).text = "number"
<1>1. PICK n : n = CHOOSE x \in Def[i].initial : TRUE
  OBVIOUS
<1>2. Def[i].initial # {} => n \in Int
  <2>1. Def[i].initial \subseteq Int
    BY FeedAssumption DEF ItemDef
  <2> QED
    BY <1>1, <2>1
<1>3. PICK new : new = [text |-> "number", n |-> n, trigger |-> TRUE]
  OBVIOUS
<1>4. Def[i].initial # {} => new \in Value
  <2>1. "number" \in Text /\ "number" # Unavailable
    BY DEF Text, Unavailable
  <2> QED
    BY <1>2, <1>3, <2>1 DEF Value
<1>5. AfterReset(i, v) = IF v.trigger /\ Def[i].reset /\ Def[i].initial # {} THEN new ELSE v
  BY <1>1, <1>3 DEF AfterReset
<1>6. new.text = "number"
  BY <1>3
<1>7. AfterReset(i, v) \in Value
  BY <1>4, <1>5
<1>8. Said(i, v) \in Value
  <2>1. Said(i, v) = Word(Unavailable) \/ Said(i, v) = AfterReset(i, v)
    BY DEF Said
  <2> QED
    BY <1>7, <2>1, WordType
<1> QED
  BY <1>5, <1>6, <1>7, <1>8

(* An observation's value is a value.                                      *)
LEMMA ObservedType ==
  ASSUME NEW i \in Items, NEW c \in Conversion, NEW v \in Value
  PROVE  Observed(i, c, v) \in Value
<1>1. PICK w \in Value : w = Said(i, v)
  BY SaidType
<1>2. PICK n \in Int : n = convertValue(c, w.n)
  BY ValueFacts DEF convertValue, Conversion
<1>3. CASE HasUnits(i, w) /\ c.required = "yes"
  <2>1. Observed(i, c, v) = [text |-> "number", n |-> n, trigger |-> w.trigger /\ Def[i].reset]
    BY <1>1, <1>2, <1>3 DEF Observed
  <2>2. "number" \in Text /\ "number" # Unavailable
    BY DEF Text, Unavailable
  <2>3. (w.trigger /\ Def[i].reset) \in BOOLEAN
    BY ValueFacts, DefFacts
  <2>4. PICK t \in BOOLEAN : t = (w.trigger /\ Def[i].reset)
    BY <2>3
  <2>5. Observed(i, c, v) = [text |-> "number", n |-> n, trigger |-> t]
    BY <2>1, <2>4, Zenon
  <2> QED
    BY <2>2, <2>5 DEF Value
<1>4. CASE ~ (HasUnits(i, w) /\ c.required = "yes")
  BY <1>1, <1>4 DEF Observed
<1> QED
  BY <1>3, <1>4

(* What the filters answer.                                                *)
Answer == [drop : BOOLEAN, value : Value, sample : SUBSET Int, offset : SUBSET Nat]

(* A filter answers whether to drop, and what to remember.                 *)
LEMMA AnswerType ==
  ASSUME TypeOK, NEW a \in Adapters, NEW i \in Items, NEW v \in Value, NEW c \in Conversion,
         NEW offset \in SUBSET Nat
  PROVE  AdapterIsDuplicate(a, i, v, offset, c) \in Answer
<1>1. lastValue[i] \in Value /\ lastSample[i] \in SUBSET Int /\ lastOffset[i] \in SUBSET Nat
  BY DEF TypeOK, FilterType
<1>2. Passes(i) \in Answer
  BY <1>1 DEF Passes, Answer
<1>3. isDuplicate(i, v) \in Answer
  BY <1>1 DEF isDuplicate, Answer
<1>4. ASSUME NEW n \in Int
      PROVE  isFiltered(i, n, offset) \in Answer
  <2>1. TimePassed(i, offset) \in SUBSET Nat
    BY <1>1 DEF TimePassed
  <2> HIDE DEF TimePassed
  <2> QED
    BY <1>1, <1>4, <2>1 DEF isFiltered, Answer
<1>5. convertValue(c, v.n) \in Int
  BY ValueFacts DEF convertValue, Conversion
<1> HIDE DEF convertValue
<1> QED
  BY <1>2, <1>3, <1>4, <1>5 DEF AdapterIsDuplicate

-----------------------------------------------------------------------------
(* Typing.                                                                 *)

(* A job is well-formed when its steps are of its kind.                    *)
LEMMA DoingType ==
  ASSUME NEW does \in {"idle", "line", "connected", "disconnected"}, NEW todo \in Steps(does),
         NEW first \in BOOLEAN, NEW offset \in SUBSET Nat, does = "idle" <=> todo = <<>>
  PROVE  /\ IsJob(Doing(does, todo, first, offset))
         /\ Doing(does, todo, first, offset).does = does
         /\ Doing(does, todo, first, offset).todo = todo
         /\ Doing(does, todo, first, offset).offset = offset
BY DEF Doing, IsJob

(* A thread with nothing to do is one kind of job.                         *)
LEMMA IdleType == IsJob(Idle) /\ Idle.does = "idle" /\ Idle.todo = <<>> /\ Idle.offset = {}
BY DEF Idle, IsJob, Doing, Steps

(* Initially settings, jobs, filters and values have their types.          *)
LEMMA TypeInit == Init => TypeOK
<1> SUFFICES ASSUME Init PROVE TypeOK
  OBVIOUS
<1>1. IsJob(Idle)
  BY IdleType
<1>2. up \in [Adapters -> BOOLEAN] /\ conn \in [Adapters -> 0 .. MaxBreaks]
  <2>1. up = [a \in Adapters |-> FALSE] /\ conn = [a \in Adapters |-> 0]
    BY DEF Init
  <2> QED
    BY <2>1, FeedAssumption
<1>3. sent \in [Adapters -> Nat] /\ \A a \in Adapters : sent[a] <= MaxLines[a]
  <2>1. sent = [a \in Adapters |-> 0]
    BY DEF Init
  <2> QED
    BY <2>1, FeedAssumption
<1>4. /\ peer \in [Adapters -> Seq(AssetLine)]
      /\ timing \in [Adapters -> [first : SUBSET Nat, last : SUBSET Nat]]
  <2>1. peer = [a \in Adapters |-> <<>>] /\ timing = [a \in Adapters |-> [first |-> {}, last |-> {}]]
    BY DEF Init
  <2> QED
    BY <2>1
<1>5. job = [a \in Adapters |-> job[a]] /\ \A a \in Adapters : IsJob(job[a])
  BY <1>1 DEF Init
<1>6. post \in [Adapters -> SUBSET Posted] /\ \A a \in Adapters : AtMostOne(post[a])
  BY DEF Init, AtMostOne
<1>7. setting \in [Adapters -> Setting] /\ clock \in [Adapters -> Clock]
  BY FeedAssumption DEF Init, Setting, Clock, AdapterConfig
<1>8. gathering \in [Adapters -> SUBSET Gathered] /\ \A a \in Adapters : AtMostOne(gathering[a])
  BY DEF Init, AtMostOne
<1>9. /\ source \in [Items -> Adapters \cup {None}] /\ lastValue \in [Items -> Value]
      /\ lastSample \in [Items -> SUBSET Int] /\ lastOffset \in [Items -> SUBSET Nat]
  BY WordType DEF Init
<1>10. conv \in [Items -> Conversion] /\ received \in [Items -> Value]
  BY WordType DEF Init, Conversion, NewConversion
<1>11. latest \in [Items -> Published] /\ before \in [Items -> Published]
  <2>1. 0 \in 0 .. MaxBreaks
    BY FeedAssumption
  <2> QED
    BY <2>1, WordType DEF Init, Published
<1>12. commanded \subseteq Adapters
  BY DEF Init
<1> QED
  BY <1>2, <1>3, <1>4, <1>5, <1>6, <1>7, <1>8, <1>9, <1>10, <1>11, <1>12
  DEF TypeOK, ConnType, LineType, JobType, PostType, GatherType, FilterType

(* The steps of a job are its kind's.                                      *)
LEMMA JobFacts ==
  ASSUME TypeOK, NEW a \in Adapters
  PROVE  /\ job = [b \in Adapters |-> job[b]] /\ IsJob(job[a])
         /\ job[a].does = "line" => job[a].todo \in Seq(Pair) /\ job[a].todo # <<>>
         /\ job[a].does = "connected" => job[a].todo \in Seq(Devices) /\ job[a].todo # <<>>
         /\ job[a].does = "disconnected" => job[a].todo \in Seq(Items) /\ job[a].todo # <<>>
         /\ job[a].offset \subseteq Nat
BY DEF TypeOK, JobType, IsJob, Steps

(* A job goes on with the rest of its steps, or is done.                   *)
LEMMA AdvanceFacts ==
  ASSUME TypeOK, NEW a \in Adapters, Advance(a), job[a].does # "idle", NEW S, job[a].todo \in Seq(S)
  PROVE  /\ job' = [b \in Adapters |-> job'[b]]
         /\ \A b \in Adapters \ {a} : job'[b] = job[b]
         /\ IsJob(job'[a])
         /\ Tail(job[a].todo) = <<>> => job'[a] = Idle
         /\ Tail(job[a].todo) # <<>> =>
              /\ job'[a].does = job[a].does /\ job'[a].todo = Tail(job[a].todo)
              /\ job'[a].offset = job[a].offset
<1>1. PICK j : j = job[a]
  OBVIOUS
<1>2. /\ job = [b \in Adapters |-> job[b]] /\ IsJob(j) /\ j.todo # <<>> /\ j.todo \in Seq(S)
  BY <1>1, JobFacts DEF IsJob
<1>3. IsJob(Idle)
  BY IdleType
<1> DEFINE next == Doing(j.does, Tail(j.todo), FALSE, j.offset)
<1>4. Tail(j.todo) # <<>> => IsJob(next)
  <2>1. CASE Tail(j.todo) # <<>>
    <3>1. PICK Q : Steps(j.does) = Seq(Q)
      BY DEF Steps
    <3>2. Tail(j.todo) \in Seq(Q)
      BY <1>2, <3>1 DEF IsJob
    <3>3. j.does \in {"line", "connected", "disconnected"} /\ j.offset \in SUBSET Nat
      BY <1>2 DEF IsJob
    <3>4. Tail(j.todo) \in Steps(j.does) /\ (j.does = "idle" <=> Tail(j.todo) = <<>>)
      BY <2>1, <3>1, <3>2, <3>3
    <3>5. j.does \in {"idle", "line", "connected", "disconnected"} /\ FALSE \in BOOLEAN
      BY <3>3
    <3>6. PICK does, todo, offset : does = j.does /\ todo = Tail(j.todo) /\ offset = j.offset
      OBVIOUS
    <3>7. IsJob(Doing(does, todo, FALSE, offset))
      <4>1. does \in {"idle", "line", "connected", "disconnected"} /\ todo \in Steps(does)
        BY <3>4, <3>5, <3>6
      <4>2. (does = "idle" <=> todo = <<>>) /\ offset \in SUBSET Nat
        BY <3>3, <3>4, <3>6
      <4> QED
        BY <3>5, <4>1, <4>2, DoingType
    <3>8. next = Doing(does, todo, FALSE, offset)
      BY <3>6, Zenon
    <3> HIDE DEF next
    <3> QED
      BY <3>7, <3>8, Zenon
  <2> QED
    BY <2>1
<1>5. job' = [job EXCEPT ![a] = IF Tail(j.todo) = <<>> THEN Idle ELSE next]
  BY <1>1 DEF Advance
<1>6. /\ next.does = j.does /\ next.todo = Tail(j.todo) /\ next.offset = j.offset
  BY DEF Doing
<1> HIDE DEF next
<1> QED
  BY <1>1, <1>2, <1>3, <1>4, <1>5, <1>6

(* What an adapter asks the filters stays in their types.                  *)
LEMMA AskType ==
  ASSUME TypeOK, NEW a \in Adapters, NEW i \in Items, NEW check \in Value, NEW v \in Value,
         NEW offset \in SUBSET Nat, NEW c \in Conversion, Ask(a, i, check, v, offset, c)
  PROVE  FilterType' /\ PostType'
<1>1. PICK settled \in Conversion : settled = FilterSettles(i, c)
  BY ConversionType
<1>2. PICK answer \in Answer : answer = AdapterIsDuplicate(a, i, check, offset, settled)
  BY <1>1, AnswerType
<1>3. /\ lastValue'  = [lastValue EXCEPT ![i] = answer.value]
      /\ lastSample' = [lastSample EXCEPT ![i] = answer.sample]
      /\ lastOffset' = [lastOffset EXCEPT ![i] = answer.offset]
      /\ conv' = [conv EXCEPT ![i] = settled]
      /\ post' = [post EXCEPT ![a] = IF answer.drop THEN {} ELSE {[item |-> i, value |-> v]}]
  BY <1>1, <1>2 DEF Ask
<1>4. FilterType'
  BY <1>1, <1>2, <1>3 DEF TypeOK, FilterType, Answer
<1>5. PostType'
  <2>1. PICK new : new = IF answer.drop THEN {} ELSE {[item |-> i, value |-> v]}
    OBVIOUS
  <2>2. new \in SUBSET Posted /\ AtMostOne(new)
    BY <2>1 DEF Posted, AtMostOne
  <2>3. post' = [post EXCEPT ![a] = new]
    BY <1>3, <2>1
  <2> QED
    BY <2>2, <2>3 DEF TypeOK, PostType
<1> QED
  BY <1>4, <1>5

(* The times of lines are natural numbers.                                 *)
LEMMA TimeRange == TimeWidth \in Nat \ {0} /\ \A t \in 0 .. TimeWidth - 1 : t \in Nat
BY SMT DEF TimeWidth

(* A line is text, the end of an asset, or one of the peer's; what follows *)
(* it is of an asset.                                                      *)
LEMMA ReceivesType ==
  ASSUME TypeOK, NEW a \in Adapters, NEW l, Receives(a, l)
  PROVE  /\ LineType' /\ ConnType'
         /\ l \in AssetLine \cup Lines[a]
<1>1. peer[a] \in Seq(AssetLine) /\ sent[a] \in Nat /\ MaxLines[a] \in Nat
  BY FeedAssumption DEF TypeOK, LineType
<1>2. l \in AssetLine \cup Lines[a]
  BY <1>1 DEF Receives, Incoming
<1>3. PICK rest : rest = IF peer[a] # <<>> THEN Tail(peer[a]) ELSE IF l.kind = "multiline" THEN l.follow ELSE <<>>
  OBVIOUS
<1>4. rest \in Seq(AssetLine)
  <2>1. CASE peer[a] # <<>>
    BY <1>1, <1>3, <2>1
  <2>2. CASE peer[a] = <<>>
    <3>1. l \in Lines[a]
      BY <2>2 DEF Receives, Incoming
    <3> QED
      BY <1>3, <2>2, <3>1, LineAssumption DEF EndsWith
  <2> QED
    BY <2>1, <2>2
<1>5. peer' = [peer EXCEPT ![a] = rest] /\ sent' = [sent EXCEPT ![a] = @ + 1] /\ sent[a] < MaxLines[a]
  BY <1>3 DEF Receives
<1>6. peer' \in [Adapters -> Seq(AssetLine)]
  BY <1>4, <1>5 DEF TypeOK, LineType
<1>7. sent' \in [Adapters -> Nat] /\ \A b \in Adapters : sent'[b] <= MaxLines[b]
  BY <1>1, <1>5 DEF TypeOK, LineType
<1>8. timing' \in [Adapters -> [first : SUBSET Nat, last : SUBSET Nat]]
  <2>1. CASE Timed(l) /\ gathering[a] = {}
    <3>1. l \in Lines[a]
      BY <1>2, <2>1 DEF Timed, AssetLine
    <3>2. PICK t \in Nat : t = l.time.t
      <4>1. l.time.t \in 0 .. TimeWidth - 1
        BY <2>1, <3>1, LineAssumption
      <4>2. l.time.t \in Nat
        BY <4>1, TimeRange
      <4> QED
        BY <4>2
    <3>3. PICK new : new = [first |-> IF timing[a].first = {} THEN {t} ELSE timing[a].first, last |-> {t}]
      OBVIOUS
    <3>4. timing' = [timing EXCEPT ![a] = new]
      BY <2>1, <3>2, <3>3 DEF Receives
    <3>5. new \in [first : SUBSET Nat, last : SUBSET Nat]
      <4>1. timing[a] \in [first : SUBSET Nat, last : SUBSET Nat]
        BY DEF TypeOK, LineType
      <4>2. timing[a].first \in SUBSET Nat
        BY <4>1
      <4> QED
        BY <3>2, <3>3, <4>2
    <3> QED
      BY <3>4, <3>5 DEF TypeOK, LineType
  <2>2. CASE ~ (Timed(l) /\ gathering[a] = {})
    <3>1. timing' = timing
      BY <2>2 DEF Receives
    <3> QED
      BY <3>1 DEF TypeOK, LineType
  <2> QED
    BY <2>1, <2>2
<1>9. ConnType'
  BY DEF TypeOK, ConnType, Receives
<1> QED
  BY <1>2, <1>6, <1>7, <1>8, <1>9 DEF LineType

(* What a step leaves alone.                                               *)
ItemUnchanged ==
  /\ source' = source /\ lastValue' = lastValue /\ lastSample' = lastSample
  /\ lastOffset' = lastOffset /\ conv' = conv

ShownUnchanged == latest' = latest /\ before' = before /\ received' = received

AdapterUnchanged == setting' = setting /\ clock' = clock /\ gathering' = gathering /\ commanded' = commanded

(* What a step leaves alone keeps its type.                                *)
LEMMA UnchangedType ==
  ASSUME TypeOK
  PROVE  /\ ItemUnchanged => FilterType' /\ source' \in [Items -> Adapters \cup {None}]
         /\ ShownUnchanged =>
              /\ latest' \in [Items -> Published] /\ before' \in [Items -> Published]
              /\ received' \in [Items -> Value]
         /\ AdapterUnchanged =>
              /\ setting' \in [Adapters -> Setting] /\ commanded' \subseteq Adapters
              /\ clock' \in [Adapters -> Clock] /\ GatherType'
         /\ up' = up /\ conn' = conn => ConnType'
         /\ sent' = sent /\ peer' = peer /\ timing' = timing => LineType'
         /\ job' = job => JobType'
         /\ post' = post => PostType'
BY DEF TypeOK, ConnType, LineType, JobType, PostType, GatherType, FilterType,
  ItemUnchanged, ShownUnchanged, AdapterUnchanged

(* A connection comes up: AutoAvailable has the availability to post.      *)
LEMMA ConnectType ==
  ASSUME TypeOK, NEW a \in Adapters, Connect(a)
  PROVE  TypeOK'
<1>1. ConnType'
  BY DEF TypeOK, Connect, ConnType
<1>2. JobType'
  <2>1. Config[a].allDevices \in Seq(Devices) /\ Config[a].allDevices # <<>>
    BY FeedAssumption DEF AdapterConfig
  <2> DEFINE next == Doing("connected", Config[a].allDevices, FALSE, {})
  <2>3. IsJob(next)
    BY <2>1, DoingType DEF Steps
  <2> HIDE DEF next
  <2>4. job' = job \/ job' = [job EXCEPT ![a] = next]
    BY DEF Connect, next
  <2> QED
    BY <2>3, <2>4 DEF TypeOK, JobType
<1>3. sent' = sent /\ peer' = peer /\ timing' = timing /\ post' = post
  BY DEF Connect
<1>4. ItemUnchanged /\ ShownUnchanged /\ AdapterUnchanged
  BY DEF Connect, ItemUnchanged, ShownUnchanged, AdapterUnchanged, adapter, item, shown, filters
<1> QED
  BY <1>1, <1>2, <1>3, <1>4, UnchangedType DEF TypeOK

(* The items of an adapter's devices, in the order disconnected() follows. *)
LEMMA LostItems ==
  ASSUME NEW a \in Adapters,
         NEW items, items = FlattenSeq([k \in DOMAIN Config[a].allDevices |-> DeviceItems[Config[a].allDevices[k]]])
  PROVE  /\ items \in Seq(Items) /\ items # <<>>
         /\ \A k \in DOMAIN items : Reached(a, items[k])
         /\ \A i \in Items : Reached(a, i) => \E k \in DOMAIN items : items[k] = i
<1> DEFINE devices == Config[a].allDevices
           q == [k \in DOMAIN devices |-> DeviceItems[devices[k]]]
<1>1. devices \in Seq(Devices) /\ devices # <<>>
  BY FeedAssumption DEF AdapterConfig
<1>2. DOMAIN devices = 1 .. Len(devices) /\ Len(devices) \in Nat \ {0} /\ \A k \in DOMAIN devices : devices[k] \in Devices
  BY <1>1
<1>3. \A k \in DOMAIN devices : DeviceItems[devices[k]] \in Seq(Items) /\ DeviceItems[devices[k]] # <<>>
  BY <1>2, FeedAssumption
<1> HIDE DEF devices
<1>4. q \in Seq(Seq(Items)) /\ q # <<>> /\ q[1] # <<>> /\ Len(q) = Len(devices)
  BY <1>2, <1>3
<1>5. \A k \in 1 .. Len(devices) : q[k] = DeviceItems[devices[k]]
  BY <1>2
<1>6. items = FlattenSeq(q)
  BY DEF devices
<1> HIDE DEF q
<1>7. items \in Seq(Items) /\ items # <<>> /\ FlatUpTo(items, q, Len(devices))
  BY <1>4, <1>6, FlattenFacts
<1>8. \A i \in Items : Reached(a, i) <=> \E k \in 1 .. Len(devices) : \E j \in 1 .. Len(q[k]) : i = q[k][j]
  <2>1. \A k \in 1 .. Len(devices) : DOMAIN q[k] = 1 .. Len(q[k])
    BY <1>2, <1>3, <1>5
  <2>2. \A i \in Items : Reached(a, i) <=> \E k \in 1 .. Len(devices) : i \in ToSet(q[k])
    BY <1>2, <1>5 DEF Reached, devices
  <2>3. \A i \in Items, k \in 1 .. Len(devices) : i \in ToSet(q[k]) <=> \E j \in 1 .. Len(q[k]) : i = q[k][j]
    BY <2>1 DEF ToSet
  <2> QED
    BY <2>2, <2>3
<1>9. DOMAIN items = 1 .. Len(items) /\ \A k \in 1 .. Len(items) : items[k] \in Items
  BY <1>7
<1>10. ASSUME NEW k \in DOMAIN items
       PROVE  Reached(a, items[k])
  <2>1. \E n \in 1 .. Len(devices) : \E j \in 1 .. Len(q[n]) : items[k] = q[n][j]
    BY <1>7, <1>9 DEF FlatUpTo
  <2> QED
    BY <1>8, <1>9, <2>1
<1>11. ASSUME NEW i \in Items, Reached(a, i)
       PROVE  \E k \in DOMAIN items : items[k] = i
  <2>1. PICK n \in 1 .. Len(devices) : \E j \in 1 .. Len(q[n]) : i = q[n][j]
    BY <1>8, <1>11
  <2>2. PICK j \in 1 .. Len(q[n]) : i = q[n][j]
    BY <2>1
  <2>3. \E m \in 1 .. Len(items) : items[m] = q[n][j]
    BY <1>7 DEF FlatUpTo
  <2> QED
    BY <1>9, <2>2, <2>3
<1> QED
  BY <1>7, <1>10, <1>11

(* A connection goes down: all items have to be looked at.                 *)
LEMMA DisconnectFacts ==
  ASSUME TypeOK, NEW a \in Adapters, Disconnect(a)
  PROVE  \E items \in Seq(Items) :
           /\ items # <<>>
           /\ \A k \in DOMAIN items : Reached(a, items[k])
           /\ \A i \in Items : Reached(a, i) => \E k \in DOMAIN items : items[k] = i
           /\ job' = [job EXCEPT ![a] = Doing("disconnected", items, FALSE, {})]
<1> DEFINE items == FlattenSeq([k \in DOMAIN Config[a].allDevices |-> DeviceItems[Config[a].allDevices[k]]])
<1>1. job' = [job EXCEPT ![a] = Doing("disconnected", items, FALSE, {})]
  BY DEF Disconnect
<1>2. /\ items \in Seq(Items) /\ items # <<>>
      /\ \A k \in DOMAIN items : Reached(a, items[k])
      /\ \A i \in Items : Reached(a, i) => \E k \in DOMAIN items : items[k] = i
  <2> HIDE DEF items
  <2>1. PICK s : s = items
    OBVIOUS
  <2> QED
    BY <2>1, LostItems DEF items
<1> HIDE DEF items
<1> QED
  BY <1>1, <1>2

(* Disconnect counts a connection and lines up the items of its devices.   *)
LEMMA DisconnectType ==
  ASSUME TypeOK, NEW a \in Adapters, Disconnect(a)
  PROVE  TypeOK'
<1>1. ConnType'
  <2>1. conn[a] \in 0 .. MaxBreaks /\ conn[a] < MaxBreaks /\ MaxBreaks \in Nat
    BY FeedAssumption DEF TypeOK, ConnType, Disconnect
  <2>2. conn' = [conn EXCEPT ![a] = @ + 1] /\ up' = [up EXCEPT ![a] = FALSE]
    BY DEF Disconnect
  <2> QED
    BY <2>1, <2>2 DEF TypeOK, ConnType
<1>2. JobType'
  <2>1. PICK items \in Seq(Items) :
           /\ items # <<>>
           /\ job' = [job EXCEPT ![a] = Doing("disconnected", items, FALSE, {})]
    BY DisconnectFacts
  <2>2. IsJob(Doing("disconnected", items, FALSE, {}))
    BY <2>1, DoingType DEF Steps
  <2> QED
    BY <2>1, <2>2 DEF TypeOK, JobType
<1>3. LineType'
  <2>1. /\ peer' = [peer EXCEPT ![a] = <<>>] /\ sent' = sent
        /\ timing' = [timing EXCEPT ![a] = [first |-> {}, last |-> {}]]
    BY DEF Disconnect
  <2> QED
    BY <2>1 DEF TypeOK, LineType
<1>4. clock' \in [Adapters -> Clock]
  <2>1. clock' = [clock EXCEPT ![a].base = FALSE] /\ clock \in [Adapters -> Clock]
    BY DEF TypeOK, Disconnect, ResetClock
  <2> QED
    BY <2>1 DEF Clock
<1>5. post' = post /\ setting' = setting /\ gathering' = gathering /\ commanded' = commanded
  BY DEF Disconnect
<1>6. ItemUnchanged /\ ShownUnchanged
  BY DEF Disconnect, ItemUnchanged, ShownUnchanged, item, shown, filters
<1>7. GatherType' /\ setting' \in [Adapters -> Setting] /\ commanded' \subseteq Adapters
  BY <1>5 DEF TypeOK, GatherType
<1> QED
  BY <1>1, <1>2, <1>3, <1>4, <1>5, <1>6, <1>7, UnchangedType DEF TypeOK

(* A thread took one step of its job: it is done, or goes on with the rest *)
(* (exactly when there is one, where it does not stop early).              *)
Goes(a) ==
  /\ JobType' /\ \A b \in Adapters \ {a} : job'[b] = job[b]
  /\ \/ job'[a] = Idle
     \/ /\ job'[a].does = job[a].does /\ job'[a].todo = Tail(job[a].todo)
        /\ job'[a].offset = job[a].offset

(* Advance drops the first step of a job, and ends it after the last.      *)
LEMMA AdvanceGoes ==
  ASSUME TypeOK, NEW a \in Adapters, Advance(a), job[a].does # "idle"
  PROVE  Goes(a)
<1>1. PICK S : job[a].todo \in Seq(S)
  <2>1. job[a].todo \in Steps(job[a].does) /\ job[a].does \in {"idle", "line", "connected", "disconnected"}
    BY DEF TypeOK, JobType, IsJob
  <2>2. PICK S : Steps(job[a].does) = Seq(S)
    BY DEF Steps
  <2> QED
    BY <2>1, <2>2
<1>2. /\ job' = [b \in Adapters |-> job'[b]]
      /\ \A b \in Adapters \ {a} : job'[b] = job[b]
      /\ IsJob(job'[a])
      /\ Tail(job[a].todo) = <<>> => job'[a] = Idle
      /\ Tail(job[a].todo) # <<>> =>
           /\ job'[a].does = job[a].does /\ job'[a].todo = Tail(job[a].todo)
           /\ job'[a].offset = job[a].offset
  BY <1>1, AdvanceFacts
<1>3. JobType'
  <2>1. \A b \in Adapters : IsJob(job[b])
    BY DEF TypeOK, JobType
  <2> QED
    BY <1>2, <2>1 DEF JobType
<1> QED
  BY <1>2, <1>3 DEF Goes

(* One pair of a line: it is for no item, or its item's filter is asked.   *)
Accepts(a, i, v) ==
  /\ source' = [source EXCEPT ![i] = a]
  /\ received' = [received EXCEPT ![i] = v]
  /\ Ask(a, i, Check(i, v), v, job[a].offset, setDataSource(a, conv[i]))

(* processDataItem passes a pair by, or accepts its value for one item.    *)
LEMMA processDataItemFacts ==
  ASSUME TypeOK, NEW a \in Adapters, processDataItem(a)
  PROVE  /\ post[a] = {} /\ job[a].does = "line" /\ Goes(a)
         /\ feed' = feed /\ adapter' = adapter /\ latest' = latest /\ before' = before
         /\ \/ ItemUnchanged /\ post' = post /\ received' = received
            \/ \E i \in Items, p \in Pair :
                 p = Head(job[a].todo) /\ Names(p.key, i) /\ Accepts(a, i, p.value)
<1> DEFINE p == Head(job[a].todo)
           d == IF p.device = None THEN setting[a].device ELSE getDeviceByName(p.device)
           i == getDeviceDataItem(d, p.key)
           taken == i # None /\ Def[i].constraint # "constant"
<1>1. /\ post[a] = {} /\ job[a].does = "line"
      /\ feed' = feed /\ adapter' = adapter /\ latest' = latest /\ before' = before
  BY DEF processDataItem
<1>2. p \in Pair
  BY <1>1, JobFacts
<1>3. d \in Devices \cup {None}
  <2>1. setting[a].device \in Devices
    BY DEF TypeOK, Setting
  <2> QED
    BY <2>1 DEF getDeviceByName
<1>4. Goes(a)
  <2>1. job' = [job EXCEPT ![a] = Idle] \/ Advance(a)
    BY DEF processDataItem
  <2>2. CASE job' = [job EXCEPT ![a] = Idle]
    BY <2>2, IdleType DEF Goes, TypeOK, JobType
  <2>3. CASE Advance(a)
    BY <1>1, <2>3, AdvanceGoes
  <2> QED
    BY <2>1, <2>2, <2>3
<1>5. CASE taken
  <2>1. i \in Items /\ Names(p.key, i)
    <3> HIDE DEF d, p
    <3> QED
      BY <1>3, <1>5, ItemFound
  <2>2. Accepts(a, i, p.value)
    BY <1>5 DEF processDataItem, Accepts
  <2> HIDE DEF i, p, taken
  <2> QED
    BY <1>1, <1>2, <1>4, <2>1, <2>2 DEF p
<1>6. CASE ~ taken
  <2>1. ItemUnchanged /\ post' = post /\ received' = received
    BY <1>6 DEF processDataItem, ItemUnchanged, item, filters
  <2> QED
    BY <1>1, <1>4, <2>1
<1> QED
  BY <1>5, <1>6

(* The value the filters compare is a value.                               *)
LEMMA CheckType ==
  ASSUME NEW i \in Items, NEW v \in Value
  PROVE  Check(i, v) \in Value /\ Plain(v) \in Value
<1>1. Plain(v) \in Value
  BY ValueFacts DEF Plain, Value
<1> QED
  BY <1>1 DEF Check

(* processDataItem keeps the types: values are those of the line.          *)
LEMMA processDataItemType ==
  ASSUME TypeOK, NEW a \in Adapters, processDataItem(a)
  PROVE  TypeOK'
<1>1. JobType'
  BY processDataItemFacts DEF Goes
<1>2. /\ ConnType' /\ LineType' /\ GatherType'
      /\ setting' \in [Adapters -> Setting] /\ commanded' \subseteq Adapters
      /\ clock' \in [Adapters -> Clock]
      /\ latest' \in [Items -> Published] /\ before' \in [Items -> Published]
  <2>1. feed' = feed /\ adapter' = adapter /\ latest' = latest /\ before' = before
    BY processDataItemFacts
  <2>2. AdapterUnchanged
    BY <2>1 DEF adapter, AdapterUnchanged
  <2>3. up' = up /\ conn' = conn /\ sent' = sent /\ peer' = peer /\ timing' = timing
    BY <2>1 DEF feed
  <2> QED
    BY <2>1, <2>2, <2>3, UnchangedType DEF TypeOK
<1>3. CASE ItemUnchanged /\ post' = post /\ received' = received
  <2>1. received' \in [Items -> Value]
    BY <1>3 DEF TypeOK
  <2> QED
    BY <1>1, <1>2, <1>3, <2>1, UnchangedType DEF TypeOK
<1>4. CASE \E i \in Items, p \in Pair :
             p = Head(job[a].todo) /\ Names(p.key, i) /\ Accepts(a, i, p.value)
  <2>1. PICK i \in Items, p \in Pair : Accepts(a, i, p.value)
    BY <1>4
  <2>2. PICK v \in Value : v = p.value
    BY DEF Pair
  <2>3. FilterType' /\ PostType'
    <3>1. setDataSource(a, conv[i]) \in Conversion /\ job[a].offset \in SUBSET Nat
      BY ConversionType, JobFacts DEF TypeOK, FilterType
    <3> QED
      BY <2>1, <2>2, <3>1, CheckType, AskType DEF Accepts
  <2>4. source' \in [Items -> Adapters \cup {None}] /\ received' \in [Items -> Value]
    BY <2>1, <2>2 DEF Accepts, TypeOK
  <2> QED
    BY <1>1, <1>2, <2>3, <2>4 DEF TypeOK
<1> QED
  BY <1>3, <1>4, processDataItemFacts

(* The loss of a connection reaches an item: it is marked, or left alone.  *)
Loses(a, i) ==
  /\ IF Marks(a, i)
       THEN Ask(a, i, Down(i), Down(i), DownOffset, conv[i])
       ELSE UNCHANGED <<filters, conv, post>>
  /\ received' = IF source[i] = a THEN [received EXCEPT ![i] = Word(Unavailable)] ELSE received

(* disconnected deals with the next item of a lost connection.             *)
LEMMA disconnectedFacts ==
  ASSUME TypeOK, NEW a \in Adapters, disconnected(a)
  PROVE  /\ post[a] = {} /\ job[a].does = "disconnected" /\ Goes(a)
         /\ feed' = feed /\ adapter' = adapter /\ latest' = latest /\ before' = before /\ source' = source
         /\ Head(job[a].todo) \in Items /\ Loses(a, Head(job[a].todo))
<1>1. /\ post[a] = {} /\ job[a].does = "disconnected" /\ Advance(a)
      /\ feed' = feed /\ adapter' = adapter /\ latest' = latest /\ before' = before /\ source' = source
      /\ Loses(a, Head(job[a].todo))
  BY DEF disconnected, Loses
<1>2. Head(job[a].todo) \in Items
  BY <1>1, JobFacts
<1>3. Goes(a)
  BY <1>1, AdvanceGoes
<1> QED
  BY <1>1, <1>2, <1>3

(* disconnected keeps the types: what it posts is UNAVAILABLE.             *)
LEMMA disconnectedType ==
  ASSUME TypeOK, NEW a \in Adapters, disconnected(a)
  PROVE  TypeOK'
<1>1. PICK i \in Items : Loses(a, i)
  BY disconnectedFacts
<1>2. AdapterUnchanged /\ up' = up /\ conn' = conn /\ sent' = sent /\ peer' = peer /\ timing' = timing
  BY disconnectedFacts DEF feed, adapter, AdapterUnchanged
<1>3. /\ JobType' /\ latest' \in [Items -> Published] /\ before' \in [Items -> Published]
      /\ source' \in [Items -> Adapters \cup {None}]
  BY disconnectedFacts DEF TypeOK, Goes
<1>4. received' \in [Items -> Value]
  BY <1>1, WordType DEF Loses, TypeOK
<1>5. FilterType' /\ PostType'
  <2>1. CASE Marks(a, i)
    <3>1. conv[i] \in Conversion /\ DownOffset \in SUBSET Nat
      BY DEF TypeOK, FilterType, DownOffset
    <3>2. Ask(a, i, Down(i), Down(i), DownOffset, conv[i])
      BY <1>1, <2>1 DEF Loses
    <3> QED
      BY <3>1, <3>2, WordType, AskType
  <2>2. CASE ~ Marks(a, i)
    <3>1. /\ lastValue' = lastValue /\ lastSample' = lastSample
          /\ lastOffset' = lastOffset /\ conv' = conv /\ post' = post
      BY <1>1, <2>2 DEF Loses, filters
    <3> QED
      BY <3>1 DEF TypeOK, FilterType, PostType
  <2> QED
    BY <2>1, <2>2
<1> QED
  BY <1>2, <1>3, <1>4, <1>5, UnchangedType DEF TypeOK

(* The availability of one device is posted.                               *)
LEMMA connectedFacts ==
  ASSUME TypeOK, NEW a \in Adapters, connected(a)
  PROVE  /\ post[a] = {} /\ job[a].does = "connected" /\ Goes(a)
         /\ feed' = feed /\ adapter' = adapter /\ ItemUnchanged /\ ShownUnchanged
         /\ PostType' /\ \A b \in Adapters \ {a} : post'[b] = post[b]
         /\ \A p \in post'[a] :
              /\ p \in Posted /\ p.value = Word(Available) /\ Def[p.item].type = "AVAILABILITY"
              /\ p.item \in ToSet(DeviceItems[Head(job[a].todo)])
<1> DEFINE d == Head(job[a].todo)
           all == {i \in ToSet(DeviceItems[d]) : Def[i].type = "AVAILABILITY"}
           new == {[item |-> i, value |-> Word(Available)] : i \in Availability(d)}
<1>1. /\ post[a] = {} /\ job[a].does = "connected" /\ Advance(a)
      /\ feed' = feed /\ adapter' = adapter /\ ItemUnchanged /\ ShownUnchanged
      /\ post' = [post EXCEPT ![a] = new]
  BY DEF connected, ItemUnchanged, ShownUnchanged, item, shown, filters
<1>2. Goes(a)
  BY <1>1, AdvanceGoes
<1>3. d \in Devices
  BY <1>1, JobFacts
<1> HIDE DEF d
<1>4. ToSet(DeviceItems[d]) \subseteq Items
  BY <1>3, FeedAssumption DEF ToSet
<1>5. Availability(d) = IF all = {} THEN {} ELSE {CHOOSE i \in all : TRUE}
  BY DEF Availability
<1>6. Availability(d) \subseteq all /\ AtMostOne(Availability(d))
  <2> HIDE DEF all
  <2> QED
    BY <1>5 DEF AtMostOne
<1>7. new \in SUBSET Posted /\ AtMostOne(new)
  <2>1. PICK A \in SUBSET Items : A = Availability(d) /\ AtMostOne(A)
    BY <1>4, <1>6
  <2>2. PICK w \in Value : w = Word(Available)
    BY WordType
  <2>3. new = {[item |-> i, value |-> w] : i \in A}
    BY <2>1, <2>2
  <2>4. \A i \in A : [item |-> i, value |-> w] \in Posted
    BY <2>1, <2>2 DEF Posted
  <2>5. AtMostOne(new)
    BY <2>1, <2>3 DEF AtMostOne
  <2> QED
    BY <2>3, <2>4, <2>5
<1>8. \A p \in new : p.value = Word(Available) /\ p.item \in all
  BY <1>6
<1> HIDE DEF new
<1>9. PostType' /\ \A b \in Adapters \ {a} : post'[b] = post[b]
  BY <1>1, <1>7 DEF TypeOK, PostType
<1>10. post'[a] = new
  BY <1>1 DEF TypeOK, PostType
<1> QED
  BY <1>1, <1>2, <1>7, <1>8, <1>9, <1>10 DEF d

(* connected keeps the types: what it posts is AVAILABLE.                  *)
LEMMA connectedType ==
  ASSUME TypeOK, NEW a \in Adapters, connected(a)
  PROVE  TypeOK'
<1>1. AdapterUnchanged /\ up' = up /\ conn' = conn /\ sent' = sent /\ peer' = peer /\ timing' = timing
  BY connectedFacts DEF feed, adapter, AdapterUnchanged
<1>2. JobType' /\ PostType' /\ ItemUnchanged /\ ShownUnchanged
  BY connectedFacts DEF Goes
<1> QED
  BY <1>1, <1>2, UnchangedType DEF TypeOK

(* addToBuffer: what was posted is shown, in the item's units.             *)
Adds(a, i, v) ==
  /\ latest' = [latest EXCEPT ![i] = [value |-> Observed(i, Settled(i, conv[i]), v), by |-> a, conn |-> conn[a]]]
  /\ before' = [before EXCEPT ![i] = latest[i]]
  /\ conv' = IF HasUnits(i, Said(i, v)) THEN [conv EXCEPT ![i] = Settled(i, conv[i])] ELSE conv

(* addToBuffer adds the one observation that is posted.                    *)
LEMMA addToBufferFacts ==
  ASSUME TypeOK, NEW a \in Adapters, addToBuffer(a)
  PROVE  /\ post' = [post EXCEPT ![a] = {}]
         /\ feed' = feed /\ job' = job /\ adapter' = adapter /\ source' = source /\ filters' = filters
         /\ received' = received
         /\ \E p \in Posted : post[a] = {p} /\ Adds(a, p.item, p.value)
<1>1. PICK p \in post[a] :
        /\ post' = [post EXCEPT ![a] = {}]
        /\ feed' = feed /\ job' = job /\ adapter' = adapter /\ source' = source /\ filters' = filters
        /\ received' = received /\ Adds(a, p.item, p.value)
  BY DEF addToBuffer, Adds
<1>2. p \in Posted /\ post[a] = {p}
  BY <1>1 DEF TypeOK, PostType, AtMostOne
<1> QED
  BY <1>1, <1>2

(* addToBuffer keeps the types: converted values are values.               *)
LEMMA addToBufferType ==
  ASSUME TypeOK, NEW a \in Adapters, addToBuffer(a)
  PROVE  TypeOK'
<1>1. PICK p \in Posted : Adds(a, p.item, p.value)
  BY addToBufferFacts
<1>2. PICK i \in Items, v \in Value : i = p.item /\ v = p.value
  BY DEF Posted
<1>3. AdapterUnchanged /\ up' = up /\ conn' = conn /\ sent' = sent /\ peer' = peer /\ timing' = timing
  BY addToBufferFacts DEF feed, adapter, AdapterUnchanged
<1>4. /\ lastValue' = lastValue /\ lastSample' = lastSample /\ lastOffset' = lastOffset
      /\ source' = source /\ received' = received /\ job' = job
  BY addToBufferFacts DEF filters
<1>5. PostType'
  BY addToBufferFacts DEF TypeOK, PostType, AtMostOne
<1>6. conv[i] \in Conversion
  BY DEF TypeOK, FilterType
<1>7. PICK c \in Conversion : c = Settled(i, conv[i])
  BY <1>6, ConversionType
<1>8. PICK w \in Value : w = Observed(i, c, v)
  BY ObservedType
<1>9. PICK new : new = [value |-> w, by |-> a, conn |-> conn[a]]
  OBVIOUS
<1>10. new \in Published
  BY <1>9 DEF Published, TypeOK, ConnType
<1>11. latest' = [latest EXCEPT ![i] = new] /\ before' = [before EXCEPT ![i] = latest[i]]
  BY <1>1, <1>2, <1>7, <1>8, <1>9 DEF Adds
<1>12. conv' = conv \/ conv' = [conv EXCEPT ![i] = c]
  BY <1>1, <1>2, <1>7 DEF Adds
<1>13. FilterType'
  BY <1>4, <1>12 DEF TypeOK, FilterType
<1>14. latest' \in [Items -> Published] /\ before' \in [Items -> Published]
  BY <1>10, <1>11 DEF TypeOK
<1>15. JobType' /\ source' \in [Items -> Adapters \cup {None}] /\ received' \in [Items -> Value]
  BY <1>4 DEF TypeOK, JobType
<1> QED
  BY <1>3, <1>5, <1>13, <1>14, <1>15, UnchangedType DEF TypeOK

(* A line of an asset is kept with it, or ends it.                         *)
LEMMA GatheringType ==
  ASSUME TypeOK, NEW a \in Adapters, NEW l, Gather(a, l)
  PROVE  TypeOK'
<1>1. PICK g \in gathering[a] :
        /\ Receives(a, l)
        /\ IF Ends(g, l) THEN gathering' = [gathering EXCEPT ![a] = {}]
           ELSE gathering' = [gathering EXCEPT ![a] = {[g EXCEPT !.lines = Append(@, l)]}]
        /\ job' = job /\ post' = post /\ setting' = setting /\ clock' = clock /\ commanded' = commanded
        /\ ItemUnchanged /\ ShownUnchanged
  BY DEF Gather, ItemUnchanged, ShownUnchanged, item, shown, filters
<1>2. LineType' /\ ConnType' /\ l \in AssetLine \cup UNION {Lines[b] : b \in Adapters}
  BY <1>1, ReceivesType
<1>3. g \in Gathered
  BY DEF TypeOK, GatherType
<1>4. [g EXCEPT !.lines = Append(@, l)] \in Gathered
  <2>1. PICK S : S = AssetLine \cup UNION {Lines[b] : b \in Adapters}
    OBVIOUS
  <2>2. g \in [id : STRING, lines : Seq(S), conn : 0 .. MaxBreaks] /\ l \in S
    BY <1>2, <1>3, <2>1 DEF Gathered
  <2>3. Append(g.lines, l) \in Seq(S)
    BY <2>2
  <2>4. PICK lines \in Seq(S) : lines = Append(g.lines, l)
    BY <2>3
  <2>5. [g EXCEPT !.lines = lines] \in [id : STRING, lines : Seq(S), conn : 0 .. MaxBreaks]
    BY <2>2
  <2> QED
    BY <2>1, <2>4, <2>5 DEF Gathered
<1>5. GatherType'
  <2>1. PICK h \in Gathered : h = [g EXCEPT !.lines = Append(@, l)]
    BY <1>4
  <2>2. gathering' = [gathering EXCEPT ![a] = {}] \/ gathering' = [gathering EXCEPT ![a] = {h}]
    BY <1>1, <2>1
  <2> QED
    BY <2>2 DEF TypeOK, GatherType, AtMostOne
<1>6. JobType' /\ PostType' /\ setting' \in [Adapters -> Setting] /\ commanded' \subseteq Adapters
      /\ clock' \in [Adapters -> Clock]
  BY <1>1 DEF TypeOK, JobType, PostType
<1> QED
  BY <1>1, <1>2, <1>5, <1>6, UnchangedType DEF TypeOK

(* A time that is cut down is a natural number.                            *)
LEMMA WrapNat ==
  ASSUME NEW m \in Int
  PROVE  Wrap(m) \in Nat
<1>1. \A w \in Nat \ {0} : m % w \in Nat
  OBVIOUS
<1>2. PICK w \in Nat \ {0} : w = TimeWidth
  BY TimeRange
<1> QED
  BY <1>1, <1>2 DEF Wrap

(* The time of a line is a natural number, and so is the offset.           *)
LEMMA extractTimeType ==
  ASSUME TypeOK, NEW a \in Adapters, NEW time, time.t \in Nat
  PROVE  extractTime(a, time).clock \in Clock /\ extractTime(a, time).offset \in Nat
<1>1. \A parse \in BOOLEAN : Reading(parse, time) \in Nat
  BY DEF Reading, Year
<1>2. clock[a] \in Clock /\ clock[a].base \in BOOLEAN /\ clock[a].offset \in Nat /\ clock[a].parse \in BOOLEAN
  BY DEF TypeOK, Clock
<1> DEFINE first == ~ clock[a].base
           parse == IF first /\ time.form = "date" THEN TRUE ELSE clock[a].parse
           zero  == IF first THEN Reading(time.form = "date", time) ELSE clock[a].offset
<1>3. parse \in BOOLEAN
  BY <1>2
<1>4. zero \in Nat
  <2>1. (time.form = "date") \in BOOLEAN
    OBVIOUS
  <2> QED
    BY <1>1, <1>2, <2>1
<1> HIDE DEF zero
<1>5. CASE setting[a].relativeTime
  <2>1. extractTime(a, time).clock = [base |-> TRUE, offset |-> zero, parse |-> parse]
    BY <1>5 DEF extractTime, zero
  <2>2. extractTime(a, time).offset = IF first THEN 0 ELSE Wrap(Reading(parse, time) - zero)
    BY <1>5 DEF extractTime, zero
  <2>3. Wrap(Reading(parse, time) - zero) \in Nat
    <3>1. Reading(parse, time) \in Nat
      <4> HIDE DEF parse
      <4> QED
        BY <1>1, <1>3
    <3>2. Reading(parse, time) - zero \in Int
      <4> HIDE DEF parse
      <4> QED
        BY <1>4, <3>1
    <3> QED
      BY <3>2, WrapNat
  <2> HIDE DEF parse
  <2> QED
    BY <1>3, <1>4, <2>1, <2>2, <2>3 DEF Clock
<1>6. CASE ~ setting[a].relativeTime
  <2>1. extractTime(a, time) = [clock |-> clock[a], offset |-> time.t]
    BY <1>6 DEF extractTime
  <2> QED
    BY <1>2, <2>1
<1> QED
  BY <1>5, <1>6

(* A line of data or the start of an asset is one of the peer's, with its  *)
(* time.                                                                   *)
LEMMA TimedLine ==
  ASSUME TypeOK, NEW a \in Adapters, NEW l, Receives(a, l), Timed(l)
  PROVE  l \in Lines[a] /\ l.time.t \in Nat /\ peer[a] = <<>>
<1>1. l \notin AssetLine
  BY DEF Timed, AssetLine
<1>2. l \in Lines[a]
  BY <1>1, ReceivesType
<1>3. l.time.t \in 0 .. TimeWidth - 1
  BY <1>2, LineAssumption
<1>4. peer[a] = <<>>
  BY <1>1 DEF Receives, Incoming, TypeOK, LineType
<1> QED
  BY <1>2, <1>3, <1>4, TimeRange

(* processData turns a line of data into a job.                            *)
LEMMA processDataFacts ==
  ASSUME TypeOK, NEW a \in Adapters, NEW l, processData(a, l)
  PROVE  /\ l.kind = "data" /\ Timed(l) /\ l \in Lines[a] /\ l.time.t \in Nat
         /\ l.pairs \in Seq(Pair) /\ l.pairs # <<>>
         /\ gathering[a] = {} /\ Receives(a, l)
         /\ clock' = [clock EXCEPT ![a] = extractTime(a, l.time).clock]
         /\ job' = [job EXCEPT ![a] = Doing("line", l.pairs, TRUE, {extractTime(a, l.time).offset})]
         /\ post' = post /\ setting' = setting /\ gathering' = gathering /\ stored' = stored
         /\ commanded' = commanded /\ ItemUnchanged /\ ShownUnchanged
<1>1. /\ l.kind = "data" /\ gathering[a] = {} /\ Receives(a, l)
      /\ clock' = [clock EXCEPT ![a] = extractTime(a, l.time).clock]
      /\ job' = [job EXCEPT ![a] = Doing("line", l.pairs, TRUE, {extractTime(a, l.time).offset})]
      /\ post' = post /\ setting' = setting /\ gathering' = gathering /\ stored' = stored
      /\ commanded' = commanded /\ ItemUnchanged /\ ShownUnchanged
  BY DEF processData, ItemUnchanged, ShownUnchanged, item, shown, filters
<1>2. Timed(l)
  BY <1>1 DEF Timed
<1>3. l \in Lines[a] /\ l.time.t \in Nat
  BY <1>1, <1>2, TimedLine
<1>4. l.pairs \in Seq(Pair) /\ l.pairs # <<>>
  BY <1>1, <1>3, LineAssumption
<1> QED
  BY <1>1, <1>2, <1>3, <1>4

(* processData keeps the types: the pairs are those of the line.           *)
LEMMA processDataType ==
  ASSUME TypeOK, NEW a \in Adapters, NEW l, processData(a, l)
  PROVE  TypeOK'
<1>1. LineType' /\ ConnType'
  BY processDataFacts, ReceivesType
<1>2. clock' \in [Adapters -> Clock]
  <2>1. PICK c \in Clock : c = extractTime(a, l.time).clock
    BY processDataFacts, extractTimeType
  <2>2. clock' = [clock EXCEPT ![a] = c]
    BY <2>1, processDataFacts
  <2> QED
    BY <2>2 DEF TypeOK
<1>3. JobType'
  <2>1. PICK o \in Nat : o = extractTime(a, l.time).offset
    BY processDataFacts, extractTimeType
  <2>2. IsJob(Doing("line", l.pairs, TRUE, {o}))
    <3>1. l.pairs \in Steps("line") /\ l.pairs # <<>>
      BY processDataFacts DEF Steps
    <3>2. "line" \in {"idle", "line", "connected", "disconnected"} /\ TRUE \in BOOLEAN /\ {o} \in SUBSET Nat
      BY <2>1
    <3>3. "line" = "idle" <=> l.pairs = <<>>
      BY <3>1
    <3> QED
      BY <3>1, <3>2, <3>3, DoingType
  <2>3. job' = [job EXCEPT ![a] = Doing("line", l.pairs, TRUE, {o})]
    BY <2>1, processDataFacts
  <2> QED
    BY <2>2, <2>3 DEF TypeOK, JobType
<1>4. /\ post' = post /\ setting' = setting /\ gathering' = gathering /\ commanded' = commanded
      /\ ItemUnchanged /\ ShownUnchanged
  BY processDataFacts
<1>5. PostType' /\ GatherType' /\ setting' \in [Adapters -> Setting] /\ commanded' \subseteq Adapters
  BY <1>4 DEF TypeOK, PostType, GatherType
<1> QED
  BY <1>1, <1>2, <1>3, <1>4, <1>5, UnchangedType DEF TypeOK

(* processAsset begins to gather an asset, of which no line is there yet.  *)
LEMMA processAssetFacts ==
  ASSUME TypeOK, NEW a \in Adapters, NEW l, processAsset(a, l)
  PROVE  /\ l.kind = "multiline" /\ Timed(l) /\ l \in Lines[a] /\ l.time.t \in Nat /\ EndsWith(l.follow, l.id)
         /\ gathering[a] = {} /\ Receives(a, l) /\ peer[a] = <<>>
         /\ clock' = [clock EXCEPT ![a] = extractTime(a, l.time).clock]
         /\ gathering' = [gathering EXCEPT ![a] = {[id |-> l.id, lines |-> <<>>, conn |-> conn[a]]}]
         /\ job' = job /\ post' = post /\ setting' = setting /\ stored' = stored
         /\ commanded' = commanded /\ ItemUnchanged /\ ShownUnchanged
<1>1. /\ l.kind = "multiline" /\ gathering[a] = {} /\ Receives(a, l)
      /\ clock' = [clock EXCEPT ![a] = extractTime(a, l.time).clock]
      /\ gathering' = [gathering EXCEPT ![a] = {[id |-> l.id, lines |-> <<>>, conn |-> conn[a]]}]
      /\ job' = job /\ post' = post /\ setting' = setting /\ stored' = stored
      /\ commanded' = commanded /\ ItemUnchanged /\ ShownUnchanged
  BY DEF processAsset, ItemUnchanged, ShownUnchanged, item, shown, filters
<1>2. Timed(l)
  BY <1>1 DEF Timed
<1>3. l \in Lines[a] /\ l.time.t \in Nat /\ peer[a] = <<>>
  BY <1>1, <1>2, TimedLine
<1>4. EndsWith(l.follow, l.id)
  BY <1>1, <1>3, LineAssumption
<1> QED
  BY <1>1, <1>2, <1>3, <1>4

(* The terminator of an asset is among the lines that follow it.           *)
LEMMA EndsWithFacts ==
  ASSUME NEW follow, NEW id, EndsWith(follow, id)
  PROVE  /\ follow \in Seq(AssetLine) /\ Len(follow) \in Nat \ {0} /\ id \in STRING
         /\ \A k \in 1 .. Len(follow) : follow[k].kind = "end" <=> k = Len(follow)
         /\ follow[Len(follow)].id = id
<1>1. follow \in Seq(AssetLine) /\ Len(follow) \in Nat \ {0}
  BY DEF EndsWith
<1>2. /\ \A k \in 1 .. Len(follow) : follow[k].kind = "end" <=> k = Len(follow)
      /\ follow[Len(follow)].id = id
  BY <1>1 DEF EndsWith
<1>3. follow[Len(follow)] \in AssetLine /\ follow[Len(follow)].kind = "end"
  BY <1>1, <1>2
<1>4. id \in STRING
  BY <1>2, <1>3 DEF AssetLine
<1> QED
  BY <1>1, <1>2, <1>4

(* processAsset keeps the types: the asset starts without lines.           *)
LEMMA processAssetType ==
  ASSUME TypeOK, NEW a \in Adapters, NEW l, processAsset(a, l)
  PROVE  TypeOK'
<1>1. LineType' /\ ConnType'
  BY processAssetFacts, ReceivesType
<1>2. clock' \in [Adapters -> Clock]
  <2>1. PICK c \in Clock : c = extractTime(a, l.time).clock
    BY processAssetFacts, extractTimeType
  <2>2. clock' = [clock EXCEPT ![a] = c]
    BY <2>1, processAssetFacts
  <2> QED
    BY <2>2 DEF TypeOK
<1>3. GatherType'
  <2>1. l.id \in STRING /\ conn[a] \in 0 .. MaxBreaks
    BY processAssetFacts, EndsWithFacts DEF TypeOK, ConnType
  <2>2. PICK g : g = [id |-> l.id, lines |-> <<>>, conn |-> conn[a]]
    OBVIOUS
  <2>3. g \in Gathered
    BY <2>1, <2>2 DEF Gathered
  <2>4. gathering' = [gathering EXCEPT ![a] = {g}]
    BY <2>2, processAssetFacts
  <2> QED
    BY <2>3, <2>4 DEF TypeOK, GatherType, AtMostOne
<1>4. /\ post' = post /\ job' = job /\ setting' = setting /\ commanded' = commanded
      /\ ItemUnchanged /\ ShownUnchanged
  BY processAssetFacts
<1>5. PostType' /\ JobType' /\ setting' \in [Adapters -> Setting] /\ commanded' \subseteq Adapters
  BY <1>4 DEF TypeOK, PostType, JobType
<1> QED
  BY <1>1, <1>2, <1>3, <1>4, <1>5, UnchangedType DEF TypeOK

(* A command changes the adapter's settings, or the factor of an item.     *)
LEMMA protocolCommandFacts ==
  ASSUME TypeOK, NEW a \in Adapters, NEW l, protocolCommand(a, l)
  PROVE  /\ l.kind = "command" /\ l \in Lines[a] /\ Receives(a, l) /\ peer[a] = <<>>
         /\ commanded' = commanded \cup {a}
         /\ setting' \in [Adapters -> Setting] /\ \A b \in Adapters \ {a} : setting'[b] = setting[b]
         /\ conv' \in [Items -> Conversion]
         /\ \A i \in Items : conv'[i] # conv[i] => a \in Feeders[i]
         /\ job' = job /\ post' = post /\ clock' = clock /\ gathering' = gathering /\ stored' = stored
         /\ source' = source /\ filters' = filters /\ ShownUnchanged
<1>1. /\ l.kind = "command" /\ Receives(a, l)
      /\ commanded' = commanded \cup {a}
      /\ job' = job /\ post' = post /\ clock' = clock /\ gathering' = gathering /\ stored' = stored
      /\ source' = source /\ filters' = filters /\ ShownUnchanged
  BY DEF protocolCommand, ShownUnchanged, shown
<1>2. l \in Lines[a] /\ peer[a] = <<>> /\ IsCommand(l)
  <2>1. l \notin AssetLine
    BY <1>1 DEF AssetLine
  <2>2. l \in Lines[a]
    BY <1>1, <2>1, ReceivesType
  <2>3. peer[a] = <<>>
    BY <1>1, <2>1 DEF Receives, Incoming, TypeOK, LineType
  <2> QED
    BY <1>1, <2>2, <2>3, LineAssumption
<1>3. setting \in [Adapters -> Setting] /\ conv \in [Items -> Conversion]
  BY DEF TypeOK, FilterType
<1>4. CASE l.command = "device" /\ l.device \in Devices /\ setting' = [setting EXCEPT ![a].device = l.device] /\ conv' = conv
  <2>1. setting' \in [Adapters -> Setting] /\ \A b \in Adapters \ {a} : setting'[b] = setting[b]
    BY <1>3, <1>4 DEF Setting
  <2> QED
    BY <1>1, <1>2, <1>3, <1>4, <2>1
<1>5. CASE l.command \in {"conversionRequired", "relativeTime"} /\ setting' = [setting EXCEPT ![a][l.command] = l.yes] /\ conv' = conv
  <2>1. l.yes \in BOOLEAN
    BY <1>2, <1>5 DEF IsCommand
  <2>2. CASE l.command = "conversionRequired"
    <3>1. setting' = [setting EXCEPT ![a].conversionRequired = l.yes]
      BY <1>5, <2>2
    <3>2. setting' \in [Adapters -> Setting] /\ \A b \in Adapters \ {a} : setting'[b] = setting[b]
      BY <1>3, <2>1, <3>1 DEF Setting
    <3> QED
      BY <1>1, <1>2, <1>3, <1>5, <3>2
  <2>3. CASE l.command = "relativeTime"
    <3>1. setting' = [setting EXCEPT ![a].relativeTime = l.yes]
      BY <1>5, <2>3
    <3>2. setting' \in [Adapters -> Setting] /\ \A b \in Adapters \ {a} : setting'[b] = setting[b]
      BY <1>3, <2>1, <3>1 DEF Setting
    <3> QED
      BY <1>1, <1>2, <1>3, <1>5, <3>2
  <2> QED
    BY <1>5, <2>2, <2>3
<1>6. CASE l.command = "calibration" /\ parseCalibration(a, l) /\ setting' = setting
  <2>1. PICK i : i = getDeviceDataItem(setting[a].device, l.key)
    OBVIOUS
  <2>2. CASE i = None
    <3>1. conv' = conv
      BY <1>6, <2>1, <2>2 DEF parseCalibration
    <3> QED
      BY <1>1, <1>2, <1>3, <1>6, <3>1
  <2>3. CASE i # None
    <3>1. setting[a].device \in Devices \cup {None}
      BY <1>3 DEF Setting
    <3>2. i \in Items /\ Names(l.key, i)
      BY <2>1, <2>3, <3>1, ItemFound
    <3>3. a \in Feeders[i]
      BY <1>1, <1>2, <1>6, <3>2 DEF Feeders
    <3>4. PICK c \in Conversion : c = setConversionFactor(conv[i], l.factor)
      <4>1. l.factor \in Nat \ {0}
        BY <1>2, <1>6 DEF IsCommand
      <4> QED
        BY <1>3, <3>2, <4>1, ConversionType
    <3>5. conv' = [conv EXCEPT ![i] = c]
      BY <1>6, <2>1, <2>3, <3>4 DEF parseCalibration
    <3>6. conv' \in [Items -> Conversion] /\ \A j \in Items : conv'[j] # conv[j] => a \in Feeders[j]
      BY <1>3, <3>2, <3>3, <3>4, <3>5
    <3> QED
      BY <1>1, <1>2, <1>3, <1>6, <3>6
  <2> QED
    BY <2>2, <2>3
<1>7. \/ l.command = "device" /\ l.device \in Devices /\ setting' = [setting EXCEPT ![a].device = l.device] /\ conv' = conv
      \/ l.command \in {"conversionRequired", "relativeTime"} /\ setting' = [setting EXCEPT ![a][l.command] = l.yes] /\ conv' = conv
      \/ l.command = "calibration" /\ parseCalibration(a, l) /\ setting' = setting
  BY DEF protocolCommand
<1> QED
  BY <1>4, <1>5, <1>6, <1>7

(* protocolCommand keeps the types: settings and factors are in range.     *)
LEMMA protocolCommandType ==
  ASSUME TypeOK, NEW a \in Adapters, NEW l, protocolCommand(a, l)
  PROVE  TypeOK'
<1>1. LineType' /\ ConnType'
  BY protocolCommandFacts, ReceivesType
<1>2. /\ post' = post /\ job' = job /\ clock' = clock /\ gathering' = gathering
      /\ source' = source /\ lastValue' = lastValue /\ lastSample' = lastSample /\ lastOffset' = lastOffset
      /\ conv' \in [Items -> Conversion] /\ ShownUnchanged
      /\ setting' \in [Adapters -> Setting] /\ commanded' = commanded \cup {a}
  BY protocolCommandFacts DEF filters
<1>3. /\ PostType' /\ JobType' /\ GatherType' /\ FilterType' /\ clock' \in [Adapters -> Clock]
      /\ source' \in [Items -> Adapters \cup {None}] /\ commanded' \subseteq Adapters
  BY <1>2 DEF TypeOK, PostType, JobType, GatherType, FilterType
<1> QED
  BY <1>1, <1>2, <1>3, UnchangedType DEF TypeOK

(* Every step keeps the types.                                             *)
LEMMA TypeStep == TypeOK /\ [Next]_vars => TypeOK'
<1> SUFFICES ASSUME TypeOK, [Next]_vars PROVE TypeOK'
  OBVIOUS
<1>1. CASE UNCHANGED vars
  <2>1. /\ up' = up /\ conn' = conn /\ sent' = sent /\ peer' = peer /\ timing' = timing
        /\ job' = job /\ post' = post /\ AdapterUnchanged /\ ItemUnchanged /\ ShownUnchanged
    BY <1>1 DEF vars, feed, adapter, filters, item, shown, AdapterUnchanged, ItemUnchanged, ShownUnchanged
  <2> QED
    BY <2>1, UnchangedType DEF TypeOK
<1>2. ASSUME NEW a \in Adapters, Connect(a) PROVE TypeOK'
  BY <1>2, ConnectType
<1>3. ASSUME NEW a \in Adapters, connected(a) PROVE TypeOK'
  BY <1>3, connectedType
<1>4. ASSUME NEW a \in Adapters, Disconnect(a) PROVE TypeOK'
  BY <1>4, DisconnectType
<1>5. ASSUME NEW a \in Adapters, disconnected(a) PROVE TypeOK'
  BY <1>5, disconnectedType
<1>6. ASSUME NEW a \in Adapters, addToBuffer(a) PROVE TypeOK'
  BY <1>6, addToBufferType
<1>7. ASSUME NEW a \in Adapters, processDataItem(a) PROVE TypeOK'
  BY <1>7, processDataItemType
<1>8. ASSUME NEW a \in Adapters, NEW l, Gather(a, l) PROVE TypeOK'
  BY <1>8, GatheringType
<1>9. ASSUME NEW a \in Adapters, NEW l, processData(a, l) PROVE TypeOK'
  BY <1>9, processDataType
<1>10. ASSUME NEW a \in Adapters, NEW l, processAsset(a, l) PROVE TypeOK'
  BY <1>10, processAssetType
<1>11. ASSUME NEW a \in Adapters, NEW l, protocolCommand(a, l) PROVE TypeOK'
  BY <1>11, protocolCommandType
<1> QED
  BY <1>1, <1>2, <1>3, <1>4, <1>5, <1>6, <1>7, <1>8, <1>9, <1>10, <1>11 DEF Next

-----------------------------------------------------------------------------
(* Assets.                                                                 *)

(* What is known of one adapter's asset.                                   *)
AssetOf(a) ==
  /\ gathering[a] = {} => peer[a] = <<>>
  /\ peer[a] # <<>> => RestOf(a)
  /\ \A g \in gathering[a] : g.conn <= conn[a] /\ (g.conn = conn[a] => up[a] /\ peer[a] # <<>>)

StoredWhole ==
  \A s \in stored :
    s.began = s.ended =>
      \E a \in Adapters : \E l \in Lines[a] :
        l.kind = "multiline" /\ l.id = s.id /\ s.lines = Front(l.follow)



(* Initially no asset is gathered.                                         *)
LEMMA AssetInit == Init => AssetInv
<1> SUFFICES ASSUME Init PROVE AssetInv
  OBVIOUS
<1>1. stored = {} /\ \A a \in Adapters : gathering[a] = {} /\ peer[a] = <<>>
  BY DEF Init
<1> QED
  BY <1>1 DEF AssetInv

(* A step that leaves an adapter's asset and connection alone.             *)
AssetUnchanged(a) ==
  up'[a] = up[a] /\ conn'[a] = conn[a] /\ peer'[a] = peer[a] /\ gathering'[a] = gathering[a]

(* AssetOf depends on the adapter's connection, peer and asset only.       *)
LEMMA AssetKept ==
  ASSUME NEW a \in Adapters, AssetOf(a), AssetUnchanged(a)
  PROVE  AssetOf(a)'
BY DEF AssetOf, AssetUnchanged, RestOf, Follows

(* The lines gathered so far, and one more.                                *)
LEMMA GatheredAdvances ==
  ASSUME NEW S, NEW follow \in Seq(S), NEW lines, Len(lines) \in Nat, StartOf(lines, follow),
         Len(lines) < Len(follow)
  PROVE  LET more == Append(lines, follow[Len(lines) + 1])
         IN  StartOf(more, follow) /\ Len(more) = Len(lines) + 1
<1>1. PICK n \in Nat : n = Len(lines)
  OBVIOUS
<1>2. Append(SubSeq(follow, 1, n), follow[n + 1]) = SubSeq(follow, 1, n + 1)
  BY <1>1
<1>3. Len(SubSeq(follow, 1, n + 1)) = n + 1 /\ n + 1 <= Len(follow)
  BY <1>1
<1> QED
  BY <1>1, <1>2, <1>3 DEF StartOf

(* What is there and what is still to come are all.                        *)
LEMMA Complement ==
  ASSUME NEW m \in Nat, NEW r \in Nat, NEW n \in Nat, NEW all \in Nat, n = all - r, m + r = all
  PROVE  m = n
OBVIOUS

(* All but the last is there when one is left.                             *)
LEMMA OneLeft ==
  ASSUME NEW r \in Nat, NEW n \in Nat, NEW all \in Nat, n = all - r
  PROVE  n + 1 = all <=> r = 1
OBVIOUS

(* A sequence of one element has an empty tail, a longer one has not.      *)
LEMMA TailEmpty ==
  ASSUME NEW S, NEW s \in Seq(S), s # <<>>
  PROVE  Tail(s) = <<>> <=> Len(s) = 1
<1>1. Len(s) \in Nat \ {0} /\ Tail(s) \in Seq(S) /\ Len(Tail(s)) = Len(s) - 1
  OBVIOUS
<1>2. \A t \in Seq(S) : Len(t) = 0 => t = <<>>
  OBVIOUS
<1>3. Len(<<>>) = 0
  OBVIOUS
<1>4. Len(s) = 1 => Len(Tail(s)) = 0
  BY <1>1
<1>5. Len(s) # 1 => Len(Tail(s)) # 0
  BY <1>1
<1> QED
  BY <1>1, <1>2, <1>3, <1>4, <1>5

(* All lines but the last are the front.                                   *)
LEMMA WholeFront ==
  ASSUME NEW S, NEW follow \in Seq(S), NEW lines, StartOf(lines, follow), Len(lines) = Len(follow) - 1
  PROVE  lines = Front(follow)
BY DEF Front, StartOf

-----------------------------------------------------------------------------
(* A step of one adapter's thread.                                         *)
Step(a) ==
  \/ Connect(a) \/ connected(a) \/ Disconnect(a) \/ disconnected(a) \/ addToBuffer(a) \/ processDataItem(a)
  \/ \E l : Gather(a, l) \/ processData(a, l) \/ processAsset(a, l) \/ protocolCommand(a, l)

(* What the thread of a keeps of adapter b.                                *)
AdapterKept(b) ==
  /\ up'[b] = up[b] /\ conn'[b] = conn[b] /\ peer'[b] = peer[b] /\ timing'[b] = timing[b]
  /\ job'[b] = job[b] /\ post'[b] = post[b] /\ setting'[b] = setting[b] /\ clock'[b] = clock[b]
  /\ gathering'[b] = gathering[b] /\ (b \in commanded' <=> b \in commanded)

(* Every step of the system is one of an adapter's thread.                 *)
LEMMA NextIsStep == Next => \E a \in Adapters : Step(a)
BY DEF Next, Step

(* Receiving a line is nothing to another adapter.                         *)
LEMMA ReceivesKeeps ==
  ASSUME TypeOK, NEW a \in Adapters, NEW l, Receives(a, l), NEW b \in Adapters \ {a}
  PROVE  up' = up /\ conn' = conn /\ peer'[b] = peer[b] /\ timing'[b] = timing[b]
BY DEF TypeOK, LineType, Receives

(* Asking a filter is nothing to another adapter.                          *)
LEMMA AskKeeps ==
  ASSUME TypeOK, NEW a \in Adapters, NEW i, NEW check, NEW v, NEW offset, NEW c, Ask(a, i, check, v, offset, c),
         NEW b \in Adapters \ {a}
  PROVE  post'[b] = post[b]
BY DEF TypeOK, PostType, Ask

(* No thread touches what is another adapter's.                            *)
LEMMA StepKeeps ==
  ASSUME TypeOK, NEW a \in Adapters, Step(a), NEW b \in Adapters \ {a}
  PROVE  AdapterKept(b)
<1>0. /\ ConnType /\ LineType /\ JobType /\ PostType
      /\ setting \in [Adapters -> Setting] /\ clock \in [Adapters -> Clock] /\ GatherType
  BY DEF TypeOK
<1>1. CASE Connect(a)
  BY <1>0, <1>1 DEF Connect, AdapterKept, ConnType, JobType, adapter
<1>2. CASE connected(a)
  BY <1>0, <1>2, connectedFacts DEF Goes, AdapterKept, feed, adapter
<1>3. CASE Disconnect(a)
  <2>1. job'[b] = job[b]
    BY <1>0, <1>3, DisconnectFacts DEF JobType
  <2>2. clock'[b] = clock[b]
    BY <1>0, <1>3 DEF Disconnect, ResetClock
  <2>3. up'[b] = up[b] /\ conn'[b] = conn[b] /\ peer'[b] = peer[b] /\ timing'[b] = timing[b]
    BY <1>0, <1>3 DEF Disconnect, ConnType, LineType
  <2>4. /\ post' = post /\ setting' = setting /\ gathering' = gathering /\ commanded' = commanded
    BY <1>3 DEF Disconnect
  <2> QED
    BY <2>1, <2>2, <2>3, <2>4 DEF AdapterKept
<1>4. CASE disconnected(a)
  <2>1. /\ Goes(a) /\ feed' = feed /\ adapter' = adapter
        /\ Loses(a, Head(job[a].todo))
    BY <1>4, disconnectedFacts
  <2>2. post'[b] = post[b]
    BY <2>1, AskKeeps DEF Loses
  <2> QED
    BY <2>1, <2>2 DEF Goes, AdapterKept, feed, adapter
<1>5. CASE addToBuffer(a)
  <2>1. post' = [post EXCEPT ![a] = {}] /\ feed' = feed /\ job' = job /\ adapter' = adapter
    BY <1>5, addToBufferFacts
  <2> QED
    BY <1>0, <2>1 DEF PostType, AdapterKept, feed, adapter
<1>6. CASE processDataItem(a)
  <2>1. Goes(a) /\ feed' = feed /\ adapter' = adapter
    BY <1>6, processDataItemFacts
  <2>2. post'[b] = post[b]
    <3>1. CASE post' = post
      BY <3>1
    <3>2. CASE \E i \in Items, p \in Pair : Accepts(a, i, p.value)
      <4>1. PICK i \in Items, p \in Pair : Accepts(a, i, p.value)
        BY <3>2
      <4> QED
        BY <4>1, AskKeeps DEF Accepts
    <3> QED
      BY <1>6, <3>1, <3>2, processDataItemFacts
  <2> QED
    BY <2>1, <2>2 DEF Goes, AdapterKept, feed, adapter
<1>7. CASE \E l : Gather(a, l)
  <2>1. PICK l : Gather(a, l)
    BY <1>7
  <2>2. /\ Receives(a, l) /\ gathering'[b] = gathering[b]
        /\ job' = job /\ post' = post /\ setting' = setting /\ clock' = clock /\ commanded' = commanded
    BY <1>0, <2>1 DEF Gather, GatherType
  <2> QED
    BY <2>2, ReceivesKeeps DEF AdapterKept
<1>8. CASE \E l : processData(a, l)
  <2>1. PICK l : processData(a, l)
    BY <1>8
  <2>2. PICK time, next : clock' = [clock EXCEPT ![a] = time] /\ job' = [job EXCEPT ![a] = next]
    BY <2>1 DEF processData
  <2>3. clock'[b] = clock[b]
    BY <1>0, <2>2
  <2>4. job'[b] = job[b]
    BY <1>0, <2>2 DEF JobType
  <2>5. /\ Receives(a, l)
        /\ gathering' = gathering /\ post' = post /\ setting' = setting /\ commanded' = commanded
    BY <2>1 DEF processData
  <2> QED
    BY <2>3, <2>4, <2>5, ReceivesKeeps DEF AdapterKept
<1>9. CASE \E l : processAsset(a, l)
  <2>1. PICK l : processAsset(a, l)
    BY <1>9
  <2>2. /\ Receives(a, l) /\ clock'[b] = clock[b] /\ gathering'[b] = gathering[b]
        /\ job' = job /\ post' = post /\ setting' = setting /\ commanded' = commanded
    BY <1>0, <2>1, processAssetFacts DEF GatherType
  <2> QED
    BY <2>2, ReceivesKeeps DEF AdapterKept
<1>10. CASE \E l : protocolCommand(a, l)
  <2>1. PICK l : protocolCommand(a, l)
    BY <1>10
  <2>2. /\ Receives(a, l) /\ setting'[b] = setting[b] /\ commanded' = commanded \cup {a}
        /\ job' = job /\ post' = post /\ gathering' = gathering /\ clock' = clock
    BY <2>1, protocolCommandFacts
  <2> QED
    BY <2>2, ReceivesKeeps DEF AdapterKept
<1> QED
  BY <1>1, <1>2, <1>3, <1>4, <1>5, <1>6, <1>7, <1>8, <1>9, <1>10 DEF Step

-----------------------------------------------------------------------------
(* Assets, step by step.                                                   *)

(* The next line of an asset is the one that follows, and the asset ends   *)
(* with its last line.                                                     *)
LEMMA NextLine ==
  ASSUME TypeOK, NEW a \in Adapters, peer[a] # <<>>, NEW l0 \in Lines[a], l0.kind = "multiline",
         EndOf(peer[a], l0.follow)
  PROVE  \E n \in Nat :
           /\ n = Len(l0.follow) - Len(peer[a]) /\ n < Len(l0.follow) /\ Head(peer[a]) = l0.follow[n + 1]
           /\ Head(peer[a]).kind = "end" <=> Tail(peer[a]) = <<>>
           /\ Tail(peer[a]) = <<>> => n + 1 = Len(l0.follow) /\ Head(peer[a]).id = l0.id
           /\ Len(Tail(peer[a])) = Len(peer[a]) - 1
           /\ EndOf(Tail(peer[a]), l0.follow)
<1>1. PICK rest \in Seq(AssetLine) : rest = peer[a]
  BY DEF TypeOK, LineType
<1>2. EndsWith(l0.follow, l0.id)
  BY LineAssumption
<1>3. PICK follow \in Seq(AssetLine) : follow = l0.follow
  BY <1>2, EndsWithFacts
<1>4. /\ Len(rest) \in 1 .. Len(follow)
      /\ Head(rest) = follow[Len(follow) + 1 - Len(rest)]
      /\ Tail(rest) \in Seq(AssetLine) /\ Len(Tail(rest)) = Len(rest) - 1
      /\ EndOf(Tail(rest), follow)
  BY <1>1, <1>3, RestAdvances
<1>5. PICK n \in Nat : n = Len(follow) - Len(rest)
  BY <1>4
<1>6. n < Len(follow) /\ n + 1 \in 1 .. Len(follow) /\ Len(follow) + 1 - Len(rest) = n + 1
  BY <1>4, <1>5
<1>7. /\ follow[n + 1].kind = "end" <=> n + 1 = Len(follow)
      /\ follow[Len(follow)].id = l0.id
  BY <1>2, <1>3, <1>6, EndsWithFacts
<1>8. Tail(rest) = <<>> <=> Len(rest) = 1
  BY <1>1, TailEmpty
<1>9. n + 1 = Len(follow) <=> Len(rest) = 1
  <2>1. PICK all, r : all = Len(follow) /\ r = Len(rest)
    OBVIOUS
  <2>2. all \in Nat /\ r \in Nat
    BY <1>1, <1>3, <2>1
  <2>3. n = all - r
    BY <1>5, <2>1
  <2>4. n + 1 = all <=> r = 1
    BY <2>2, <2>3, OneLeft
  <2> QED
    BY <2>1, <2>4
<1> QED
  BY <1>1, <1>3, <1>4, <1>5, <1>6, <1>7, <1>8, <1>9

(* While nothing is gathered, or an asset of an earlier connection, the    *)
(* peer goes on with its lines or begins an asset of its own.              *)
LEMMA RestKept ==
  ASSUME TypeOK, NEW a \in Adapters, AssetOf(a), NEW l, Receives(a, l), peer'[a] # <<>>,
         \A g \in gathering'[a] : g.conn # conn'[a]
  PROVE  RestOf(a)'
<1>1. peer' = [peer EXCEPT ![a] = IF @ # <<>> THEN Tail(@) ELSE IF l.kind = "multiline" THEN l.follow ELSE <<>>]
  BY DEF Receives
<1>2. CASE peer[a] # <<>>
  <2>1. PICK l0 \in Lines[a] :
          l0.kind = "multiline" /\ EndOf(peer[a], l0.follow)
    BY <1>2 DEF AssetOf, RestOf
  <2>2. peer'[a] = Tail(peer[a])
    BY <1>1, <1>2 DEF TypeOK, LineType
  <2>3. EndOf(Tail(peer[a]), l0.follow)
    BY <1>2, <2>1, NextLine
  <2> QED
    BY <2>1, <2>2, <2>3 DEF RestOf
<1>3. CASE peer[a] = <<>>
  <2>1. peer'[a] = l.follow /\ l.kind = "multiline"
    BY <1>1, <1>3 DEF TypeOK, LineType
  <2>2. l \in Lines[a]
    BY <1>3 DEF Receives, Incoming
  <2>3. PICK follow \in Seq(AssetLine) : follow = l.follow
    BY <2>1, <2>2, LineAssumption, EndsWithFacts
  <2>4. EndOf(follow, follow)
    BY <2>3 DEF EndOf
  <2> QED
    BY <2>1, <2>2, <2>3, <2>4 DEF RestOf
<1> QED
  BY <1>2, <1>3

(* A line is gathered.                                                     *)
LEMMA AssetGathers ==
  ASSUME TypeOK, NEW a \in Adapters, AssetOf(a), StoredWhole, NEW l, Gather(a, l)
  PROVE  AssetOf(a)' /\ StoredWhole'
<1>1. PICK g \in gathering[a] :
        /\ Receives(a, l)
        /\ IF Ends(g, l)
             THEN /\ stored' = stored \cup {[id |-> g.id, lines |-> g.lines, began |-> g.conn, ended |-> conn[a]]}
                  /\ gathering' = [gathering EXCEPT ![a] = {}]
             ELSE /\ gathering' = [gathering EXCEPT ![a] = {[g EXCEPT !.lines = Append(@, l)]}]
                  /\ stored' = stored
  BY DEF Gather
<1>2. gathering[a] = {g} /\ g \in Gathered
  BY DEF TypeOK, GatherType, AtMostOne
<1>3. /\ peer' = [peer EXCEPT ![a] = IF @ # <<>> THEN Tail(@) ELSE IF l.kind = "multiline" THEN l.follow ELSE <<>>]
      /\ up' = up /\ conn' = conn /\ up[a] /\ l \in Incoming(a)
  BY <1>1 DEF Receives
<1>4. peer[a] \in Seq(AssetLine)
  BY DEF TypeOK, LineType
<1>5. /\ peer[a] # <<>> => peer'[a] = Tail(peer[a]) /\ l = Head(peer[a])
      /\ peer[a] = <<>> => l \in Lines[a]
  BY <1>3 DEF TypeOK, LineType, Incoming
<1>6. Ends(g, l) => peer[a] # <<>>
  BY <1>5, LineAssumption DEF Ends, Timed
<1>7. Len(g.lines) \in Nat /\ Len(peer[a]) \in Nat
  BY <1>2, <1>4 DEF Gathered
<1>8. CASE Ends(g, l)
  <2>1. PICK l0 \in Lines[a] :
          /\ l0.kind = "multiline" /\ EndOf(peer[a], l0.follow)
          /\ g.conn = conn[a] => Follows(a, g, l0)
    BY <1>2, <1>6, <1>8 DEF AssetOf, RestOf
  <2>2. PICK n \in Nat :
          /\ n = Len(l0.follow) - Len(peer[a])
          /\ Head(peer[a]).kind = "end" <=> Tail(peer[a]) = <<>>
          /\ Tail(peer[a]) = <<>> => n + 1 = Len(l0.follow) /\ Head(peer[a]).id = l0.id
    BY <1>6, <1>8, <2>1, NextLine
  <2>3. n + 1 = Len(l0.follow) /\ Tail(peer[a]) = <<>>
    BY <1>5, <1>6, <1>8, <2>2 DEF Ends
  <2>4. AssetOf(a)'
    BY <1>1, <1>5, <1>6, <1>8, <2>3 DEF AssetOf, TypeOK, GatherType
  <2>5. PICK s : s = [id |-> g.id, lines |-> g.lines, began |-> g.conn, ended |-> conn[a]]
    OBVIOUS
  <2>6. ASSUME g.conn = conn[a]
        PROVE  l0.id = g.id /\ g.lines = Front(l0.follow)
    <3>1. l0.id = g.id /\ StartOf(g.lines, l0.follow) /\ Len(g.lines) + Len(peer[a]) = Len(l0.follow)
      BY <2>1, <2>6 DEF Follows
    <3>2. l0.follow \in Seq(AssetLine) /\ Len(l0.follow) \in Nat
      BY <2>1, LineAssumption, EndsWithFacts
    <3>3. Len(g.lines) = Len(l0.follow) - 1
      <4>1. PICK m, r, all : m = Len(g.lines) /\ r = Len(peer[a]) /\ all = Len(l0.follow)
        OBVIOUS
      <4>2. n = all - r /\ m + r = all
        BY <2>2, <3>1, <4>1
      <4>3. m \in Nat /\ r \in Nat /\ all \in Nat
        BY <1>7, <3>2, <4>1
      <4>4. m = n
        BY <4>2, <4>3, Complement
      <4>5. n + 1 = all
        BY <2>3, <4>1
      <4>6. m = all - 1
        BY <4>3, <4>4, <4>5
      <4> QED
        BY <4>1, <4>6
    <3> QED
      BY <3>1, <3>2, <3>3, WholeFront
  <2>7. StoredWhole'
    <3>1. stored' = stored \cup {s}
      BY <1>1, <1>8, <2>5
    <3>2. s.began = s.ended => l0.id = s.id /\ s.lines = Front(l0.follow)
      BY <2>5, <2>6
    <3>3. s.began = s.ended => \E b \in Adapters : \E k \in Lines[b] :
            k.kind = "multiline" /\ k.id = s.id /\ s.lines = Front(k.follow)
      BY <2>1, <3>2
    <3> QED
      BY <3>1, <3>3 DEF StoredWhole
  <2> QED
    BY <2>4, <2>7
<1>9. CASE ~ Ends(g, l)
  <2>1. PICK h : h = [g EXCEPT !.lines = Append(@, l)]
    OBVIOUS
  <2>2. h.id = g.id /\ h.conn = g.conn /\ h.lines = Append(g.lines, l)
    BY <1>2, <2>1 DEF Gathered
  <2>3. gathering'[a] = {h} /\ StoredWhole'
    BY <1>1, <1>9, <2>1 DEF TypeOK, GatherType, StoredWhole
  <2>4. g.conn <= conn[a]
    BY <1>2 DEF AssetOf
  <2>5. CASE g.conn = conn[a]
    <3>1. peer[a] # <<>>
      BY <1>2, <2>5 DEF AssetOf
    <3>2. PICK l0 \in Lines[a] : l0.kind = "multiline" /\ EndOf(peer[a], l0.follow) /\ Follows(a, g, l0)
      BY <1>2, <2>5, <3>1 DEF AssetOf, RestOf
    <3>3. PICK n \in Nat :
            /\ n = Len(l0.follow) - Len(peer[a]) /\ n < Len(l0.follow) /\ Head(peer[a]) = l0.follow[n + 1]
            /\ Head(peer[a]).kind = "end" <=> Tail(peer[a]) = <<>>
            /\ Tail(peer[a]) = <<>> => n + 1 = Len(l0.follow) /\ Head(peer[a]).id = l0.id
            /\ Len(Tail(peer[a])) = Len(peer[a]) - 1
            /\ EndOf(Tail(peer[a]), l0.follow)
      BY <3>1, <3>2, NextLine
    <3>4. l0.follow \in Seq(AssetLine) /\ Len(l0.follow) \in Nat
      BY <3>2, LineAssumption, EndsWithFacts
    <3>5. /\ l0.id = g.id /\ StartOf(g.lines, l0.follow)
          /\ Len(g.lines) + Len(peer[a]) = Len(l0.follow)
      BY <3>2 DEF Follows
    <3>6. Len(g.lines) = n /\ n < Len(l0.follow)
      <4>1. PICK m, r, all : m = Len(g.lines) /\ r = Len(peer[a]) /\ all = Len(l0.follow)
        OBVIOUS
      <4>2. n = all - r /\ m + r = all /\ n < all
        BY <3>3, <3>5, <4>1
      <4>3. m \in Nat /\ r \in Nat /\ all \in Nat
        BY <1>7, <3>4, <4>1
      <4>4. m = n
        BY <4>2, <4>3, Complement
      <4> QED
        BY <4>1, <4>2, <4>4
    <3>7. peer'[a] = Tail(peer[a]) /\ l = l0.follow[n + 1]
      BY <1>5, <3>1, <3>3
    <3>8. peer'[a] # <<>>
      <4>1. /\ Tail(peer[a]) = <<>> => l.kind = "end" /\ l.id = g.id
            /\ peer'[a] = Tail(peer[a])
        BY <1>5, <3>1, <3>3, <3>5
      <4> QED
        BY <1>9, <4>1 DEF Ends
    <3>9. StartOf(h.lines, l0.follow) /\ Len(h.lines) = n + 1
      BY <1>7, <2>2, <3>4, <3>5, <3>6, <3>7, GatheredAdvances
    <3>10. Len(h.lines) + Len(peer'[a]) = Len(l0.follow)
      <4>1. n = Len(l0.follow) - Len(peer[a]) /\ Len(peer'[a]) = Len(peer[a]) - 1 /\ Len(h.lines) = n + 1
        BY <3>3, <3>7, <3>9
      <4> QED
        BY <1>7, <3>4, <4>1
    <3>11. Follows(a, h, l0)'
      BY <2>2, <3>2, <3>5, <3>9, <3>10 DEF Follows
    <3>12. RestOf(a)'
      BY <2>3, <3>2, <3>3, <3>7, <3>11 DEF RestOf
    <3>13. AssetOf(a)'
      BY <1>3, <2>2, <2>3, <2>4, <3>8, <3>12 DEF AssetOf
    <3> QED
      BY <2>3, <3>13
  <2>6. CASE g.conn # conn[a]
    <3>1. \A k \in gathering'[a] : k.conn # conn'[a] /\ k.conn <= conn'[a]
      BY <1>3, <2>2, <2>3, <2>4, <2>6
    <3>2. peer'[a] # <<>> => RestOf(a)'
      BY <1>1, <3>1, RestKept
    <3>3. AssetOf(a)'
      BY <2>3, <3>1, <3>2 DEF AssetOf
    <3> QED
      BY <2>3, <3>3
  <2> QED
    BY <2>5, <2>6
<1> QED
  BY <1>8, <1>9

(* An asset begins.                                                        *)
LEMMA AssetBegins ==
  ASSUME TypeOK, NEW a \in Adapters, NEW l, processAsset(a, l)
  PROVE  AssetOf(a)'
<1>1. PICK g : g = [id |-> l.id, lines |-> <<>>, conn |-> conn[a]]
  OBVIOUS
<1>2. gathering'[a] = {g} /\ g.id = l.id /\ g.lines = <<>> /\ g.conn = conn[a]
  BY <1>1, processAssetFacts DEF TypeOK, GatherType
<1>3. PICK follow \in Seq(AssetLine) : follow = l.follow /\ Len(follow) > 0
  BY processAssetFacts, EndsWithFacts
<1>4. peer'[a] = follow /\ up'[a] /\ conn'[a] = conn[a]
  BY <1>3, processAssetFacts DEF TypeOK, LineType, Receives
<1>5. EndOf(follow, follow) /\ StartOf(<<>>, follow) /\ Len(<<>>) + Len(follow) = Len(follow)
  BY <1>3 DEF EndOf, StartOf
<1>6. Follows(a, g, l)'
  BY <1>2, <1>3, <1>4, <1>5, processAssetFacts DEF Follows
<1>7. RestOf(a)'
  <2>1. l \in Lines[a] /\ l.kind = "multiline"
    BY processAssetFacts
  <2> QED
    BY <1>2, <1>3, <1>4, <1>5, <1>6, <2>1 DEF RestOf
<1>8. conn[a] <= conn[a]
  BY DEF TypeOK, ConnType
<1> QED
  BY <1>2, <1>3, <1>4, <1>7, <1>8 DEF AssetOf

(* The connection itself comes up or is lost.                              *)
LEMMA AssetConnects ==
  ASSUME TypeOK, NEW a \in Adapters, AssetOf(a), Connect(a) \/ Disconnect(a)
  PROVE  AssetOf(a)' /\ stored' = stored
<1>1. CASE Connect(a)
  <2>1. /\ ~ up[a] /\ up'[a] = TRUE /\ conn' = conn /\ peer' = peer /\ gathering' = gathering /\ stored' = stored
    BY <1>1 DEF Connect, adapter, TypeOK, ConnType
  <2> QED
    BY <2>1 DEF AssetOf, RestOf, Follows
<1>2. CASE Disconnect(a)
  <2>1. /\ conn'[a] = conn[a] + 1 /\ peer'[a] = <<>> /\ gathering' = gathering /\ stored' = stored
    BY <1>2 DEF Disconnect, TypeOK, ConnType, LineType
  <2>2. conn[a] \in Nat
    BY FeedAssumption DEF TypeOK, ConnType
  <2>3. ASSUME NEW g \in gathering[a]
        PROVE  g.conn \in Nat
    <3>1. g \in Gathered
      BY DEF TypeOK, GatherType
    <3> QED
      BY <3>1, FeedAssumption DEF Gathered
  <2> QED
    BY <2>1, <2>2, <2>3 DEF AssetOf
<1> QED
  BY <1>1, <1>2

(* The other steps leave the asset alone.                                  *)
LEMMA AssetLeft ==
  ASSUME TypeOK, NEW a \in Adapters,
         \/ connected(a) \/ disconnected(a) \/ addToBuffer(a) \/ processDataItem(a)
         \/ \E l : processData(a, l) \/ protocolCommand(a, l)
  PROVE  AssetUnchanged(a) /\ stored' = stored
<1>1. CASE connected(a) \/ disconnected(a) \/ addToBuffer(a) \/ processDataItem(a)
  <2>1. feed' = feed /\ adapter' = adapter
    BY <1>1, connectedFacts, disconnectedFacts, addToBufferFacts, processDataItemFacts
  <2> QED
    BY <2>1 DEF feed, adapter, AssetUnchanged
<1>2. CASE \E l : processData(a, l) \/ protocolCommand(a, l)
  <2>1. PICK l : processData(a, l) \/ protocolCommand(a, l)
    BY <1>2
  <2>2. /\ Receives(a, l) /\ peer[a] = <<>> /\ l.kind # "multiline"
        /\ gathering' = gathering /\ stored' = stored
    BY <2>1, processDataFacts, protocolCommandFacts, TimedLine
  <2>3. peer'[a] = <<>> /\ up' = up /\ conn' = conn
    BY <2>2 DEF Receives, TypeOK, LineType
  <2> QED
    BY <2>2, <2>3 DEF AssetUnchanged
<1> QED
  BY <1>1, <1>2

(* Every step keeps what is known of assets.                               *)
LEMMA AssetStep == TypeOK /\ AssetInv /\ [Next]_vars => AssetInv'
<1> SUFFICES ASSUME TypeOK, AssetInv, [Next]_vars PROVE AssetInv'
  OBVIOUS
<1>0. (\A a \in Adapters : AssetOf(a)) /\ StoredWhole
  BY DEF AssetInv, AssetOf, StoredWhole
<1>1. SUFFICES (\A a \in Adapters : AssetOf(a)') /\ StoredWhole'
  BY DEF AssetInv, AssetOf, StoredWhole
<1>2. CASE UNCHANGED vars
  <2>1. stored' = stored /\ \A a \in Adapters : AssetUnchanged(a)
    BY <1>2 DEF vars, feed, adapter, AssetUnchanged
  <2> QED
    BY <1>0, <2>1, AssetKept DEF StoredWhole
<1>3. ASSUME NEW a \in Adapters, Step(a)
      PROVE  (\A b \in Adapters : AssetOf(b)') /\ StoredWhole'
  <2>1. ASSUME NEW b \in Adapters \ {a}
        PROVE  AssetOf(b)'
    <3>1. AssetUnchanged(b)
      BY <1>3, StepKeeps DEF AdapterKept, AssetUnchanged
    <3> QED
      BY <1>0, <3>1, AssetKept
  <2>2. CASE Connect(a) \/ Disconnect(a)
    BY <1>0, <2>1, <2>2, AssetConnects DEF StoredWhole
  <2>3. CASE \E l : Gather(a, l)
    BY <1>0, <2>1, <2>3, AssetGathers
  <2>4. CASE \E l : processAsset(a, l)
    <3>1. AssetOf(a)' /\ stored' = stored
      BY <2>4, AssetBegins, processAssetFacts
    <3> QED
      BY <1>0, <2>1, <3>1 DEF StoredWhole
  <2>5. CASE \/ connected(a) \/ disconnected(a) \/ addToBuffer(a) \/ processDataItem(a)
             \/ \E l : processData(a, l) \/ protocolCommand(a, l)
    <3>1. AssetUnchanged(a) /\ stored' = stored
      BY <2>5, AssetLeft
    <3> QED
      BY <1>0, <2>1, <3>1, AssetKept DEF StoredWhole
  <2> QED
    BY <1>3, <2>2, <2>3, <2>4, <2>5 DEF Step
<1> QED
  BY <1>2, <1>3, NextIsStep

-----------------------------------------------------------------------------
(* Times.                                                                  *)

Relative(a) == Config[a].relativeTime /\ a \notin commanded /\ OneForm(a)

(* m_parseTime and the base are those of the lines a sends, the base is    *)
(* the time of the first.                                                  *)
BaseOf(a) ==
  /\ setting[a].relativeTime
  /\ ~ clock[a].base => timing[a].first = {}
  /\ clock[a].base => timing[a].first = {clock[a].offset}
  /\ clock[a].parse => \A l \in Lines[a] : Timed(l) => l.time.form = "date"
  /\ clock[a].base => \A l \in Lines[a] : Timed(l) => clock[a].parse = (l.time.form = "date")

OffsetOf(a) ==
  job[a].does = "line" => \A t \in timing[a].last, z \in timing[a].first : t >= z => job[a].offset = {t - z}

(* Initially no time was read.                                             *)
LEMMA TimeInit == Init => TimeInv
<1> SUFFICES ASSUME Init, NEW a \in Adapters, Config[a].relativeTime
             PROVE  BaseOf(a) /\ OffsetOf(a)
  BY DEF TimeInv, BaseOf, OffsetOf
<1>1. /\ setting[a].relativeTime /\ ~ clock[a].base /\ ~ clock[a].parse /\ timing[a].first = {}
      /\ job[a] = Idle
  BY DEF Init
<1> QED
  BY <1>1, IdleType DEF BaseOf, OffsetOf

(* A time that is not before the base is not cut down.                     *)
LEMMA WrapSmall ==
  ASSUME NEW t \in 0 .. TimeWidth - 1, NEW z \in Nat, t >= z
  PROVE  Wrap(t - z) = t - z
<1>1. ASSUME NEW w \in Nat \ {0}, NEW u \in 0 .. w - 1, u >= z
      PROVE  (u - z) % w = u - z
  BY <1>1
<1>2. PICK w \in Nat \ {0} : w = TimeWidth
  BY TimeRange
<1> QED
  BY <1>1, <1>2 DEF Wrap

(* What extractTime makes of the time of a line.                           *)
LEMMA TimeRead ==
  ASSUME TypeOK, NEW a \in Adapters, Relative(a), BaseOf(a),
         NEW l \in Lines[a], Timed(l)
  PROVE  LET time == extractTime(a, l.time)
             base == IF clock[a].base THEN clock[a].offset ELSE l.time.t
         IN  /\ time.clock.base /\ time.clock.offset = base
             /\ \A k \in Lines[a] : Timed(k) => time.clock.parse = (k.time.form = "date")
             /\ l.time.t >= base => time.offset = l.time.t - base
<1> DEFINE first == ~ clock[a].base
           parse == IF first /\ l.time.form = "date" THEN TRUE ELSE clock[a].parse
           zero  == IF first THEN Reading(l.time.form = "date", l.time) ELSE clock[a].offset
           base == IF clock[a].base THEN clock[a].offset ELSE l.time.t
<1>1. clock[a].base \in BOOLEAN /\ clock[a].parse \in BOOLEAN /\ clock[a].offset \in Nat
  BY DEF TypeOK, Clock
<1>2. l.time.t \in 0 .. TimeWidth - 1 /\ l.time.t \in Nat
  BY LineAssumption, TimeRange
<1>3. setting[a].relativeTime
  BY DEF BaseOf
<1>4. parse = (l.time.form = "date")
  <2>1. clock[a].parse => l.time.form = "date"
    BY DEF BaseOf
  <2>2. clock[a].base => clock[a].parse = (l.time.form = "date")
    BY DEF BaseOf
  <2> QED
    BY <1>1, <2>1, <2>2
<1>5. \A k \in Lines[a] : Timed(k) => k.time.form = l.time.form
  BY DEF Relative, OneForm
<1>6. zero = base
  BY DEF Reading
<1>7. Reading(parse, l.time) = l.time.t
  BY <1>4 DEF Reading
<1>8. /\ extractTime(a, l.time).clock = [base |-> TRUE, offset |-> zero, parse |-> parse]
      /\ extractTime(a, l.time).offset = IF first THEN 0 ELSE Wrap(Reading(parse, l.time) - zero)
  BY <1>3 DEF extractTime
<1> HIDE DEF parse, zero
<1>9. ASSUME l.time.t >= base
      PROVE  extractTime(a, l.time).offset = l.time.t - base
  <2>1. CASE first
    BY <1>2, <1>8, <2>1
  <2>2. CASE ~ first
    <3>1. Wrap(l.time.t - clock[a].offset) = l.time.t - clock[a].offset
      BY <1>1, <1>2, <1>9, <2>2, WrapSmall
    <3> QED
      BY <1>6, <1>7, <1>8, <2>2, <3>1
  <2> QED
    BY <2>1, <2>2
<1> QED
  BY <1>4, <1>5, <1>6, <1>8, <1>9

(* What a step that reads no time leaves alone.                            *)
TimeUnchanged(a) ==
  /\ setting'[a] = setting[a] /\ clock'[a] = clock[a] /\ timing'[a] = timing[a]
  /\ job'[a].does = "line" => job[a].does = "line" /\ job'[a].offset = job[a].offset

(* A step that reads no time keeps what is known of times.                 *)
LEMMA TimeKept ==
  ASSUME NEW a \in Adapters, TimeUnchanged(a), BaseOf(a), OffsetOf(a)
  PROVE  BaseOf(a)' /\ OffsetOf(a)'
BY DEF TimeUnchanged, BaseOf, OffsetOf

(* A line with a time sets the base, or is related to it.                  *)
LEMMA TimeSet ==
  ASSUME TypeOK, NEW a \in Adapters, Relative(a), BaseOf(a), NEW l, Receives(a, l), Timed(l), gathering[a] = {},
         clock' = [clock EXCEPT ![a] = extractTime(a, l.time).clock], setting' = setting,
         job'[a].does = "line" => job'[a].offset = {extractTime(a, l.time).offset}
  PROVE  BaseOf(a)' /\ OffsetOf(a)'
<1> DEFINE time == extractTime(a, l.time)
           base == IF clock[a].base THEN clock[a].offset ELSE l.time.t
<1>1. l \in Lines[a]
  BY TimedLine
<1>2. /\ time.clock.base /\ time.clock.offset = base
      /\ \A k \in Lines[a] : Timed(k) => time.clock.parse = (k.time.form = "date")
      /\ l.time.t >= base => time.offset = l.time.t - base
  BY <1>1, TimeRead
<1> HIDE DEF time
<1>3. clock'[a] = time.clock
  BY DEF TypeOK, time
<1>4. timing'[a].last = {l.time.t} /\ timing'[a].first = IF timing[a].first = {} THEN {l.time.t} ELSE timing[a].first
  BY DEF Receives, TypeOK, LineType
<1>5. timing'[a].first = {base}
  BY <1>4 DEF BaseOf
<1>6. BaseOf(a)'
  BY <1>2, <1>3, <1>5 DEF BaseOf
<1>7. OffsetOf(a)'
  BY <1>2, <1>4, <1>5 DEF OffsetOf, time
<1> QED
  BY <1>6, <1>7

(* The adapter's own steps.                                                *)
LEMMA TimeOwnStep ==
  ASSUME TypeOK, NEW a \in Adapters, Step(a), Relative(a), a \notin commanded', BaseOf(a), OffsetOf(a)
  PROVE  BaseOf(a)' /\ OffsetOf(a)'
<1>1. CASE connected(a) \/ disconnected(a) \/ processDataItem(a) \/ addToBuffer(a)
  <2>1. feed' = feed /\ adapter' = adapter /\ (Goes(a) \/ job' = job)
    BY <1>1, connectedFacts, disconnectedFacts, addToBufferFacts, processDataItemFacts
  <2>2. TimeUnchanged(a)
    BY <2>1, IdleType DEF feed, adapter, TimeUnchanged, Goes
  <2> QED
    BY <2>2, TimeKept
<1>2. CASE Connect(a)
  <2>1. adapter' = adapter /\ timing' = timing /\ (job' = job \/ job'[a].does = "connected")
    BY <1>2 DEF Connect, TypeOK, JobType, Doing
  <2>2. TimeUnchanged(a)
    BY <2>1 DEF adapter, TimeUnchanged
  <2> QED
    BY <2>2, TimeKept
<1>3. CASE Disconnect(a)
  <2>1. job'[a].does = "disconnected"
    BY <1>3, DisconnectFacts DEF TypeOK, JobType, Doing
  <2>2. /\ setting' = setting /\ timing'[a].first = {} /\ ~ clock'[a].base /\ clock'[a].parse = clock[a].parse
    BY <1>3 DEF Disconnect, ResetClock, TypeOK, LineType, Clock
  <2> QED
    BY <2>1, <2>2 DEF BaseOf, OffsetOf
<1>4. CASE \E l : Gather(a, l)
  <2>1. /\ gathering[a] # {} /\ job' = job /\ setting' = setting /\ clock' = clock
        /\ \E l : Receives(a, l)
    BY <1>4 DEF Gather
  <2>2. timing' = timing
    BY <2>1 DEF Receives
  <2>3. TimeUnchanged(a)
    BY <2>1, <2>2 DEF TimeUnchanged
  <2> QED
    BY <2>3, TimeKept
<1>5. CASE \E l : processData(a, l)
  <2>1. PICK l : processData(a, l)
    BY <1>5
  <2>2. job'[a].offset = {extractTime(a, l.time).offset}
    BY <2>1, processDataFacts DEF TypeOK, JobType, Doing
  <2> QED
    BY <2>1, <2>2, processDataFacts, TimeSet
<1>6. CASE \E l : processAsset(a, l)
  <2>1. PICK l : processAsset(a, l)
    BY <1>6
  <2>2. job'[a].does # "line"
    BY <2>1, processAssetFacts DEF Receives, Free
  <2> QED
    BY <2>1, <2>2, processAssetFacts, TimeSet
<1>7. CASE \E l : protocolCommand(a, l)
  BY <1>7, protocolCommandFacts
<1> QED
  BY <1>1, <1>2, <1>3, <1>4, <1>5, <1>6, <1>7 DEF Step

(* Every step keeps what is known of times.                                *)
LEMMA TimeStep == TypeOK /\ TimeInv /\ [Next]_vars => TimeInv'
<1> SUFFICES ASSUME TypeOK, TimeInv, [Next]_vars PROVE TimeInv'
  OBVIOUS
<1>1. \A a \in Adapters : Relative(a) => BaseOf(a) /\ OffsetOf(a)
  BY DEF TimeInv, Relative, BaseOf, OffsetOf
<1>2. SUFFICES ASSUME NEW a \in Adapters, Relative(a)'
               PROVE  BaseOf(a)' /\ OffsetOf(a)'
  BY DEF TimeInv, Relative, BaseOf, OffsetOf
<1>3. CASE UNCHANGED vars
  <2>1. TimeUnchanged(a) /\ Relative(a)
    BY <1>2, <1>3 DEF vars, feed, adapter, TimeUnchanged, Relative
  <2> QED
    BY <1>1, <2>1, TimeKept
<1>4. ASSUME NEW b \in Adapters, Step(b)
      PROVE  BaseOf(a)' /\ OffsetOf(a)'
  <2>1. CASE b = a
    <3>1. a \notin commanded' /\ Relative(a)
      <4>1. commanded \subseteq commanded'
        BY <1>4, connectedFacts, disconnectedFacts, addToBufferFacts, processDataItemFacts, processDataFacts,
          processAssetFacts, protocolCommandFacts DEF Step, Connect, Disconnect, Gather, adapter
      <4> QED
        BY <1>2, <4>1 DEF Relative
    <3> QED
      BY <1>1, <1>4, <2>1, <3>1, TimeOwnStep
  <2>2. CASE b # a
    <3>1. AdapterKept(a)
      BY <1>4, <2>2, StepKeeps
    <3>2. TimeUnchanged(a) /\ Relative(a)
      BY <1>2, <3>1 DEF AdapterKept, TimeUnchanged, Relative
    <3> QED
      BY <1>1, <3>2, TimeKept
  <2> QED
    BY <2>1, <2>2
<1> QED
  BY <1>3, <1>4, NextIsStep

-----------------------------------------------------------------------------
(* Jobs and feeders.                                                       *)
JobOf(a) ==
  /\ job[a].does = "line" => up[a] /\ \A k \in DOMAIN job[a].todo : job[a].todo[k] \in Pairs[a]
  /\ job[a].does = "connected" =>
       /\ up[a] /\ Config[a].autoAvailable
       /\ \A k \in DOMAIN job[a].todo :
            \E m \in DOMAIN Config[a].allDevices : job[a].todo[k] = Config[a].allDevices[m]
  /\ job[a].does = "disconnected" => ~ up[a] /\ \A k \in DOMAIN job[a].todo : Reached(a, job[a].todo[k])
  /\ ~ up[a] => \A p \in post[a] : p.value = Down(p.item)
  /\ a \notin commanded => setting[a].conversionRequired

(* Initially there is no job.                                              *)
LEMMA JobInit == Init => JobInv
<1> SUFFICES ASSUME Init, NEW a \in Adapters PROVE JobOf(a)
  BY DEF JobInv, JobOf
<1>1. job[a] = Idle /\ post[a] = {} /\ setting[a].conversionRequired
  BY DEF Init
<1> QED
  BY <1>1, IdleType DEF JobOf

(* The rest of a sequence has its elements; its head is one of them.       *)
LEMMA TailElements ==
  ASSUME NEW S, NEW s \in Seq(S), s # <<>>
  PROVE  /\ \A k \in DOMAIN Tail(s) : \E m \in DOMAIN s : Tail(s)[k] = s[m]
         /\ \E m \in DOMAIN s : Head(s) = s[m]
         /\ \A m \in DOMAIN s : s[m] # Head(s) => \E k \in DOMAIN Tail(s) : Tail(s)[k] = s[m]
<1>1. PICK n \in Nat \ {0} : n = Len(s)
  OBVIOUS
<1>2. DOMAIN s = 1 .. n /\ DOMAIN Tail(s) = 1 .. n - 1 /\ Head(s) = s[1]
  BY <1>1
<1>3. \A k \in 1 .. n - 1 : Tail(s)[k] = s[k + 1] /\ k + 1 \in 1 .. n
  BY <1>1
<1>4. ASSUME NEW m \in 1 .. n, s[m] # Head(s)
      PROVE  \E k \in 1 .. n - 1 : Tail(s)[k] = s[m]
  <2>1. m - 1 \in 1 .. n - 1 /\ (m - 1) + 1 = m
    BY <1>1, <1>2, <1>4
  <2> QED
    BY <1>3, <2>1
<1>5. PICK t : t = Tail(s)
  OBVIOUS
<1>6. /\ \A k \in 1 .. n - 1 : \E m \in 1 .. n : t[k] = s[m]
      /\ \E m \in 1 .. n : Head(s) = s[m]
      /\ \A m \in 1 .. n : s[m] # Head(s) => \E k \in 1 .. n - 1 : t[k] = s[m]
  BY <1>1, <1>2, <1>3, <1>4, <1>5
<1>7. DOMAIN t = 1 .. n - 1
  BY <1>2, <1>5
<1> QED
  BY <1>2, <1>5, <1>6, <1>7, Zenon

(* Going on with a job.                                                    *)
LEMMA JobGoes ==
  ASSUME TypeOK, NEW a \in Adapters, JobOf(a), Goes(a), up'[a] = up[a], setting' = setting, commanded' = commanded,
         ~ up[a] => \A p \in post'[a] : p.value = Down(p.item)
  PROVE  JobOf(a)'
<1>1. CASE job'[a] = Idle
  BY <1>1, IdleType DEF JobOf
<1>2. CASE job'[a].does = job[a].does /\ job'[a].todo = Tail(job[a].todo)
  <2>1. CASE job[a].does = "idle"
    BY <1>2, <2>1 DEF JobOf
  <2>2. CASE job[a].does # "idle"
    <3>1. PICK S : job[a].todo \in Seq(S) /\ job[a].todo # <<>>
      BY <2>2, JobFacts DEF IsJob
    <3>2. \A k \in DOMAIN Tail(job[a].todo) : \E m \in DOMAIN job[a].todo : Tail(job[a].todo)[k] = job[a].todo[m]
      BY <3>1, TailElements
    <3> QED
      BY <1>2, <3>2 DEF JobOf
  <2> QED
    BY <2>1, <2>2
<1> QED
  BY <1>1, <1>2 DEF Goes

(* What a lost item posts.                                                 *)
LEMMA LosesPosts ==
  ASSUME TypeOK, NEW a \in Adapters, NEW i \in Items, Loses(a, i), post[a] = {}
  PROVE  \A p \in post'[a] : Marks(a, i) /\ p.item = i /\ p.value = Down(i)
BY DEF Loses, Ask, TypeOK, PostType

(* What an accepted value posts.                                           *)
LEMMA AcceptsPosts ==
  ASSUME TypeOK, NEW a \in Adapters, NEW i \in Items, NEW v, Accepts(a, i, v)
  PROVE  \A p \in post'[a] : p.item = i /\ p.value = v
BY DEF Accepts, Ask, TypeOK, PostType

(* The adapter's own steps.                                                *)
LEMMA JobOwnStep ==
  ASSUME TypeOK, NEW a \in Adapters, Step(a), JobOf(a)
  PROVE  JobOf(a)'
<1>1. CASE connected(a)
  BY <1>1, connectedFacts, JobGoes DEF JobOf, feed, adapter
<1>2. CASE disconnected(a)
  <2>1. \A p \in post'[a] : p.value = Down(p.item)
    BY <1>2, disconnectedFacts, LosesPosts
  <2> QED
    BY <1>2, <2>1, disconnectedFacts, JobGoes DEF feed, adapter
<1>3. CASE processDataItem(a)
  <2>1. up[a]
    BY <1>3, processDataItemFacts DEF JobOf
  <2> QED
    BY <1>3, <2>1, processDataItemFacts, JobGoes DEF feed, adapter
<1>4. CASE addToBuffer(a)
  <2>1. feed' = feed /\ adapter' = adapter /\ job' = job /\ post'[a] = {}
    BY <1>4, addToBufferFacts DEF TypeOK, PostType
  <2> QED
    BY <2>1 DEF feed, adapter, JobOf
<1>5. CASE Connect(a)
  <2>1. /\ up'[a] = TRUE /\ adapter' = adapter /\ job[a].does = "idle"
    BY <1>5 DEF Connect, Free, TypeOK, ConnType
  <2>2. \/ job' = job
        \/ /\ job'[a].does = "connected" /\ job'[a].todo = Config[a].allDevices
           /\ Config[a].autoAvailable
    BY <1>5 DEF Connect, TypeOK, JobType, Doing
  <2> QED
    BY <2>1, <2>2 DEF JobOf, adapter
<1>6. CASE Disconnect(a)
  <2>1. /\ up'[a] = FALSE /\ post'[a] = {} /\ setting' = setting /\ commanded' = commanded
    BY <1>6 DEF Disconnect, Free, TypeOK, ConnType
  <2>2. PICK items \in Seq(Items) :
          /\ \A k \in DOMAIN items : Reached(a, items[k])
          /\ job' = [job EXCEPT ![a] = Doing("disconnected", items, FALSE, {})]
    BY <1>6, DisconnectFacts
  <2>3. job'[a].does = "disconnected" /\ job'[a].todo = items
    BY <2>2 DEF TypeOK, JobType, Doing
  <2> QED
    BY <2>1, <2>2, <2>3 DEF JobOf
<1>7. CASE \E l : Gather(a, l)
  <2>1. up' = up /\ job' = job /\ post' = post /\ setting' = setting /\ commanded' = commanded
    BY <1>7 DEF Gather, Receives
  <2> QED
    BY <2>1 DEF JobOf
<1>8. CASE \E l : processData(a, l)
  <2>1. PICK l : processData(a, l)
    BY <1>8
  <2>2. /\ up' = up /\ up[a] /\ post' = post /\ setting' = setting /\ commanded' = commanded
        /\ l \in Lines[a] /\ l.kind = "data" /\ l.pairs \in Seq(Pair)
    BY <2>1, processDataFacts DEF Receives
  <2>3. job'[a].does = "line" /\ job'[a].todo = l.pairs
    BY <2>1, processDataFacts DEF TypeOK, JobType, Doing
  <2>4. \A k \in DOMAIN l.pairs : l.pairs[k] \in Pairs[a]
    <3>1. ToSet(l.pairs) \subseteq Pairs[a]
      BY <2>2 DEF Pairs
    <3> QED
      BY <2>2, <3>1 DEF ToSet
  <2> QED
    BY <2>2, <2>3, <2>4 DEF JobOf
<1>9. CASE \E l : processAsset(a, l)
  <2>1. up' = up /\ job' = job /\ post' = post /\ setting' = setting /\ commanded' = commanded
    BY <1>9, processAssetFacts DEF Receives
  <2> QED
    BY <2>1 DEF JobOf
<1>10. CASE \E l : protocolCommand(a, l)
  <2>1. up' = up /\ job' = job /\ post' = post /\ a \in commanded'
    BY <1>10, protocolCommandFacts DEF Receives
  <2> QED
    BY <2>1 DEF JobOf
<1> QED
  BY <1>1, <1>2, <1>3, <1>4, <1>5, <1>6, <1>7, <1>8, <1>9, <1>10 DEF Step

(* Every step keeps the jobs.                                              *)
LEMMA JobStep == TypeOK /\ JobInv /\ [Next]_vars => JobInv'
<1> SUFFICES ASSUME TypeOK, JobInv, [Next]_vars, NEW a \in Adapters PROVE JobOf(a)'
  BY DEF JobInv, JobOf
<1>1. JobOf(a)
  BY DEF JobInv, JobOf
<1>2. CASE UNCHANGED vars
  BY <1>1, <1>2 DEF vars, feed, adapter, JobOf
<1>3. ASSUME NEW b \in Adapters, Step(b)
      PROVE  JobOf(a)'
  <2>1. CASE b = a
    BY <1>1, <1>3, <2>1, JobOwnStep
  <2>2. CASE b # a
    <3>1. AdapterKept(a)
      BY <1>3, <2>2, StepKeeps
    <3> QED
      BY <1>1, <3>1 DEF AdapterKept, JobOf
  <2> QED
    BY <2>1, <2>2
<1> QED
  BY <1>2, <1>3, NextIsStep

-----------------------------------------------------------------------------
(* Items.  What a step does to one item, seen from the adapter a.          *)

(* The filters and the source of the item, and what it shows, stay.        *)
FiltersKept(i) ==
  lastValue'[i] = lastValue[i] /\ lastSample'[i] = lastSample[i] /\ lastOffset'[i] = lastOffset[i]

ItemKept(i) ==
  /\ FiltersKept(i) /\ source'[i] = source[i] /\ received'[i] = received[i]
  /\ latest'[i] = latest[i] /\ before'[i] = before[i]

ConnKept(a) == up'[a] = up[a] /\ conn'[a] = conn[a]

(* The filter was asked about the item, and its answer taken.              *)
Asked(a, i, check, v, offset, c) ==
  LET settled == FilterSettles(i, c)
      answer  == AdapterIsDuplicate(a, i, check, offset, settled)
  IN  /\ lastValue'[i] = answer.value /\ lastSample'[i] = answer.sample /\ lastOffset'[i] = answer.offset
      /\ conv'[i] = settled
      /\ Pending(a, i)' = IF answer.drop THEN {} ELSE {[item |-> i, value |-> v]}

Frozen(a, i) ==
  ItemKept(i) /\ (conv'[i] = conv[i] \/ a \in commanded') /\ Pending(a, i)' = Pending(a, i)

Quiet(a, i) == Frozen(a, i) /\ ConnKept(a) /\ (Waits(a, i) => Waits(a, i)')

Rises(a, i) == Frozen(a, i) /\ ~ up[a] /\ up'[a] /\ conn'[a] = conn[a] /\ ~ Waits(a, i) /\ Pending(a, i) = {}

Falls(a, i) == Frozen(a, i) /\ ~ up'[a] /\ (Reached(a, i) => Waits(a, i)')

Announces(a, i) == Bypassed(a, i) /\ ItemKept(i) /\ conv'[i] = conv[i] /\ ConnKept(a) /\ up[a]

Takes(a, i, v) ==
  /\ v \in SentValues[a][i] /\ v \in Value /\ up[a] /\ ConnKept(a) /\ Pending(a, i) = {}
  /\ source'[i] = a /\ received'[i] = v /\ latest'[i] = latest[i] /\ before'[i] = before[i]
  /\ \E offset \in SUBSET Nat : Asked(a, i, Check(i, v), v, offset, setDataSource(a, conv[i]))

LosesItem(a, i) ==
  /\ ~ up[a] /\ ConnKept(a) /\ Pending(a, i) = {}
  /\ source'[i] = source[i] /\ latest'[i] = latest[i] /\ before'[i] = before[i]
  /\ IF Marks(a, i)
       THEN Asked(a, i, Down(i), Down(i), DownOffset, conv[i])
       ELSE FiltersKept(i) /\ conv'[i] = conv[i] /\ Pending(a, i)' = {}
  /\ received'[i] = IF source[i] = a THEN Word(Unavailable) ELSE received[i]

AddsItem(a, i, v) ==
  /\ ConnKept(a) /\ Pending(a, i) = {[item |-> i, value |-> v]} /\ Pending(a, i)' = {} /\ v \in Value
  /\ latest'[i] = [value |-> Observed(i, Settled(i, conv[i]), v), by |-> a, conn |-> conn[a]]
  /\ before'[i] = latest[i]
  /\ conv'[i] \in {conv[i], Settled(i, conv[i])}
  /\ FiltersKept(i) /\ source'[i] = source[i] /\ received'[i] = received[i]

ItemStep(a, i) ==
  \/ Quiet(a, i) \/ Rises(a, i) \/ Falls(a, i) \/ Announces(a, i) \/ LosesItem(a, i)
  \/ \E v : Takes(a, i, v) \/ AddsItem(a, i, v)

(* What is posted for an item depends on the adapter's post alone.         *)
LEMMA PendingFacts ==
  ASSUME NEW a, NEW i
  PROVE  /\ Pending(a, i) \subseteq post[a] /\ \A p \in Pending(a, i) : p.item = i
         /\ post[a] = {} => Pending(a, i) = {}
         /\ post'[a] = {} => Pending(a, i)' = {}
         /\ post'[a] = post[a] => Pending(a, i)' = Pending(a, i)
         /\ (\A p \in post'[a] : p.item # i) => Pending(a, i)' = {}
         /\ \A v : post[a] = {[item |-> i, value |-> v]} => Pending(a, i) = {[item |-> i, value |-> v]}
BY DEF Pending

(* Steps that are about no item.                                           *)
LEMMA KeepsItems ==
  ASSUME ItemUnchanged, ShownUnchanged, NEW i
  PROVE  ItemKept(i) /\ conv'[i] = conv[i]
BY DEF ItemUnchanged, ShownUnchanged, ItemKept, FiltersKept

(* An item other than the one asked about stays.                           *)
LEMMA AskOther ==
  ASSUME TypeOK, NEW a \in Adapters, NEW j \in Items, NEW check, NEW v, NEW offset, NEW c,
         Ask(a, j, check, v, offset, c), NEW i \in Items, i # j
  PROVE  /\ FiltersKept(i) /\ conv'[i] = conv[i]
         /\ Pending(a, i)' = {}
<1>1. FiltersKept(i) /\ conv'[i] = conv[i]
  BY DEF Ask, TypeOK, FilterType, FiltersKept
<1>2. \A p \in post'[a] : p.item = j
  BY DEF Ask, TypeOK, PostType
<1> QED
  BY <1>1, <1>2, PendingFacts

(* The item asked about.                                                   *)
LEMMA AskItem ==
  ASSUME TypeOK, NEW a \in Adapters, NEW i \in Items, NEW check, NEW v, NEW offset, NEW c,
         Ask(a, i, check, v, offset, c)
  PROVE  Asked(a, i, check, v, offset, c)
<1> DEFINE settled == FilterSettles(i, c)
           answer  == AdapterIsDuplicate(a, i, check, offset, settled)
<1>1. /\ lastValue'[i] = answer.value /\ lastSample'[i] = answer.sample /\ lastOffset'[i] = answer.offset
      /\ conv'[i] = settled
      /\ post'[a] = IF answer.drop THEN {} ELSE {[item |-> i, value |-> v]}
  BY DEF Ask, TypeOK, FilterType, PostType
<1> HIDE DEF settled, answer
<1>2. Pending(a, i)' = post'[a]
  BY <1>1 DEF Pending
<1> QED
  BY <1>1, <1>2 DEF Asked, settled, answer

-----------------------------------------------------------------------------
(* Only feeders.                                                           *)

(* What a step of a's thread does to items and posts is a feeder's doing.  *)
Feeds(a) ==
  /\ \A p \in post'[a] : a \in Feeders[p.item]
  /\ \A i \in Items :
       /\ a \in Feeders[i] \/ (ItemKept(i) /\ conv'[i] = conv[i])
       /\ source'[i] \in {source[i], a} /\ latest'[i].by \in {latest[i].by, a}

(* A loss does nothing to the items it has not reached.                    *)
LEMMA LosesOther ==
  ASSUME TypeOK, NEW a \in Adapters, NEW j \in Items, Loses(a, j), post[a] = {}, NEW i \in Items, i # j,
         latest' = latest, before' = before, source' = source
  PROVE  ItemKept(i) /\ conv'[i] = conv[i] /\ Pending(a, i)' = {}
<1>1. received'[i] = received[i]
  BY DEF Loses, TypeOK
<1>2. FiltersKept(i) /\ conv'[i] = conv[i] /\ Pending(a, i)' = {}
  <2>1. CASE Marks(a, j)
    <3>1. Ask(a, j, Down(j), Down(j), DownOffset, conv[j])
      BY <2>1 DEF Loses
    <3> QED
      BY <3>1, AskOther
  <2>2. CASE ~ Marks(a, j)
    <3>1. filters' = filters /\ conv' = conv /\ post' = post
      BY <2>2 DEF Loses
    <3> QED
      BY <3>1, PendingFacts DEF filters, FiltersKept
  <2> QED
    BY <2>1, <2>2
<1> QED
  BY <1>1, <1>2 DEF ItemKept

(* An accepted value is nothing to the other items.                        *)
LEMMA AcceptsOther ==
  ASSUME TypeOK, NEW a \in Adapters, NEW j \in Items, NEW v, Accepts(a, j, v), NEW i \in Items, i # j,
         latest' = latest, before' = before
  PROVE  ItemKept(i) /\ conv'[i] = conv[i] /\ Pending(a, i)' = {}
<1>1. source'[i] = source[i] /\ received'[i] = received[i]
  BY DEF Accepts, TypeOK
<1>2. FiltersKept(i) /\ conv'[i] = conv[i] /\ Pending(a, i)' = {}
  BY AskOther DEF Accepts
<1> QED
  BY <1>1, <1>2 DEF ItemKept

(* Nor is what is added to the buffer.                                     *)
LEMMA AddsOther ==
  ASSUME TypeOK, NEW a \in Adapters, NEW j \in Items, NEW v, Adds(a, j, v), NEW i \in Items, i # j,
         source' = source, filters' = filters, received' = received
  PROVE  ItemKept(i) /\ conv'[i] = conv[i]
BY DEF Adds, TypeOK, FilterType, filters, ItemKept, FiltersKept

(* A pair of a line feeds its item.                                        *)
LEMMA LineFeeds ==
  ASSUME TypeOK, NEW a \in Adapters, JobOf(a), job[a].does = "line", NEW i \in Items, Names(Head(job[a].todo).key, i)
  PROVE  a \in Feeders[i] /\ Head(job[a].todo) \in Pairs[a] /\ Head(job[a].todo).value \in SentValues[a][i] /\ up[a]
<1>1. \E m \in DOMAIN job[a].todo : Head(job[a].todo) = job[a].todo[m]
  BY JobFacts, TailElements
<1>2. Head(job[a].todo) \in Pairs[a] /\ up[a]
  BY <1>1 DEF JobOf
<1>3. a \in Feeders[i]
  BY <1>2 DEF Feeders
<1>4. Head(job[a].todo).value \in SentValues[a][i]
  BY <1>2 DEF SentValues
<1> QED
  BY <1>2, <1>3, <1>4

(* An availability that is posted has its adapter for a feeder.            *)
LEMMA ConnectionFeeds ==
  ASSUME TypeOK, NEW a \in Adapters, JobOf(a), connected(a), NEW p \in post'[a]
  PROVE  Bypassed(a, p.item) /\ Reached(a, p.item) /\ a \in Feeders[p.item]
<1>1. /\ job[a].does = "connected" /\ p \in Posted /\ Def[p.item].type = "AVAILABILITY"
      /\ p.item \in ToSet(DeviceItems[Head(job[a].todo)])
  BY connectedFacts
<1>2. PICK m \in DOMAIN job[a].todo : Head(job[a].todo) = job[a].todo[m]
  BY <1>1, JobFacts, TailElements
<1>3. Config[a].autoAvailable /\ \E k \in DOMAIN Config[a].allDevices : job[a].todo[m] = Config[a].allDevices[k]
  BY <1>1, <1>2 DEF JobOf
<1>4. Bypassed(a, p.item) /\ Reached(a, p.item)
  BY <1>1, <1>2, <1>3 DEF Bypassed, Reached
<1>5. p.item \in Items
  BY <1>1 DEF Posted
<1> QED
  BY <1>4, <1>5 DEF Feeders

(* An item that is marked has its adapter for a feeder.                    *)
LEMMA LossFeeds ==
  ASSUME TypeOK, NEW a \in Adapters, JobOf(a), FeederInv, disconnected(a), NEW i \in Items, i = Head(job[a].todo),
         Owns(a, i)
  PROVE  a \in Feeders[i]
<1>1. job[a].does = "disconnected"
  BY disconnectedFacts
<1>2. Reached(a, i)
  <2>1. PICK m \in DOMAIN job[a].todo : Head(job[a].todo) = job[a].todo[m]
    BY <1>1, JobFacts, TailElements
  <2> QED
    BY <1>1, <2>1 DEF JobOf
<1>3. CASE source[i] = a
  BY <1>3, FeedAssumption DEF FeederInv
<1>4. CASE Config[a].autoAvailable /\ Def[i].type = "AVAILABILITY"
  BY <1>2, <1>4 DEF Feeders, Bypassed
<1> QED
  BY <1>3, <1>4 DEF Owns

(* A step changes only items that its adapter feeds.                       *)
LEMMA StepFeeds ==
  ASSUME TypeOK, NEW a \in Adapters, JobOf(a), FeederInv, Step(a)
  PROVE  Feeds(a)
<1>0. \A p \in post[a] : a \in Feeders[p.item]
  BY DEF FeederInv
<1>1. ASSUME ItemUnchanged, ShownUnchanged
      PROVE  \A i \in Items :
               /\ ItemKept(i) /\ conv'[i] = conv[i]
               /\ source'[i] \in {source[i], a} /\ latest'[i].by \in {latest[i].by, a}
  BY <1>1, KeepsItems DEF ItemKept
<1>2. CASE connected(a)
  BY <1>1, <1>2, connectedFacts, ConnectionFeeds DEF Feeds
<1>3. CASE disconnected(a)
  <2>1. PICK j \in Items : j = Head(job[a].todo) /\ Loses(a, j)
    BY <1>3, disconnectedFacts
  <2>2. post[a] = {} /\ latest' = latest /\ before' = before /\ source' = source
    BY <1>3, disconnectedFacts
  <2>3. \A p \in post'[a] : a \in Feeders[p.item]
    BY <1>3, <2>1, <2>2, LosesPosts, LossFeeds DEF Marks
  <2>4. ASSUME NEW i \in Items
        PROVE  a \in Feeders[i] \/ (ItemKept(i) /\ conv'[i] = conv[i])
    <3>1. CASE i # j
      BY <2>1, <2>2, <3>1, LosesOther
    <3>2. CASE i = j /\ Owns(a, i)
      BY <1>3, <2>1, <3>2, LossFeeds
    <3>3. CASE i = j /\ ~ Owns(a, i)
      <4>1. source[i] # a /\ ~ Marks(a, i)
        BY <3>3 DEF Owns, Marks
      <4>2. filters' = filters /\ conv' = conv /\ received' = received
        BY <2>1, <3>3, <4>1 DEF Loses
      <4> QED
        BY <2>2, <4>2 DEF ItemKept, FiltersKept, filters
    <3> QED
      BY <3>1, <3>2, <3>3
  <2> QED
    BY <2>2, <2>3, <2>4 DEF Feeds
<1>4. CASE processDataItem(a)
  <2>1. CASE ItemUnchanged /\ post' = post /\ received' = received
    <3>1. ShownUnchanged
      BY <1>4, <2>1, processDataItemFacts DEF ShownUnchanged
    <3> QED
      BY <1>0, <1>1, <2>1, <3>1 DEF Feeds
  <2>2. CASE \E j \in Items, p \in Pair : p = Head(job[a].todo) /\ Names(p.key, j) /\ Accepts(a, j, p.value)
    <3>1. PICK j \in Items, p \in Pair : p = Head(job[a].todo) /\ Names(p.key, j) /\ Accepts(a, j, p.value)
      BY <2>2
    <3>2. a \in Feeders[j] /\ latest' = latest /\ before' = before
      BY <1>4, <3>1, processDataItemFacts, LineFeeds
    <3>3. \A q \in post'[a] : a \in Feeders[q.item]
      BY <3>1, <3>2, AcceptsPosts
    <3>4. \A i \in Items : i # j => ItemKept(i) /\ conv'[i] = conv[i]
      BY <3>1, <3>2, AcceptsOther
    <3>5. \A i \in Items : source'[i] \in {source[i], a}
      BY <3>1 DEF Accepts, TypeOK
    <3> QED
      BY <3>2, <3>3, <3>4, <3>5 DEF Feeds
  <2> QED
    BY <1>4, <2>1, <2>2, processDataItemFacts
<1>5. CASE addToBuffer(a)
  <2>1. PICK p \in Posted : post[a] = {p} /\ Adds(a, p.item, p.value)
    BY <1>5, addToBufferFacts
  <2>2. post'[a] = {} /\ source' = source /\ filters' = filters /\ received' = received
    BY <1>5, addToBufferFacts DEF TypeOK, PostType
  <2>3. p.item \in Items /\ a \in Feeders[p.item]
    BY <1>0, <2>1 DEF Posted
  <2>4. \A i \in Items : i # p.item => ItemKept(i) /\ conv'[i] = conv[i]
    BY <2>1, <2>2, <2>3, AddsOther
  <2>5. \A i \in Items : latest'[i].by \in {latest[i].by, a}
    BY <2>1, <2>3 DEF Adds, TypeOK
  <2> QED
    BY <2>2, <2>3, <2>4, <2>5 DEF Feeds
<1>6. CASE Connect(a) \/ Disconnect(a) \/ \E l : Gather(a, l) \/ processData(a, l) \/ processAsset(a, l)
  <2>1. ItemUnchanged /\ ShownUnchanged /\ post' = post
    BY <1>6, processDataFacts, processAssetFacts DEF Connect, Disconnect, Gather, item, filters, shown, ItemUnchanged,
      ShownUnchanged
  <2> QED
    BY <1>0, <1>1, <2>1 DEF Feeds
<1>7. CASE \E l : protocolCommand(a, l)
  <2>1. PICK l : protocolCommand(a, l)
    BY <1>7
  <2>2. /\ post' = post /\ source' = source /\ filters' = filters /\ ShownUnchanged
        /\ \A i \in Items : conv'[i] # conv[i] => a \in Feeders[i]
    BY <2>1, protocolCommandFacts
  <2>3. \A i \in Items : ItemKept(i)
    BY <2>2 DEF filters, ShownUnchanged, ItemKept, FiltersKept
  <2> QED
    BY <1>0, <2>2, <2>3 DEF Feeds, ShownUnchanged
<1> QED
  BY <1>2, <1>3, <1>4, <1>5, <1>6, <1>7 DEF Step

(* Initially nothing was posted, owned or shown.                           *)
LEMMA FeederInit == Init => FeederInv
<1> SUFFICES ASSUME Init PROVE FeederInv
  OBVIOUS
<1>1. /\ \A a \in Adapters : post[a] = {}
      /\ \A i \in Items : source[i] = None
      /\ \A i \in Items : latest[i] = [value |-> Word(Unavailable), by |-> None, conn |-> 0]
  BY DEF Init
<1>2. \A i \in Items : latest[i].by = None
  BY <1>1
<1> QED
  BY <1>1, <1>2 DEF FeederInv

(* Every step is a feeder's.                                               *)
LEMMA FeederStep == TypeOK /\ JobInv /\ FeederInv /\ [Next]_vars => FeederInv'
<1> SUFFICES ASSUME TypeOK, JobInv, FeederInv, [Next]_vars PROVE FeederInv'
  OBVIOUS
<1>1. CASE UNCHANGED vars
  BY <1>1 DEF vars, item, shown, FeederInv
<1>2. ASSUME NEW a \in Adapters, Step(a)
      PROVE  FeederInv'
  <2>1. JobOf(a)
    BY DEF JobInv, JobOf
  <2>2. Feeds(a)
    BY <1>2, <2>1, StepFeeds
  <2>3. \A b \in Adapters : \A p \in post'[b] : b \in Feeders[p.item]
    <3>1. \A b \in Adapters \ {a} : post'[b] = post[b]
      BY <1>2, StepKeeps DEF AdapterKept
    <3> QED
      BY <2>2, <3>1 DEF FeederInv, Feeds
  <2>4. \A i \in Items : source'[i] # None => source'[i] \in Feeders[i]
    BY <2>2 DEF FeederInv, Feeds, ItemKept
  <2>5. \A i \in Items : latest'[i].by # None => latest'[i].by \in Feeders[i]
    BY <2>2 DEF FeederInv, Feeds, ItemKept
  <2> QED
    BY <2>3, <2>4, <2>5 DEF FeederInv
<1> QED
  BY <1>1, <1>2, NextIsStep

-----------------------------------------------------------------------------
(* An item that one adapter feeds: every step is of one of the kinds.      *)
LEMMA OtherStep ==
  ASSUME TypeOK, JobInv, FeederInv, NEW b \in Adapters, Step(b), NEW a \in Adapters \ {b}, NEW i \in Items, Private(a, i)
  PROVE  Quiet(a, i) /\ (a \in commanded' <=> a \in commanded)
<1>1. AdapterKept(a)
  BY StepKeeps
<1>2. Feeds(b)
  BY StepFeeds DEF JobInv, JobOf
<1>3. b \notin Feeders[i]
  BY DEF Private
<1>4. ItemKept(i) /\ conv'[i] = conv[i]
  BY <1>2, <1>3 DEF Feeds
<1>5. Pending(a, i)' = Pending(a, i) /\ Waits(a, i)' = Waits(a, i) /\ ConnKept(a)
  BY <1>1 DEF AdapterKept, Pending, Waits, ConnKept
<1> QED
  BY <1>1, <1>4, <1>5 DEF Quiet, Frozen, AdapterKept

(* A job goes on: an item that is still to be lost is lost now, or later.  *)
LEMMA WaitsOn ==
  ASSUME TypeOK, NEW a \in Adapters, Advance(a), job[a].does = "disconnected", NEW i \in Items,
         Waits(a, i), i # Head(job[a].todo)
  PROVE  Waits(a, i)'
<1>1. job[a].todo \in Seq(Items) /\ job[a].todo # <<>>
  BY JobFacts
<1>2. PICK m \in DOMAIN job[a].todo : job[a].todo[m] = i
  BY DEF Waits
<1>3. PICK k \in DOMAIN Tail(job[a].todo) : Tail(job[a].todo)[k] = i
  BY <1>1, <1>2, TailElements
<1>4. Tail(job[a].todo) # <<>>
  <2>1. Tail(job[a].todo) \in Seq(Items) /\ Len(Tail(job[a].todo)) \in Nat
    BY <1>1
  <2> QED
    BY <1>3, <2>1
<1>5. job'[a].does = job[a].does /\ job'[a].todo = Tail(job[a].todo)
  BY <1>1, <1>4, AdvanceFacts
<1> QED
  BY <1>3, <1>5 DEF Waits

(* The loss of a connection comes to an item.                              *)
LEMMA LossKind ==
  ASSUME TypeOK, NEW a \in Adapters, JobOf(a), FeederInv, disconnected(a), NEW i \in Items
  PROVE  Quiet(a, i) \/ LosesItem(a, i)
<1>1. /\ post[a] = {} /\ job[a].does = "disconnected" /\ feed' = feed
      /\ latest' = latest /\ before' = before /\ source' = source
  BY disconnectedFacts
<1>2. PICK j \in Items : j = Head(job[a].todo) /\ Loses(a, j)
  BY disconnectedFacts
<1>3. ConnKept(a) /\ Pending(a, i) = {} /\ ~ up[a]
  BY <1>1, PendingFacts DEF ConnKept, feed, JobOf
<1>4. CASE i # j
  <2>1. ItemKept(i) /\ conv'[i] = conv[i] /\ Pending(a, i)' = {}
    BY <1>1, <1>2, <1>4, LosesOther
  <2>2. Waits(a, i) => Waits(a, i)'
    BY <1>1, <1>2, <1>4, WaitsOn DEF disconnected
  <2> QED
    BY <1>3, <2>1, <2>2 DEF Quiet, Frozen
<1>5. CASE i = j
  <2>1. source'[i] = source[i] /\ latest'[i] = latest[i] /\ before'[i] = before[i]
    BY <1>1
  <2>2. received'[i] = IF source[i] = a THEN Word(Unavailable) ELSE received[i]
    BY <1>2, <1>5 DEF Loses, TypeOK
  <2>3. CASE Marks(a, i)
    <3>1. Asked(a, i, Down(i), Down(i), DownOffset, conv[i])
      BY <1>2, <1>5, <2>3, AskItem DEF Loses
    <3> QED
      BY <1>3, <2>1, <2>2, <2>3, <3>1 DEF LosesItem
  <2>4. CASE ~ Marks(a, i)
    <3>1. filters' = filters /\ conv' = conv /\ post' = post
      BY <1>2, <1>5, <2>4 DEF Loses
    <3>2. FiltersKept(i) /\ conv'[i] = conv[i] /\ Pending(a, i)' = {}
      BY <1>1, <3>1, PendingFacts DEF filters, FiltersKept
    <3> QED
      BY <1>3, <2>1, <2>2, <2>4, <3>2 DEF LosesItem
  <2> QED
    BY <2>3, <2>4
<1> QED
  BY <1>4, <1>5

(* A pair of a line is for an item.                                        *)
LEMMA LineKind ==
  ASSUME TypeOK, NEW a \in Adapters, JobOf(a), processDataItem(a), NEW i \in Items
  PROVE  Quiet(a, i) \/ \E v : Takes(a, i, v)
<1>1. /\ post[a] = {} /\ job[a].does = "line" /\ feed' = feed /\ latest' = latest /\ before' = before
  BY processDataItemFacts
<1>2. ConnKept(a) /\ Pending(a, i) = {} /\ ~ Waits(a, i)
  BY <1>1, PendingFacts DEF ConnKept, feed, Waits
<1>3. CASE ItemUnchanged /\ post' = post /\ received' = received
  <2>1. ItemKept(i) /\ conv'[i] = conv[i]
    BY <1>1, <1>3, KeepsItems DEF ShownUnchanged
  <2>2. Pending(a, i)' = Pending(a, i)
    BY <1>3, PendingFacts
  <2> QED
    BY <1>2, <2>1, <2>2 DEF Quiet, Frozen
<1>4. CASE \E j \in Items, p \in Pair : p = Head(job[a].todo) /\ Names(p.key, j) /\ Accepts(a, j, p.value)
  <2>1. PICK j \in Items, p \in Pair : p = Head(job[a].todo) /\ Names(p.key, j) /\ Accepts(a, j, p.value)
    BY <1>4
  <2>2. CASE i # j
    <3>1. ItemKept(i) /\ conv'[i] = conv[i] /\ Pending(a, i)' = {}
      BY <1>1, <2>1, <2>2, AcceptsOther
    <3> QED
      BY <1>2, <3>1 DEF Quiet, Frozen
  <2>3. CASE i = j
    <3>1. PICK v \in Value : v = p.value
      BY DEF Pair
    <3>2. Accepts(a, i, v)
      BY <2>1, <2>3, <3>1
    <3>3. v \in SentValues[a][i] /\ up[a]
      BY <1>1, <2>1, <2>3, <3>1, LineFeeds
    <3>4. Asked(a, i, Check(i, v), v, job[a].offset, setDataSource(a, conv[i]))
      BY <3>2, AskItem DEF Accepts
    <3>5. source'[i] = a /\ received'[i] = v
      BY <3>2 DEF Accepts, TypeOK
    <3>6. job[a].offset \in SUBSET Nat
      BY JobFacts
    <3>7. latest'[i] = latest[i] /\ before'[i] = before[i]
      BY <1>1
    <3>8. Takes(a, i, v)
      BY <1>2, <3>1, <3>3, <3>4, <3>5, <3>6, <3>7 DEF Takes
    <3> QED
      BY <3>8
  <2> QED
    BY <2>2, <2>3
<1> QED
  BY <1>3, <1>4, processDataItemFacts

(* What was posted is added.                                               *)
LEMMA AddKind ==
  ASSUME TypeOK, NEW a \in Adapters, addToBuffer(a), NEW i \in Items
  PROVE  Quiet(a, i) \/ \E v : AddsItem(a, i, v)
<1>1. PICK p \in Posted : post[a] = {p} /\ Adds(a, p.item, p.value)
  BY addToBufferFacts
<1>2. /\ post'[a] = {} /\ source' = source /\ filters' = filters /\ received' = received
      /\ feed' = feed /\ job' = job
  BY addToBufferFacts DEF TypeOK, PostType
<1>3. PICK j \in Items, v \in Value : p = [item |-> j, value |-> v]
  BY DEF Posted
<1>4. Adds(a, j, v) /\ post[a] = {[item |-> j, value |-> v]}
  BY <1>1, <1>3
<1>5. ConnKept(a) /\ (Waits(a, i) => Waits(a, i)') /\ Pending(a, i)' = {}
  BY <1>2, PendingFacts DEF ConnKept, feed, Waits
<1>6. CASE i # j
  <2>1. ItemKept(i) /\ conv'[i] = conv[i]
    BY <1>2, <1>4, <1>6, AddsOther
  <2>2. Pending(a, i) = {}
    BY <1>4, <1>6 DEF Pending
  <2> QED
    BY <1>5, <2>1, <2>2 DEF Quiet, Frozen
<1>7. CASE i = j
  <2>1. Pending(a, i) = {[item |-> i, value |-> v]}
    BY <1>4, <1>7, PendingFacts
  <2>2. /\ latest'[i] = [value |-> Observed(i, Settled(i, conv[i]), v), by |-> a, conn |-> conn[a]]
        /\ before'[i] = latest[i]
        /\ conv'[i] \in {conv[i], Settled(i, conv[i])}
    BY <1>4, <1>7 DEF Adds, TypeOK, FilterType
  <2>3. FiltersKept(i) /\ source'[i] = source[i] /\ received'[i] = received[i]
    BY <1>2 DEF filters, FiltersKept
  <2>4. AddsItem(a, i, v)
    BY <1>3, <1>5, <2>1, <2>2, <2>3 DEF AddsItem
  <2> QED
    BY <2>4
<1> QED
  BY <1>6, <1>7

(* The availability is posted.                                             *)
LEMMA ConnectedKind ==
  ASSUME TypeOK, NEW a \in Adapters, JobOf(a), connected(a), NEW i \in Items
  PROVE  Quiet(a, i) \/ Announces(a, i)
<1>1. /\ post[a] = {} /\ job[a].does = "connected" /\ feed' = feed /\ ItemUnchanged /\ ShownUnchanged
  BY connectedFacts
<1>2. /\ ItemKept(i) /\ conv'[i] = conv[i] /\ ConnKept(a) /\ up[a] /\ ~ Waits(a, i) /\ Pending(a, i) = {}
  BY <1>1, KeepsItems, PendingFacts DEF ConnKept, feed, Waits, JobOf
<1>3. CASE \A p \in post'[a] : p.item # i
  BY <1>2, <1>3, PendingFacts DEF Quiet, Frozen
<1>4. CASE \E p \in post'[a] : p.item = i
  BY <1>2, <1>4, ConnectionFeeds DEF Announces
<1> QED
  BY <1>3, <1>4

(* The connection comes up, or is lost.                                    *)
LEMMA ConnectionKind ==
  ASSUME TypeOK, NEW a \in Adapters, Connect(a) \/ Disconnect(a), NEW i \in Items
  PROVE  Rises(a, i) \/ Falls(a, i)
<1>1. /\ ItemUnchanged /\ ShownUnchanged /\ post' = post /\ job[a].does = "idle" /\ post[a] = {}
  BY DEF Connect, Disconnect, Free, item, filters, shown, ItemUnchanged, ShownUnchanged
<1>2. Frozen(a, i) /\ ~ Waits(a, i) /\ Pending(a, i) = {}
  BY <1>1, KeepsItems, PendingFacts DEF Frozen, Waits
<1>3. CASE Connect(a)
  <2>1. ~ up[a] /\ up'[a] /\ conn' = conn
    BY <1>3 DEF Connect, TypeOK, ConnType
  <2> QED
    BY <1>2, <2>1 DEF Rises
<1>4. CASE Disconnect(a)
  <2>1. ~ up'[a]
    BY <1>4 DEF Disconnect, TypeOK, ConnType
  <2>2. PICK items \in Seq(Items) :
          /\ \A j \in Items : Reached(a, j) => \E k \in DOMAIN items : items[k] = j
          /\ job' = [job EXCEPT ![a] = Doing("disconnected", items, FALSE, {})]
    BY <1>4, DisconnectFacts
  <2>3. job'[a].does = "disconnected" /\ job'[a].todo = items
    BY <2>2 DEF TypeOK, JobType, Doing
  <2>4. Reached(a, i) => Waits(a, i)'
    BY <2>2, <2>3 DEF Waits
  <2> QED
    BY <1>2, <2>1, <2>4 DEF Falls
<1> QED
  BY <1>3, <1>4

(* A line is received.                                                     *)
LEMMA ReceiveKind ==
  ASSUME TypeOK, NEW a \in Adapters, NEW i \in Items,
         \E l : Gather(a, l) \/ processData(a, l) \/ processAsset(a, l) \/ protocolCommand(a, l)
  PROVE  Quiet(a, i)
<1>1. PICK l : Gather(a, l) \/ processData(a, l) \/ processAsset(a, l) \/ protocolCommand(a, l)
  OBVIOUS
<1>2. Receives(a, l) /\ post' = post
  BY <1>1, processDataFacts, processAssetFacts, protocolCommandFacts DEF Gather
<1>3. ConnKept(a) /\ ~ Waits(a, i) /\ Pending(a, i)' = Pending(a, i)
  BY <1>2, PendingFacts DEF ConnKept, Waits, Receives, Free
<1>4. ItemKept(i) /\ (conv'[i] = conv[i] \/ a \in commanded')
  <2>1. CASE protocolCommand(a, l)
    BY <2>1, protocolCommandFacts DEF filters, ShownUnchanged, ItemKept, FiltersKept
  <2>2. CASE ~ protocolCommand(a, l)
    <3>1. ItemUnchanged /\ ShownUnchanged
      BY <1>1, <2>2, processDataFacts, processAssetFacts DEF Gather, item, filters, shown, ItemUnchanged, ShownUnchanged
    <3> QED
      BY <3>1, KeepsItems
  <2> QED
    BY <2>1, <2>2
<1> QED
  BY <1>3, <1>4 DEF Quiet, Frozen

(* Whatever happens is one of the kinds of step for a private item.        *)
LEMMA EveryKind ==
  ASSUME TypeOK, JobInv, FeederInv, [Next]_vars, NEW a \in Adapters, NEW i \in Items, Private(a, i)
  PROVE  ItemStep(a, i) /\ (a \in commanded => a \in commanded')
<1>1. CASE UNCHANGED vars
  <2>1. /\ Frozen(a, i) /\ ConnKept(a) /\ (Waits(a, i) => Waits(a, i)')
        /\ commanded' = commanded
    BY <1>1, PendingFacts DEF vars, feed, adapter, item, filters, shown, Frozen, ItemKept, FiltersKept, ConnKept, Waits
  <2> QED
    BY <2>1 DEF ItemStep, Quiet
<1>2. ASSUME NEW b \in Adapters, Step(b)
      PROVE  ItemStep(a, i) /\ (a \in commanded => a \in commanded')
  <2>1. CASE a # b
    BY <1>2, <2>1, OtherStep DEF ItemStep
  <2>2. CASE a = b
    <3>1. commanded \subseteq commanded'
      BY <1>2, connectedFacts, disconnectedFacts, addToBufferFacts, processDataItemFacts, processDataFacts,
        processAssetFacts, protocolCommandFacts DEF Step, Connect, Disconnect, Gather, adapter
    <3>2. JobOf(a)
      BY DEF JobInv, JobOf
    <3>3. ItemStep(a, i)
      BY <1>2, <2>2, <3>2, ConnectionKind, ConnectedKind, AddKind, LineKind, LossKind, ReceiveKind DEF Step, ItemStep
    <3> QED
      BY <3>1, <3>3
  <2> QED
    BY <2>1, <2>2
<1> QED
  BY <1>1, <1>2, NextIsStep

-----------------------------------------------------------------------------
(* Values, as they are sent, compared and shown.                           *)

(* Once settled, a conversion stays so.                                    *)
LEMMA SettledFacts ==
  ASSUME NEW i \in Items
  PROVE  LET c == Settled(i, NewConversion)
         IN  /\ c = [required |-> IF Def[i].factor > 1 THEN "yes" ELSE "no", factor |-> Def[i].factor]
             /\ c \in Conversion /\ Settled(i, c) = c
<1>1. PICK f \in Nat : f = Def[i].factor
  BY DefFacts
<1>2. PICK c : c = [required |-> IF f > 1 THEN "yes" ELSE "no", factor |-> f]
  OBVIOUS
<1>3. Settled(i, NewConversion) = c
  <2>1. CASE f = 0
    BY <1>1, <1>2, <2>1 DEF Settled, computeConversionFactors, conversionRequired, NewConversion
  <2>2. CASE f > 0
    <3>1. conversionRequired(i, NewConversion) = [required |-> "yes", factor |-> 0]
      BY <1>1, <2>2 DEF conversionRequired, NewConversion
    <3>2. computeConversionFactors(i, [required |-> "yes", factor |-> 0]) = c
      BY <1>1, <1>2, <2>2 DEF computeConversionFactors
    <3> QED
      BY <3>1, <3>2 DEF Settled
  <2> QED
    BY <1>1, <2>1, <2>2
<1>4. c \in Conversion
  BY <1>1, <1>2 DEF Conversion
<1>5. Settled(i, c) = c
  BY <1>1, <1>2 DEF Settled, computeConversionFactors, conversionRequired
<1> QED
  BY <1>1, <1>2, <1>3, <1>4, <1>5

(* What is shown of a value is what should be.                             *)
LEMMA DisplayFacts ==
  ASSUME NEW i \in Items, NEW v \in Value
  PROVE  Plain(Observation(i, v)) = Displayed(i, v)
<1>1. PICK f \in Nat : f = Def[i].factor
  BY DefFacts
<1>2. PICK c \in Conversion :
        c = Settled(i, NewConversion) /\ c.required = (IF f > 1 THEN "yes" ELSE "no") /\ c.factor = f
  BY <1>1, SettledFacts
<1>3. PICK w \in Value : w = Said(i, v)
  BY SaidType
<1>4. CASE HasUnits(i, w) /\ f > 1
  <2>1. PICK m : m = w.n * f
    OBVIOUS
  <2>2. Observed(i, c, v) = [text |-> "number", n |-> m, trigger |-> w.trigger /\ Def[i].reset]
    BY <1>2, <1>3, <1>4, <2>1 DEF Observed, convertValue
  <2>3. Displayed(i, v) = Number(m)
    BY <1>1, <1>3, <1>4, <2>1 DEF Displayed
  <2> QED
    BY <1>2, <2>2, <2>3 DEF Observation, Plain, Number
<1>5. CASE ~ (HasUnits(i, w) /\ f > 1)
  <2>1. Observed(i, c, v) = w
    BY <1>2, <1>3, <1>5 DEF Observed
  <2>2. Displayed(i, v) = Plain(w)
    BY <1>1, <1>3, <1>5 DEF Displayed
  <2> QED
    BY <1>2, <2>1, <2>2 DEF Observation
<1> QED
  BY <1>4, <1>5

(* What the filter compares is shown as what is sent, where no InitialValue *)
(* takes its place.                                                        *)
LEMMA CheckFacts ==
  ASSUME NEW i \in Items, NEW v \in Value
  PROVE  /\ Check(i, v).text = v.text /\ Check(i, v).n = v.n /\ Check(i, v) \in Value
         /\ \A a \in Adapters : SentAsShown(a, i) /\ v \in SentValues[a][i] =>
              AfterReset(i, v) = v /\ Displayed(i, Check(i, v)) = Displayed(i, v)
<1>1. Plain(v) \in Value /\ Plain(v).text = v.text /\ Plain(v).n = v.n /\ ~ Plain(v).trigger
  BY CheckType DEF Plain
<1>2. Check(i, v) = v \/ Check(i, v) = Plain(v)
  BY DEF Check
<1>3. ASSUME AfterReset(i, v) = v
      PROVE  Displayed(i, Plain(v)) = Displayed(i, v)
  <2>1. PICK u \in Value : u = Plain(v)
    BY <1>1
  <2>2. AfterReset(i, u) = u /\ Plain(u) = u /\ u.text = v.text /\ u.n = v.n
    BY <1>1, <2>1, SaidType DEF Plain
  <2>3. CASE IsCondition(i) /\ v.text \in NoLevel
    <3>1. Said(i, u) = Said(i, v)
      BY <1>3, <2>2, <2>3 DEF Said
    <3> QED
      BY <2>1, <3>1 DEF Displayed
  <2>4. CASE ~ (IsCondition(i) /\ v.text \in NoLevel)
    <3>1. Said(i, u) = u /\ Said(i, v) = v
      BY <1>3, <2>2, <2>4 DEF Said
    <3>2. HasUnits(i, u) <=> HasUnits(i, v)
      BY <2>2 DEF HasUnits
    <3> QED
      BY <2>1, <2>2, <3>1, <3>2 DEF Displayed
  <2> QED
    BY <2>3, <2>4
<1>4. ASSUME NEW a \in Adapters, SentAsShown(a, i), v \in SentValues[a][i]
      PROVE  AfterReset(i, v) = v
  BY <1>4 DEF SentAsShown, AfterReset
<1> QED
  BY <1>1, <1>2, <1>3, <1>4

(* Which text is shown.                                                    *)
LEMMA ObservedText ==
  ASSUME NEW i, NEW c, NEW v
  PROVE  /\ Said(i, v).text = Unavailable => Observed(i, c, v).text = Unavailable
         /\ Observed(i, c, v).text = Unavailable => Said(i, v).text = Unavailable
         /\ Said(i, v).text = "number" => Observed(i, c, v).text = "number"
<1>1. "number" # Unavailable
  BY DEF Unavailable
<1>2. PICK w : w = Said(i, v)
  OBVIOUS
<1>3. CASE HasUnits(i, w) /\ c.required = "yes"
  <2>1. Observed(i, c, v).text = "number"
    BY <1>2, <1>3 DEF Observed
  <2> QED
    BY <1>1, <1>2, <1>3, <2>1 DEF HasUnits
<1>4. CASE ~ (HasUnits(i, w) /\ c.required = "yes")
  BY <1>2, <1>4 DEF Observed
<1> QED
  BY <1>3, <1>4

(* UNAVAILABLE is shown as it is.                                          *)
LEMMA UnavailableFacts ==
  ASSUME NEW i \in Items
  PROVE  /\ Displayed(i, Word(Unavailable)) = Word(Unavailable)
         /\ \A v \in Value : v.text = Unavailable => Plain(v) = Word(Unavailable)
         /\ \A v : Plain(v).text = v.text
         /\ Word(Unavailable).text = Unavailable /\ Word("").text = "" /\ Unavailable # "number" /\ Unavailable # ""
         /\ Word(Unavailable) \in Value
<1>1. Unavailable # "number" /\ Unavailable # ""
  BY DEF Unavailable
<1>2. \A v \in Value : v.text = Unavailable => Plain(v) = Word(Unavailable)
  BY <1>1, ValueFacts DEF Plain, Word
<1>3. Word(Unavailable).text = Unavailable /\ Word("").text = "" /\ Word(Unavailable).trigger = FALSE
  BY DEF Word
<1>4. Word(Unavailable) \in Value
  BY WordType
<1>5. Said(i, Word(Unavailable)) = Word(Unavailable)
  <2>1. AfterReset(i, Word(Unavailable)) = Word(Unavailable)
    BY <1>3, <1>4, SaidType
  <2> QED
    BY <2>1 DEF Said
<1>6. ~ HasUnits(i, Word(Unavailable))
  BY <1>3 DEF HasUnits
<1>7. Displayed(i, Word(Unavailable)) = Word(Unavailable)
  BY <1>2, <1>3, <1>4, <1>5, <1>6 DEF Displayed
<1> QED
  BY <1>1, <1>2, <1>3, <1>4, <1>7 DEF Plain

(* What is posted for a lost item is shown as UNAVAILABLE, and so is a     *)
(* value that compares equal to it.                                        *)
LEMMA DownFacts ==
  ASSUME NEW i \in Items
  PROVE  /\ Down(i) \in Value /\ Canonical(i, Down(i))
         /\ Said(i, Down(i)) = Word(Unavailable) /\ Displayed(i, Down(i)) = Word(Unavailable)
         /\ \A v \in Value : Check(i, v) = Down(i) => Said(i, v).text = Unavailable
<1>1. Down(i) \in Value
  BY WordType
<1>2. /\ Down(i).text = (IF IsCondition(i) THEN ConditionUnavailable ELSE Unavailable)
      /\ Down(i).trigger = FALSE
  BY DEF Down, Word
<1>3. Canonical(i, Down(i))
  BY <1>2 DEF Canonical
<1>4. /\ Word(Unavailable).text = Unavailable /\ Word(Unavailable) \in Value
      /\ Displayed(i, Word(Unavailable)) = Word(Unavailable) /\ Plain(Word(Unavailable)) = Word(Unavailable)
  BY UnavailableFacts
<1>5. ConditionUnavailable \in NoLevel /\ "number" \in NoLevel
  BY DEF NoLevel
<1>6. Said(i, Down(i)) = Word(Unavailable)
  <2>1. AfterReset(i, Down(i)) = Down(i)
    BY <1>1, <1>2, SaidType
  <2>2. CASE IsCondition(i)
    BY <1>2, <1>5, <2>1, <2>2 DEF Said
  <2>3. CASE ~ IsCondition(i)
    <3>1. Down(i) = Word(Unavailable)
      BY <2>3 DEF Down
    <3> QED
      BY <2>1, <2>3, <3>1 DEF Said
  <2> QED
    BY <2>2, <2>3
<1>7. Displayed(i, Down(i)) = Word(Unavailable)
  <2>1. ~ HasUnits(i, Word(Unavailable))
    BY <1>4 DEF HasUnits
  <2> QED
    BY <1>4, <1>6, <2>1 DEF Displayed
<1>8. ASSUME NEW v \in Value, Check(i, v) = Down(i)
      PROVE  Said(i, v).text = Unavailable
  <2>1. v.text = Down(i).text
    BY <1>8, CheckFacts
  <2>2. CASE IsCondition(i)
    <3>1. AfterReset(i, v).text \in NoLevel
      BY <1>2, <1>5, <2>1, <2>2, SaidType
    <3> QED
      BY <1>4, <2>2, <3>1 DEF Said
  <2>3. CASE ~ IsCondition(i)
    <3>1. v.text = Unavailable /\ ~ v.trigger
      BY <1>2, <2>1, <2>3, ValueFacts
    <3>2. AfterReset(i, v) = v
      BY <3>1, SaidType
    <3> QED
      BY <2>3, <3>1, <3>2 DEF Said
  <2> QED
    BY <2>2, <2>3
<1> QED
  BY <1>1, <1>3, <1>6, <1>7, <1>8

(* Different values of the kind that is compared are shown differently,    *)
(* the UNAVAILABLE of a condition aside.                                   *)
LEMMA DisplayInjective ==
  ASSUME NEW i \in Items, NEW u \in Value, NEW v \in Value, Canonical(i, u), Canonical(i, v),
         Displayed(i, u) = Displayed(i, v), u # v
  PROVE  IsCondition(i) /\ Displayed(i, u) = Word(Unavailable)
<1>1. PICK f \in Nat : f = Def[i].factor
  BY DefFacts
<1>2. /\ u.n \in Int /\ v.n \in Int
      /\ u = [text |-> u.text, n |-> u.n, trigger |-> FALSE]
      /\ v = [text |-> v.text, n |-> v.n, trigger |-> FALSE]
      /\ u.text # "number" => u.n = 0
      /\ v.text # "number" => v.n = 0
      /\ AfterReset(i, u) = u /\ AfterReset(i, v) = v
  <2>1. u.trigger = FALSE /\ v.trigger = FALSE
    BY ValueFacts DEF Canonical
  <2> QED
    BY <2>1, ValueFacts, SaidType
<1>3. Unavailable # "number"
  BY DEF Unavailable
<1>4. Plain(u) = u /\ Plain(v) = v
  BY <1>2 DEF Plain
<1>5. /\ Plain(Word(Unavailable)) = Word(Unavailable) /\ Word(Unavailable).text = Unavailable
      /\ Unavailable \in NoLevel
  BY UnavailableFacts DEF NoLevel
<1>6. CASE IsCondition(i)
  <2>1. /\ u.text \in NoLevel => Displayed(i, u) = Word(Unavailable)
        /\ u.text \notin NoLevel => Displayed(i, u) = u
    BY <1>2, <1>4, <1>5, <1>6 DEF Displayed, HasUnits, Said
  <2>2. /\ v.text \in NoLevel => Displayed(i, v) = Word(Unavailable)
        /\ v.text \notin NoLevel => Displayed(i, v) = v
    BY <1>2, <1>4, <1>5, <1>6 DEF Displayed, HasUnits, Said
  <2> QED
    BY <1>5, <1>6, <2>1, <2>2
<1>7. CASE ~ IsCondition(i)
  <2>1. Said(i, u) = u /\ Said(i, v) = v
    BY <1>2, <1>7 DEF Said
  <2>2. CASE f <= 1
    <3>1. Displayed(i, u) = u /\ Displayed(i, v) = v
      BY <1>1, <1>4, <2>1, <2>2 DEF Displayed
    <3> QED
      BY <3>1
  <2>3. CASE f > 1
    <3>1. /\ u.text \in {"number", Unavailable} /\ v.text \in {"number", Unavailable}
      BY <1>1, <1>7, <2>3 DEF Canonical
    <3>2. PICK x, y : x = u.n * f /\ y = v.n * f
      OBVIOUS
    <3>3. Displayed(i, u) = IF u.text = Unavailable THEN u ELSE Number(x)
      BY <1>1, <1>4, <1>7, <2>1, <2>3, <3>2 DEF Displayed, HasUnits
    <3>4. Displayed(i, v) = IF v.text = Unavailable THEN v ELSE Number(y)
      BY <1>1, <1>4, <1>7, <2>1, <2>3, <3>2 DEF Displayed, HasUnits
    <3>5. u.text = v.text /\ (u.text = "number" => x = y)
      <4>1. Displayed(i, u).text = u.text /\ (u.text = "number" => Displayed(i, u).n = x)
        BY <1>3, <3>1, <3>3 DEF Number
      <4>2. Displayed(i, v).text = v.text /\ (v.text = "number" => Displayed(i, v).n = y)
        BY <1>3, <3>1, <3>4 DEF Number
      <4> QED
        BY <4>1, <4>2
    <3>6. x = y => u.n = v.n
      <4>1. \A m, n \in Int, g \in Nat \ {0} : m * g = n * g => m = n
        OBVIOUS
      <4> QED
        BY <1>1, <1>2, <2>3, <3>2, <4>1
    <3>7. u.n = v.n
      BY <1>2, <3>1, <3>5, <3>6
    <3>8. u = v
      BY <1>2, <3>5, <3>7
    <3> QED
      BY <3>8
  <2> QED
    BY <1>1, <2>2, <2>3
<1> QED
  BY <1>6, <1>7

-----------------------------------------------------------------------------
(* The filters.                                                            *)

(* What they answer, for each kind of item.                                *)
Near(i, n) == \E s \in lastSample[i] : n > s - Def[i].delta /\ n < s + Def[i].delta

(* Without a delta and a period, a repeated value is dropped.              *)
LEMMA DuplicateAnswer ==
  ASSUME NEW a \in Adapters, NEW i \in Items, NEW check, NEW offset, NEW c, Unfiltered(i)
  PROVE  /\ Deduped(a, i) =>
              /\ AdapterIsDuplicate(a, i, check, offset, c).drop <=> check = lastValue[i]
              /\ AdapterIsDuplicate(a, i, check, offset, c).value = check
         /\ AdapterIsDuplicate(a, i, check, offset, c).drop =>
              /\ Config[a].dupCheck /\ Def[i].representation = "VALUE" /\ ~ Def[i].discrete
              /\ check = lastValue[i]
<1>1. Def[i].delta \in Nat /\ Def[i].period \in Nat /\ Def[i].discrete \in BOOLEAN
  BY DefFacts
<1>2. PICK answer : answer = AdapterIsDuplicate(a, i, check, offset, c)
  OBVIOUS
<1>3. answer = IF ~ Def[i].discrete /\ Config[a].dupCheck THEN isDuplicate(i, check) ELSE Passes(i)
  BY <1>1, <1>2 DEF AdapterIsDuplicate, Unfiltered, allowDups
<1>4. ~ Passes(i).drop
  BY DEF Passes
<1>5. ~ Def[i].discrete =>
        /\ isDuplicate(i, check).drop <=> Def[i].representation = "VALUE" /\ check = lastValue[i]
        /\ Def[i].representation = "VALUE" => isDuplicate(i, check).value = check
  BY DEF isDuplicate
<1>6. Deduped(a, i) => (answer.drop <=> check = lastValue[i]) /\ answer.value = check
  BY <1>3, <1>5 DEF Deduped
<1>7. answer.drop => /\ Config[a].dupCheck /\ Def[i].representation = "VALUE" /\ ~ Def[i].discrete
                     /\ check = lastValue[i]
  BY <1>3, <1>4, <1>5
<1> QED
  BY <1>2, <1>6, <1>7

(* With a delta, what is near the last sample is dropped.                  *)
LEMMA DeltaAnswer ==
  ASSUME NEW a \in Adapters, NEW i \in Items, NEW check, NEW offset, NEW c,
         Def[i].delta > 0, Def[i].period = 0, Def[i].category = "SAMPLE", ~ Def[i].discrete
  PROVE  LET n == convertValue(c, check.n)
         IN  /\ AdapterIsDuplicate(a, i, check, offset, c).drop <=> Near(i, n)
             /\ ~ Near(i, n) => AdapterIsDuplicate(a, i, check, offset, c).sample = {n}
             /\ Near(i, n) => AdapterIsDuplicate(a, i, check, offset, c).sample = lastSample[i]
<1>1. Def[i].delta \in Nat /\ Def[i].period \in Nat
  BY DefFacts
<1>2. PICK n : n = convertValue(c, check.n)
  OBVIOUS
<1>3. AdapterIsDuplicate(a, i, check, offset, c) = isFiltered(i, n, offset)
  BY <1>1, <1>2 DEF AdapterIsDuplicate, allowDups
<1>4. /\ isFiltered(i, n, offset).drop <=> Near(i, n)
      /\ isFiltered(i, n, offset).sample = IF Near(i, n) THEN lastSample[i] ELSE {n}
  <2>1. ~ (Def[i].period > 0)
    BY <1>1
  <2> QED
    BY <2>1 DEF isFiltered, Near
<1> QED
  BY <1>2, <1>3, <1>4

(* With a period, only a sample with a time that is too early is dropped.  *)
LEMMA PeriodAnswer ==
  ASSUME NEW a \in Adapters, NEW i \in Items, NEW check, NEW offset, NEW c,
         Def[i].delta = 0, Def[i].period > 0
  PROVE  /\ Def[i].discrete =>
              /\ ~ AdapterIsDuplicate(a, i, check, offset, c).drop
              /\ AdapterIsDuplicate(a, i, check, offset, c).offset = lastOffset[i]
         /\ ~ Def[i].discrete /\ AdapterIsDuplicate(a, i, check, offset, c).drop =>
              /\ lastOffset[i] # {} /\ offset # {}
              /\ AdapterIsDuplicate(a, i, check, offset, c).offset = lastOffset[i]
         /\ ~ Def[i].discrete /\ ~ AdapterIsDuplicate(a, i, check, offset, c).drop =>
              AdapterIsDuplicate(a, i, check, offset, c).offset = offset
<1>1. Def[i].delta \in Nat /\ Def[i].period \in Nat
  BY DefFacts
<1>2. Def[i].discrete => AdapterIsDuplicate(a, i, check, offset, c) = Passes(i)
  BY DEF AdapterIsDuplicate, allowDups
<1>3. ~ Passes(i).drop /\ Passes(i).offset = lastOffset[i]
  BY DEF Passes
<1>4. PICK n : n = convertValue(c, check.n)
  OBVIOUS
<1>5. ~ Def[i].discrete => AdapterIsDuplicate(a, i, check, offset, c) = isFiltered(i, n, offset)
  BY <1>1, <1>4 DEF AdapterIsDuplicate, allowDups
<1> DEFINE early == \E t \in lastOffset[i], o \in offset : o < t + Def[i].period
<1>6. isFiltered(i, n, offset).drop <=> early
  <2>1. ~ (Def[i].delta > 0)
    BY <1>1
  <2> QED
    BY <2>1 DEF isFiltered
<1>7. isFiltered(i, n, offset).offset = IF early THEN lastOffset[i] ELSE TimePassed(i, offset)
  <2>1. ~ (Def[i].delta > 0)
    BY <1>1
  <2> QED
    BY <2>1 DEF isFiltered
<1>8. TimePassed(i, offset) = offset
  BY DEF TimePassed
<1>9. early => lastOffset[i] # {} /\ offset # {}
  OBVIOUS
<1> HIDE DEF early
<1> QED
  BY <1>2, <1>3, <1>5, <1>6, <1>7, <1>8, <1>9

(* The UNAVAILABLE of a lost connection is not held back.                  *)
LEMMA LossPasses ==
  ASSUME NEW a \in Adapters, NEW i \in Items, Covered(a, i), MarkedOnce(a, i), Pending(a, i) = {},
         latest[i].value.text # Unavailable, NEW c
  PROVE  ~ AdapterIsDuplicate(a, i, Down(i), DownOffset, c).drop
<1> DEFINE answer == AdapterIsDuplicate(a, i, Down(i), DownOffset, c)
<1>1. Def[i].delta = 0 /\ Def[i].period \in Nat
  BY DefFacts DEF Covered
<1>2. CASE Unfiltered(i)
  <2>1. answer.drop => /\ Config[a].dupCheck /\ Def[i].representation = "VALUE" /\ ~ Def[i].discrete
                       /\ Down(i) = lastValue[i]
    BY <1>2, DuplicateAnswer
  <2> HIDE DEF answer
  <2>2. answer.drop => Deduped(a, i) /\ lastValue[i] = Down(i)
    BY <1>2, <2>1 DEF Deduped, Covered
  <2>3. ~ (Deduped(a, i) /\ lastValue[i] = Down(i))
    BY DEF MarkedOnce, ShowsText
  <2> QED
    BY <2>2, <2>3 DEF answer
<1>3. CASE Def[i].period > 0
  <2>1. answer.drop => ~ Def[i].discrete /\ DownOffset # {}
    BY <1>1, <1>3, PeriodAnswer
  <2> QED
    BY <2>1 DEF DownOffset
<1> QED
  BY <1>1, <1>2, <1>3 DEF Unfiltered

-----------------------------------------------------------------------------
(* Each part of the invariant is kept by each kind of step.                *)

(* Where neither the item nor what is posted for it changes, only Current  *)
(* looks at anything else.                                                 *)
Parts(a, i) ==
  /\ Untouched(a, i) /\ MarkedOnce(a, i) /\ ConvInv(a, i)
  /\ LastIsShown(a, i) /\ ReceivedIsShown(a, i) /\ NewIsOther(a, i)
  /\ SampleIsShown(a, i) /\ Timely(a, i)

(* ItemInv is its parts and that the value is of the present connection.   *)
LEMMA ItemParts ==
  /\ \A a, i : ItemInv(a, i) <=> Parts(a, i) /\ Current(a, i)
BY DEF ItemInv, Parts

(* A step that leaves the item alone keeps the parts.                      *)
LEMMA FrozenParts ==
  ASSUME NEW a, NEW i, Frozen(a, i), a \in commanded => a \in commanded', Parts(a, i)
  PROVE  Parts(a, i)'
<1>1. /\ source'[i] = source[i] /\ lastValue'[i] = lastValue[i] /\ lastSample'[i] = lastSample[i]
      /\ lastOffset'[i] = lastOffset[i] /\ received'[i] = received[i]
      /\ latest'[i] = latest[i] /\ before'[i] = before[i] /\ Pending(a, i)' = Pending(a, i)
      /\ a \notin commanded' => conv'[i] = conv[i] /\ a \notin commanded
  BY DEF Frozen, ItemKept, FiltersKept
<1>2. /\ \A v : Shows(a, i, v)' <=> Shows(a, i, v)
      /\ \A w : ShowsText(a, i, w)' <=> ShowsText(a, i, w)
  BY <1>1 DEF Shows, ShowsText
<1>3. Untouched(a, i)'
  BY <1>1 DEF Parts, Untouched
<1>4. MarkedOnce(a, i)'
  BY <1>1, <1>2 DEF Parts, MarkedOnce
<1>5. ConvInv(a, i)'
  BY <1>1 DEF Parts, ConvInv
<1>6. LastIsShown(a, i)'
  BY <1>1, <1>2 DEF Parts, LastIsShown
<1>7. ReceivedIsShown(a, i)'
  BY <1>1, <1>2 DEF Parts, ReceivedIsShown
<1>8. NewIsOther(a, i)'
  BY <1>1 DEF Parts, NewIsOther
<1>9. SampleIsShown(a, i)'
  BY <1>1 DEF Parts, SampleIsShown, Sampled
<1>10. Timely(a, i)'
  BY <1>1, <1>2 DEF Parts, Timely
<1> QED
  BY <1>3, <1>4, <1>5, <1>6, <1>7, <1>8, <1>9, <1>10 DEF Parts

(* The availability is shown behind the back of the filters.               *)
LEMMA AnnouncedParts ==
  ASSUME NEW a, NEW i, Announces(a, i), a \in commanded => a \in commanded', Parts(a, i)
  PROVE  Parts(a, i)'
<1>1. Bypassed(a, i) /\ conv'[i] = conv[i]
  BY DEF Announces
<1>2. ConvInv(a, i)'
  BY <1>1 DEF Parts, ConvInv
<1> QED
  BY <1>1, <1>2 DEF Parts, Untouched, MarkedOnce, LastIsShown, ReceivedIsShown, NewIsOther, SampleIsShown, Timely,
    Deduped, Sampled

(* Before any calibration an item's conversion is new, or settled.         *)
LEMMA ConvCases ==
  ASSUME NEW a, NEW i \in Items, ConvInv(a, i), a \notin commanded
  PROVE  /\ Settled(i, conv[i]) = Settled(i, NewConversion)
         /\ conv[i] \in {NewConversion, Settled(i, NewConversion)}
BY SettledFacts DEF ConvInv

(* A value is accepted: what is posted is what was received.               *)
LEMMA TakesParts ==
  ASSUME NEW a \in Adapters, NEW i \in Items, NEW v, Takes(a, i, v), Parts(a, i),
         lastValue[i] \in Value, latest[i].value \in Value,
         a \in commanded => a \in commanded', a \notin commanded => setting[a].conversionRequired
  PROVE  Parts(a, i)'
<1> DEFINE w == Check(i, v)
<1>1. PICK offset \in SUBSET Nat : Asked(a, i, w, v, offset, setDataSource(a, conv[i]))
  BY DEF Takes
<1>2. /\ v \in SentValues[a][i] /\ v \in Value /\ Pending(a, i) = {} /\ source'[i] = a /\ received'[i] = v
      /\ latest'[i] = latest[i] /\ before'[i] = before[i]
  BY DEF Takes
<1>3. PICK settled : settled = FilterSettles(i, setDataSource(a, conv[i]))
  OBVIOUS
<1>4. PICK answer : answer = AdapterIsDuplicate(a, i, w, offset, settled)
  OBVIOUS
<1>5. /\ lastValue'[i] = answer.value /\ lastSample'[i] = answer.sample /\ lastOffset'[i] = answer.offset
      /\ conv'[i] = settled
      /\ Pending(a, i)' = IF answer.drop THEN {} ELSE {[item |-> i, value |-> v]}
  BY <1>1, <1>3, <1>4 DEF Asked
<1>6. /\ w \in Value /\ w.text = v.text /\ w.n = v.n
      /\ SentAsShown(a, i) => AfterReset(i, v) = v /\ Displayed(i, w) = Displayed(i, v)
  BY <1>2, CheckFacts
<1>7. w = v \/ (Def[i].reset /\ w = Plain(v))
  BY DEF Check
<1>8. a \notin commanded' =>
        /\ a \notin commanded /\ settled \in {NewConversion, Settled(i, NewConversion)}
        /\ Def[i].delta > 0 /\ ~ Def[i].discrete => settled = Settled(i, NewConversion)
  <2> SUFFICES ASSUME a \notin commanded'
               PROVE  /\ a \notin commanded /\ settled \in {NewConversion, Settled(i, NewConversion)}
                      /\ Def[i].delta > 0 /\ ~ Def[i].discrete => settled = Settled(i, NewConversion)
    OBVIOUS
  <2>1. a \notin commanded /\ setDataSource(a, conv[i]) = conv[i]
    BY DEF setDataSource
  <2>2. /\ Settled(i, conv[i]) = Settled(i, NewConversion)
        /\ conv[i] \in {NewConversion, Settled(i, NewConversion)}
    BY <2>1, ConvCases DEF Parts
  <2>3. settled = conv[i] \/ settled = Settled(i, conv[i])
    BY <1>3, <2>1 DEF FilterSettles
  <2>4. Def[i].delta > 0 /\ ~ Def[i].discrete => settled = Settled(i, conv[i])
    BY <1>3, <2>1, DefFacts DEF FilterSettles, allowDups
  <2> QED
    BY <2>1, <2>2, <2>3, <2>4
<1>9. /\ ~ answer.drop => \A p \in Pending(a, i)' : p.value = v
      /\ ~ answer.drop => Pending(a, i)' # {}
      /\ answer.drop => Pending(a, i)' = {}
  <2>1. PICK new : new = [item |-> i, value |-> v]
    OBVIOUS
  <2>2. new.value = v
    BY <2>1
  <2>3. Pending(a, i)' = IF answer.drop THEN {} ELSE {new}
    BY <1>5, <2>1
  <2>4. PICK posted : posted = Pending(a, i)'
    OBVIOUS
  <2>5. posted = IF answer.drop THEN {} ELSE {new}
    BY <2>3, <2>4
  <2>6. /\ ~ answer.drop => \A p \in posted : p.value = v
        /\ ~ answer.drop => posted # {}
        /\ answer.drop => posted = {}
    BY <2>2, <2>5
  <2> QED
    BY <2>4, <2>6
<1>10. /\ \A d : answer.drop /\ Shows(a, i, d) => Shows(a, i, d)'
       /\ \A t : answer.drop /\ ShowsText(a, i, t) => ShowsText(a, i, t)'
       /\ ~ answer.drop => Shows(a, i, Displayed(i, v))' /\ ShowsText(a, i, Said(i, v).text)'
  BY <1>2, <1>9 DEF Shows, ShowsText
<1>11. Deduped(a, i) => (answer.drop <=> w = lastValue[i]) /\ answer.value = w
  BY <1>4, DuplicateAnswer DEF Deduped
<1>12. Untouched(a, i)'
  BY <1>2, FeedAssumption DEF Untouched
<1>13. MarkedOnce(a, i)'
  <2> SUFFICES ASSUME Deduped(a, i), lastValue'[i] = Down(i)
               PROVE  ShowsText(a, i, Unavailable)'
    BY DEF MarkedOnce
  <2>1. w = Down(i)
    BY <1>5, <1>11
  <2>2. Said(i, v).text = Unavailable
    BY <1>2, <2>1, DownFacts
  <2>3. answer.drop => ShowsText(a, i, Unavailable)
    BY <1>11, <2>1 DEF Parts, MarkedOnce
  <2> QED
    BY <1>10, <2>2, <2>3
<1>14. ConvInv(a, i)'
  BY <1>5, <1>8 DEF ConvInv
<1>15. LastIsShown(a, i)'
  <2> SUFFICES ASSUME Deduped(a, i), SentAsShown(a, i), a \notin commanded'
               PROVE  IF latest'[i].by = None /\ Pending(a, i)' = {}
                        THEN lastValue'[i] = Word("") /\ latest'[i].value.text = Unavailable
                        ELSE Shows(a, i, Displayed(i, lastValue[i]))'
    BY DEF LastIsShown
  <2>1. lastValue'[i] = w /\ a \notin commanded
    BY <1>5, <1>8, <1>11
  <2>2. CASE answer.drop
    <3>1. lastValue[i] = w
      BY <1>11, <2>2
    <3>2. latest[i].by = None => lastValue[i] = Word("") /\ latest[i].value.text = Unavailable
      BY <1>2, <2>1 DEF Parts, LastIsShown
    <3>3. latest[i].by # None => Shows(a, i, Displayed(i, lastValue[i]))
      BY <1>2, <2>1 DEF Parts, LastIsShown
    <3>4. PICK d : d = Displayed(i, w)
      OBVIOUS
    <3>5. latest[i].by # None => Shows(a, i, d)'
      BY <1>10, <2>2, <3>1, <3>3, <3>4
    <3> QED
      BY <1>2, <1>9, <2>1, <2>2, <3>1, <3>2, <3>4, <3>5
  <2>3. CASE ~ answer.drop
    <3>1. PICK d : d = Displayed(i, v)
      OBVIOUS
    <3>2. Shows(a, i, d)' /\ Pending(a, i)' # {}
      BY <1>9, <1>10, <2>3, <3>1
    <3>3. Displayed(i, lastValue'[i]) = d
      BY <1>6, <2>1, <3>1
    <3> QED
      BY <3>2, <3>3
  <2> QED
    BY <2>2, <2>3

<1>16. ReceivedIsShown(a, i)'
  <2> SUFFICES ASSUME Covered(a, i), Unfiltered(i), ~ Bypassed(a, i), a \notin commanded',
                      Config[a].dupCheck => SentAsShown(a, i)
               PROVE  \/ Shows(a, i, Displayed(i, received[i]))'
                      \/ received'[i].text = "" /\ latest'[i].by = None /\ Pending(a, i)' = {}
    BY DEF ReceivedIsShown
  <2>1. PICK d : d = Displayed(i, v)
    OBVIOUS
  <2>2. Displayed(i, received'[i]) = d
    BY <1>2, <2>1
  <2>3. CASE ~ answer.drop
    <3>1. Shows(a, i, d)'
      BY <1>10, <2>1, <2>3
    <3> QED
      BY <2>2, <3>1
  <2>4. CASE answer.drop
    <3>1. Deduped(a, i) /\ w = lastValue[i] /\ SentAsShown(a, i)
      BY <1>4, <2>4, DuplicateAnswer DEF Deduped
    <3>2. CASE latest[i].by = None
      <4>1. w = Word("")
        BY <1>2, <1>8, <3>1, <3>2 DEF Parts, LastIsShown
      <4>2. v.text = ""
        BY <1>6, <4>1, UnavailableFacts
      <4> QED
        BY <1>2, <1>9, <2>4, <3>2, <4>2
    <3>3. CASE latest[i].by # None
      <4>1. Shows(a, i, Displayed(i, lastValue[i]))
        BY <1>2, <1>8, <3>1, <3>3 DEF Parts, LastIsShown
      <4>2. Displayed(i, lastValue[i]) = d
        BY <1>6, <2>1, <3>1
      <4>3. Shows(a, i, d)'
        BY <1>10, <2>4, <4>1, <4>2
      <4> QED
        BY <2>2, <4>3
    <3> QED
      BY <3>2, <3>3
  <2> QED
    BY <2>3, <2>4
<1>17. NewIsOther(a, i)'
  <2> SUFFICES ASSUME Deduped(a, i), Comparable(a, i), a \notin commanded'
               PROVE  /\ latest'[i].by = a \/ Pending(a, i)' # {} => Canonical(i, lastValue'[i])
                      /\ latest'[i].by = a =>
                           \A p \in Pending(a, i)' : Differ(i, Displayed(i, p.value), Plain(latest'[i].value))
                      /\ latest'[i].by = a /\ before'[i].by = a =>
                           Differ(i, Plain(latest'[i].value), Plain(before'[i].value))
    BY DEF NewIsOther
  <2>1. /\ latest[i].by = a => Canonical(i, lastValue[i])
        /\ latest[i].by = a /\ before[i].by = a => Differ(i, Plain(latest[i].value), Plain(before[i].value))
    BY <1>8 DEF Parts, NewIsOther
  <2>2. lastValue'[i] = w
    BY <1>5, <1>11
  <2>3. CASE answer.drop
    <3>1. lastValue'[i] = lastValue[i] /\ Pending(a, i)' = {}
      BY <1>9, <1>11, <2>2, <2>3
    <3> QED
      BY <1>2, <2>1, <3>1
  <2>4. CASE ~ answer.drop
    <3>1. Canonical(i, w)
      <4>1. /\ v.trigger => Def[i].reset
            /\ Def[i].factor > 1 /\ ~ IsCondition(i) => v.text \in {"number", Unavailable}
        BY <1>2 DEF Comparable
      <4>2. ~ w.trigger
        BY <1>7, <4>1 DEF Plain, Check
      <4> QED
        BY <1>6, <4>1, <4>2 DEF Canonical
    <3>2. ASSUME latest[i].by = a
          PROVE  Differ(i, Displayed(i, v), Plain(latest[i].value))
      <4>1. a # None
        BY FeedAssumption
      <4>2. Shows(a, i, Displayed(i, lastValue[i]))
        BY <1>2, <1>8, <3>2, <4>1 DEF Parts, LastIsShown, Comparable
      <4>3. Plain(latest[i].value) = Displayed(i, lastValue[i])
        BY <1>2, <4>2 DEF Shows
      <4>4. w # lastValue[i] /\ Canonical(i, lastValue[i])
        BY <1>11, <2>1, <2>4, <3>2
      <4>5. Displayed(i, w) = Displayed(i, lastValue[i]) =>
              IsCondition(i) /\ Displayed(i, w) = Word(Unavailable)
        BY <1>6, <3>1, <4>4, DisplayInjective
      <4>6. Displayed(i, w) = Displayed(i, v)
        BY <1>6 DEF Comparable
      <4> QED
        BY <4>3, <4>5, <4>6 DEF Differ
    <3> QED
      BY <1>2, <1>9, <2>1, <2>2, <2>4, <3>1, <3>2
  <2> QED
    BY <2>3, <2>4
<1>18. SampleIsShown(a, i)'
  <2> SUFFICES ASSUME Sampled(a, i)'
               PROVE  /\ Pending(a, i)' = {} /\ latest'[i].value.text = "number" => lastSample'[i] = {latest'[i].value.n}
                      /\ \A p \in Pending(a, i)' : Observation(i, p.value).text = "number" =>
                           /\ lastSample'[i] = {Observation(i, p.value).n}
                           /\ latest'[i].value.text = "number" =>
                                Apart(i, Observation(i, p.value).n, latest'[i].value.n)
                      /\ latest'[i].value.text = "number" /\ before'[i].value.text = "number" =>
                           Apart(i, latest'[i].value.n, before'[i].value.n)
    BY DEF SampleIsShown
  <2>1. /\ a \notin commanded' /\ Def[i].delta > 0 /\ Def[i].period = 0 /\ Def[i].category = "SAMPLE"
        /\ ~ Def[i].discrete /\ SentAsShown(a, i)
    BY DEF Sampled
  <2>2. Sampled(a, i)
    BY <1>8, <2>1 DEF Sampled
  <2>3. /\ latest[i].value.text = "number" => lastSample[i] = {latest[i].value.n}
        /\ latest[i].value.text = "number" /\ before[i].value.text = "number" =>
             Apart(i, latest[i].value.n, before[i].value.n)
    BY <1>2, <2>2 DEF Parts, SampleIsShown
  <2>4. PICK n : n = convertValue(settled, w.n)
    OBVIOUS
  <2>5. /\ answer.drop <=> Near(i, n)
        /\ ~ Near(i, n) => answer.sample = {n}
        /\ Near(i, n) => answer.sample = lastSample[i]
    BY <1>4, <2>1, <2>4, DeltaAnswer
  <2>6. CASE answer.drop
    <3>1. lastSample'[i] = lastSample[i] /\ Pending(a, i)' = {}
      BY <1>5, <1>9, <2>5, <2>6
    <3> QED
      BY <1>2, <2>3, <3>1
  <2>7. CASE ~ answer.drop
    <3>1. lastSample'[i] = {n} /\ Pending(a, i)' # {} /\ \A p \in Pending(a, i)' : p.value = v
      BY <1>5, <1>9, <2>5, <2>7
    <3>2. ASSUME Observation(i, v).text = "number"
          PROVE  Observation(i, v).n = n
      <4>1. settled = Settled(i, NewConversion)
        BY <1>8, <2>1
      <4>2. ~ IsCondition(i) /\ Said(i, v) = v
        BY <1>6, <2>1 DEF IsCondition, Said
      <4>3. v.text # Unavailable
        BY <3>2, <4>2, ObservedText, UnavailableFacts DEF Observation
      <4>4. HasUnits(i, v)
        BY <4>2, <4>3 DEF HasUnits
      <4> QED
        BY <1>6, <2>4, <4>1, <4>2, <4>4 DEF Observation, Observed, convertValue
    <3>3. ASSUME latest[i].value.text = "number"
          PROVE  Apart(i, n, latest[i].value.n)
      <4>1. PICK s \in Int : s = latest[i].value.n
        BY ValueFacts
      <4>2. lastSample[i] = {s}
        BY <2>3, <3>3, <4>1
      <4>3. ~ (n > s - Def[i].delta /\ n < s + Def[i].delta)
        BY <2>5, <2>7, <4>2 DEF Near
      <4>4. n \in Int
        <5>1. settled \in Conversion
          BY <1>8, <2>1, SettledFacts
        <5> QED
          BY <1>6, <2>4, <5>1, ValueFacts DEF convertValue, Conversion
      <4>5. Def[i].delta \in Nat
        BY DefFacts
      <4> QED
        BY <4>1, <4>3, <4>4, <4>5 DEF Apart
    <3> QED
      BY <1>2, <2>3, <3>1, <3>2, <3>3
  <2> QED
    BY <2>6, <2>7
<1>19. Timely(a, i)'
  <2> SUFFICES ASSUME Covered(a, i), ~ Bypassed(a, i), Def[i].period > 0, ~ IsCondition(i),
                      \A u \in SentValues[a][i] : u.text = "number"
               PROVE  /\ Def[i].discrete => lastOffset'[i] = {}
                      /\ lastOffset'[i] # {} => ShowsText(a, i, "number")'
                      /\ received'[i].text = "number" => ShowsText(a, i, "number")'
    BY DEF Timely
  <2>1. /\ Def[i].discrete => lastOffset[i] = {}
        /\ lastOffset[i] # {} => ShowsText(a, i, "number")
    BY DEF Parts, Timely
  <2>2. Said(i, v).text = "number"
    <3>1. v.text = "number"
      BY <1>2
    <3> QED
      BY <1>2, <3>1, SaidType DEF Said
  <2>3. /\ Def[i].discrete => ~ answer.drop /\ answer.offset = lastOffset[i]
        /\ ~ Def[i].discrete /\ answer.drop => lastOffset[i] # {} /\ answer.offset = lastOffset[i]
    BY <1>4, PeriodAnswer DEF Covered
  <2>4. CASE answer.drop
    BY <1>5, <1>10, <2>1, <2>3, <2>4
  <2>5. CASE ~ answer.drop
    <3>1. ShowsText(a, i, "number")'
      BY <1>10, <2>2, <2>5
    <3> QED
      BY <1>5, <2>1, <2>3, <3>1
  <2> QED
    BY <2>4, <2>5
<1> QED
  BY <1>12, <1>13, <1>14, <1>15, <1>16, <1>17, <1>18, <1>19 DEF Parts

(* A connection is lost: its item is marked, or is not shown as anything   *)
(* but UNAVAILABLE.                                                        *)
LEMMA LosesParts ==
  ASSUME NEW a \in Adapters, NEW i \in Items, LosesItem(a, i), Parts(a, i), source[i] \in {None, a},
         latest[i].value \in Value,
         a \in commanded => a \in commanded'
  PROVE  Parts(a, i)'
<1>1. /\ Pending(a, i) = {} /\ source'[i] = source[i] /\ latest'[i] = latest[i] /\ before'[i] = before[i]
      /\ received'[i] = IF source[i] = a THEN Word(Unavailable) ELSE received[i]
  BY DEF LosesItem
<1>2. Untouched(a, i) /\ MarkedOnce(a, i) /\ a # None
  BY FeedAssumption DEF Parts
<1>3. CASE ~ Marks(a, i)
  <2>1. FiltersKept(i) /\ conv'[i] = conv[i] /\ Pending(a, i)' = {}
    BY <1>3 DEF LosesItem
  <2>2. CASE source[i] # a
    <3>1. Frozen(a, i)
      BY <1>1, <2>1, <2>2 DEF Frozen, ItemKept
    <3> QED
      BY <3>1, FrozenParts
  <2>3. CASE source[i] = a
    <3>1. /\ lastValue'[i] = lastValue[i] /\ lastSample'[i] = lastSample[i] /\ lastOffset'[i] = lastOffset[i]
          /\ received'[i] = Word(Unavailable)
          /\ a \notin commanded' => a \notin commanded
      BY <1>1, <2>1, <2>3 DEF FiltersKept
    <3>2. /\ \A d : Shows(a, i, d)' <=> Shows(a, i, d)
          /\ \A t : ShowsText(a, i, t)' <=> ShowsText(a, i, t)
      BY <1>1, <2>1 DEF Shows, ShowsText
    <3>3. Untouched(a, i)'
      BY <1>1, <1>2, <2>3 DEF Untouched
    <3>4. MarkedOnce(a, i)'
      BY <3>1, <3>2 DEF Parts, MarkedOnce
    <3>5. ConvInv(a, i)'
      BY <2>1, <3>1 DEF Parts, ConvInv
    <3>6. LastIsShown(a, i)'
      BY <1>1, <2>1, <3>1, <3>2 DEF Parts, LastIsShown
    <3>7. ReceivedIsShown(a, i)'
      <4> SUFFICES ASSUME Covered(a, i)
                   PROVE  Shows(a, i, Displayed(i, received[i]))'
        BY DEF ReceivedIsShown
      <4>1. latest[i].value.text = Unavailable
        BY <1>3, <2>3 DEF Marks, Owns, Covered, MayBeLost
      <4>2. Plain(latest'[i].value) = Word(Unavailable)
        BY <1>1, <4>1, UnavailableFacts
      <4>3. Displayed(i, received'[i]) = Word(Unavailable)
        BY <3>1, UnavailableFacts
      <4> QED
        BY <2>1, <4>2, <4>3 DEF Shows
    <3>8. NewIsOther(a, i)'
      BY <1>1, <2>1, <3>1 DEF Parts, NewIsOther
    <3>9. SampleIsShown(a, i)'
      BY <1>1, <2>1, <3>1 DEF Parts, SampleIsShown, Sampled
    <3>10. Timely(a, i)'
      BY <3>1, <3>2, UnavailableFacts DEF Parts, Timely
    <3> QED
      BY <3>3, <3>4, <3>5, <3>6, <3>7, <3>8, <3>9, <3>10 DEF Parts
  <2> QED
    BY <2>2, <2>3
<1>4. CASE Marks(a, i)
  <2>1. latest[i].value.text # Unavailable /\ Owns(a, i) /\ Asked(a, i, Down(i), Down(i), DownOffset, conv[i])
    BY <1>4 DEF LosesItem, Marks
  <2>2. PICK settled : settled = FilterSettles(i, conv[i])
    OBVIOUS
  <2>3. PICK answer : answer = AdapterIsDuplicate(a, i, Down(i), DownOffset, settled)
    OBVIOUS
  <2>4. PICK mark : mark = [item |-> i, value |-> Down(i)]
    OBVIOUS
  <2>5. /\ lastValue'[i] = answer.value /\ lastSample'[i] = answer.sample /\ lastOffset'[i] = answer.offset
        /\ conv'[i] = settled
        /\ Pending(a, i)' = IF answer.drop THEN {} ELSE {mark}
    BY <2>1, <2>2, <2>3, <2>4 DEF Asked
  <2>6. mark.value = Down(i) /\ Displayed(i, mark.value) = Word(Unavailable) /\ Said(i, mark.value).text = Unavailable
    BY <2>4, DownFacts, UnavailableFacts
  <2>7. source[i] = a \/ Bypassed(a, i)
    BY <2>1 DEF Owns, Bypassed
  <2>8. source[i] # a => Bypassed(a, i)
    BY <2>7
  <2>9. Covered(a, i) => ~ answer.drop
    BY <1>1, <1>2, <2>1, <2>3, LossPasses
  <2>10. Deduped(a, i) => ~ answer.drop /\ answer.value = Down(i)
    <3> SUFFICES ASSUME Deduped(a, i)
                 PROVE  ~ answer.drop /\ answer.value = Down(i)
      OBVIOUS
    <3>1. (answer.drop <=> Down(i) = lastValue[i]) /\ answer.value = Down(i)
      BY <2>3, DuplicateAnswer DEF Deduped
    <3>2. lastValue[i] # Down(i)
      BY <1>1, <1>2, <2>1 DEF MarkedOnce, ShowsText
    <3> QED
      BY <3>1, <3>2
  <2>11. ~ answer.drop => Shows(a, i, Word(Unavailable))' /\ ShowsText(a, i, Unavailable)' /\ Pending(a, i)' = {mark}
    <3> SUFFICES ASSUME ~ answer.drop
                 PROVE  Shows(a, i, Word(Unavailable))' /\ ShowsText(a, i, Unavailable)' /\ Pending(a, i)' = {mark}
      OBVIOUS
    <3>1. Pending(a, i)' = {mark}
      BY <2>5
    <3> QED
      BY <2>6, <3>1 DEF Shows, ShowsText
  <2>12. a \notin commanded' =>
           a \notin commanded /\ settled \in {NewConversion, Settled(i, NewConversion)}
    BY <2>2, ConvCases DEF Parts, FilterSettles
  <2>13. Untouched(a, i)'
    BY <1>1, <1>2, <2>8 DEF Untouched
  <2>14. MarkedOnce(a, i)'
    BY <2>10, <2>11 DEF MarkedOnce
  <2>15. ConvInv(a, i)'
    BY <2>5, <2>12 DEF ConvInv
  <2>16. LastIsShown(a, i)'
    <3> SUFFICES ASSUME Deduped(a, i)
                 PROVE  Pending(a, i)' # {} /\ Shows(a, i, Displayed(i, lastValue[i]))'
      BY DEF LastIsShown
    <3>1. lastValue'[i] = Down(i) /\ Displayed(i, lastValue'[i]) = Word(Unavailable)
      BY <2>5, <2>10, DownFacts
    <3> QED
      BY <2>10, <2>11, <3>1
  <2>17. ReceivedIsShown(a, i)'
    <3> SUFFICES ASSUME Covered(a, i), ~ Bypassed(a, i)
                 PROVE  Shows(a, i, Displayed(i, received[i]))'
      BY DEF ReceivedIsShown
    <3>1. Displayed(i, received'[i]) = Word(Unavailable)
      BY <1>1, <2>7, UnavailableFacts
    <3> QED
      BY <2>9, <2>11, <3>1
  <2>18. NewIsOther(a, i)'
    <3> SUFFICES ASSUME Deduped(a, i), Comparable(a, i), a \notin commanded'
                 PROVE  /\ latest'[i].by = a \/ Pending(a, i)' # {} => Canonical(i, lastValue'[i])
                        /\ latest'[i].by = a =>
                             \A p \in Pending(a, i)' : Differ(i, Displayed(i, p.value), Plain(latest'[i].value))
                        /\ latest'[i].by = a /\ before'[i].by = a =>
                             Differ(i, Plain(latest'[i].value), Plain(before'[i].value))
      BY DEF NewIsOther
    <3>0. ~ answer.drop /\ answer.value = Down(i)
      BY <2>10
    <3>1. lastValue'[i] = Down(i) /\ Pending(a, i)' = {mark}
      <4>1. lastValue'[i] = answer.value
        BY <2>5
      <4>2. Pending(a, i)' = {mark}
        BY <2>11, <3>0
      <4> QED
        BY <3>0, <4>1, <4>2
    <3>2. Plain(latest[i].value) # Word(Unavailable)
      <4>1. \A v : Plain(v).text = v.text
        BY DEF Plain
      <4>2. Word(Unavailable).text = Unavailable
        BY UnavailableFacts
      <4> QED
        BY <2>1, <4>1, <4>2
    <3>3. latest[i].by = a /\ before[i].by = a => Differ(i, Plain(latest[i].value), Plain(before[i].value))
      BY <2>12 DEF Parts, NewIsOther
    <3>4. Differ(i, Displayed(i, mark.value), Plain(latest[i].value))
      BY <2>6, <3>2 DEF Differ
    <3> QED
      BY <1>1, <3>1, <3>3, <3>4, DownFacts
  <2>19. SampleIsShown(a, i)'
    <3> SUFFICES ASSUME Sampled(a, i)'
                 PROVE  /\ Pending(a, i)' = {} /\ latest'[i].value.text = "number" => lastSample'[i] = {latest'[i].value.n}
                        /\ \A p \in Pending(a, i)' : Observation(i, p.value).text # "number"
                        /\ latest'[i].value.text = "number" /\ before'[i].value.text = "number" =>
                             Apart(i, latest'[i].value.n, before'[i].value.n)
      BY DEF SampleIsShown
    <3>1. Sampled(a, i)
      BY <2>12 DEF Sampled
    <3>2. /\ latest[i].value.text = "number" => lastSample[i] = {latest[i].value.n}
          /\ latest[i].value.text = "number" /\ before[i].value.text = "number" =>
               Apart(i, latest[i].value.n, before[i].value.n)
      BY <1>1, <3>1 DEF Parts, SampleIsShown
    <3>3. Observation(i, Down(i)).text = Unavailable
      <4>1. Said(i, Down(i)) = Word(Unavailable)
        BY DownFacts
      <4>2. Said(i, Down(i)).text = Unavailable
        BY <4>1, UnavailableFacts
      <4>3. PICK v : v = Down(i)
        OBVIOUS
      <4>4. PICK c : c = Settled(i, NewConversion)
        OBVIOUS
      <4>5. Observed(i, c, v).text = Unavailable
        BY <4>2, <4>3, ObservedText
      <4> QED
        BY <4>3, <4>4, <4>5 DEF Observation
    <3>4. answer.drop => answer.sample = lastSample[i] /\ Pending(a, i)' = {}
      <4>1. PICK n : n = convertValue(settled, Down(i).n)
        OBVIOUS
      <4>2. (answer.drop <=> Near(i, n)) /\ (Near(i, n) => answer.sample = lastSample[i])
        BY <2>3, <3>1, <4>1, DeltaAnswer DEF Sampled
      <4> QED
        BY <2>5, <4>2
    <3>5. CASE answer.drop
      BY <1>1, <2>5, <3>2, <3>4, <3>5
    <3>6. CASE ~ answer.drop
      BY <1>1, <2>6, <2>11, <3>2, <3>3, <3>6, UnavailableFacts
    <3> QED
      BY <3>5, <3>6
  <2>20. Timely(a, i)'
    <3> SUFFICES ASSUME Covered(a, i), ~ Bypassed(a, i), Def[i].period > 0, ~ IsCondition(i),
                        \A u \in SentValues[a][i] : u.text = "number"
                 PROVE  /\ Def[i].discrete => lastOffset'[i] = {}
                        /\ lastOffset'[i] # {} => ShowsText(a, i, "number")'
                        /\ received'[i].text = "number" => ShowsText(a, i, "number")'
      BY DEF Timely
    <3>1. Def[i].discrete => lastOffset[i] = {}
      BY DEF Parts, Timely
    <3>2. lastOffset'[i] = {}
      <4>1. /\ Def[i].discrete => answer.offset = lastOffset[i]
            /\ ~ Def[i].discrete /\ ~ answer.drop => answer.offset = DownOffset
        BY <2>3, PeriodAnswer DEF Covered
      <4> QED
        BY <2>5, <2>9, <3>1, <4>1 DEF DownOffset
    <3>3. received'[i].text = Unavailable
      BY <1>1, <2>7, UnavailableFacts
    <3> QED
      BY <3>2, <3>3, UnavailableFacts
  <2> QED
    BY <2>13, <2>14, <2>15, <2>16, <2>17, <2>18, <2>19, <2>20 DEF Parts
<1> QED
  BY <1>3, <1>4

(* What was posted is shown.                                               *)
LEMMA AddsParts ==
  ASSUME NEW a \in Adapters, NEW i \in Items, NEW v, AddsItem(a, i, v), Parts(a, i),
         a \in commanded => a \in commanded'
  PROVE  Parts(a, i)'
<1>1. PICK c : c = Settled(i, conv[i])
  OBVIOUS
<1>2. PICK shows : shows = [value |-> Observed(i, c, v), by |-> a, conn |-> conn[a]]
  OBVIOUS
<1>3. PICK mark : mark = [item |-> i, value |-> v]
  OBVIOUS
<1>4. /\ v \in Value /\ Pending(a, i) = {mark} /\ Pending(a, i)' = {} /\ latest'[i] = shows /\ before'[i] = latest[i]
      /\ source'[i] = source[i] /\ received'[i] = received[i] /\ conv'[i] \in {conv[i], c}
  BY <1>1, <1>2, <1>3 DEF AddsItem
<1>5. lastValue'[i] = lastValue[i] /\ lastSample'[i] = lastSample[i] /\ lastOffset'[i] = lastOffset[i]
  BY DEF AddsItem, FiltersKept
<1>6. mark.value = v /\ shows.value = Observed(i, c, v) /\ shows.by = a /\ a # None
  BY <1>2, <1>3, FeedAssumption
<1>7. /\ \A d : Shows(a, i, d) <=> Displayed(i, v) = d
      /\ \A t : ShowsText(a, i, t) <=> Said(i, v).text = t
      /\ Pending(a, i) # {}
  BY <1>4, <1>6 DEF Shows, ShowsText
<1>8. /\ \A d : Shows(a, i, d)' <=> Plain(shows.value) = d
      /\ \A t : ShowsText(a, i, t)' <=> shows.value.text = t
  BY <1>4 DEF Shows, ShowsText
<1>9. /\ ShowsText(a, i, Unavailable) => ShowsText(a, i, Unavailable)'
      /\ ShowsText(a, i, "number") => ShowsText(a, i, "number")'
  BY <1>6, <1>7, <1>8, ObservedText
<1>10. a \notin commanded' =>
         a \notin commanded /\ c = Settled(i, NewConversion) /\ conv[i] \in {NewConversion, Settled(i, NewConversion)}
  BY <1>1, ConvCases DEF Parts
<1>11. a \notin commanded' => shows.value = Observation(i, v) /\ Plain(shows.value) = Displayed(i, v)
  BY <1>4, <1>6, <1>10, DisplayFacts DEF Observation
<1>12. \A d : a \notin commanded' /\ Shows(a, i, d) => Shows(a, i, d)'
  BY <1>7, <1>8, <1>11
<1>13. Untouched(a, i)'
  BY <1>4, <1>7 DEF Parts, Untouched
<1>14. MarkedOnce(a, i)'
  BY <1>5, <1>9 DEF Parts, MarkedOnce
<1>15. ConvInv(a, i)'
  BY <1>4, <1>10 DEF ConvInv
<1>16. LastIsShown(a, i)'
  <2> SUFFICES ASSUME Deduped(a, i), SentAsShown(a, i), a \notin commanded'
               PROVE  Shows(a, i, Displayed(i, lastValue[i]))' /\ latest'[i].by # None
    BY DEF LastIsShown
  <2>1. Shows(a, i, Displayed(i, lastValue[i]))
    BY <1>7, <1>10 DEF Parts, LastIsShown
  <2> QED
    BY <1>4, <1>5, <1>6, <1>12, <2>1
<1>17. ReceivedIsShown(a, i)'
  <2> SUFFICES ASSUME Covered(a, i), Unfiltered(i), ~ Bypassed(a, i), a \notin commanded',
                      Config[a].dupCheck => SentAsShown(a, i)
               PROVE  Shows(a, i, Displayed(i, received[i]))'
    BY DEF ReceivedIsShown
  <2>1. Shows(a, i, Displayed(i, received[i]))
    BY <1>7, <1>10 DEF Parts, ReceivedIsShown
  <2> QED
    BY <1>4, <1>12, <2>1
<1>18. NewIsOther(a, i)'
  <2> SUFFICES ASSUME Deduped(a, i), Comparable(a, i), a \notin commanded'
               PROVE  /\ Canonical(i, lastValue'[i])
                      /\ latest'[i].by = a =>
                           \A p \in Pending(a, i)' : Differ(i, Displayed(i, p.value), Plain(latest'[i].value))
                      /\ latest'[i].by = a /\ before'[i].by = a =>
                           Differ(i, Plain(latest'[i].value), Plain(before'[i].value))
    BY DEF NewIsOther
  <2>1. /\ Canonical(i, lastValue[i])
        /\ latest[i].by = a => \A p \in Pending(a, i) : Differ(i, Displayed(i, p.value), Plain(latest[i].value))
    BY <1>7, <1>10 DEF Parts, NewIsOther
  <2>2. latest[i].by = a => Differ(i, Displayed(i, v), Plain(latest[i].value))
    BY <1>4, <1>6, <2>1
  <2> QED
    BY <1>4, <1>5, <1>11, <2>1, <2>2
<1>19. SampleIsShown(a, i)'
  <2> SUFFICES ASSUME Sampled(a, i)'
               PROVE  /\ latest'[i].value.text = "number" => lastSample'[i] = {latest'[i].value.n}
                      /\ \A p \in Pending(a, i)' : Observation(i, p.value).text = "number" =>
                           /\ lastSample'[i] = {Observation(i, p.value).n}
                           /\ latest'[i].value.text = "number" => Apart(i, Observation(i, p.value).n, latest'[i].value.n)
                      /\ latest'[i].value.text = "number" /\ before'[i].value.text = "number" =>
                           Apart(i, latest'[i].value.n, before'[i].value.n)
    BY DEF SampleIsShown
  <2>1. Sampled(a, i) /\ a \notin commanded'
    BY <1>10 DEF Sampled
  <2>2. PICK o : o = Observation(i, v)
    OBVIOUS
  <2>3. o.text = "number" =>
          /\ lastSample[i] = {o.n}
          /\ latest[i].value.text = "number" => Apart(i, o.n, latest[i].value.n)
    BY <1>4, <1>6, <2>1, <2>2 DEF Parts, SampleIsShown
  <2>4. latest'[i].value = o
    BY <1>4, <1>11, <2>1, <2>2
  <2> QED
    BY <1>4, <1>5, <2>3, <2>4
<1>20. Timely(a, i)'
  BY <1>4, <1>5, <1>9 DEF Parts, Timely
<1> QED
  BY <1>13, <1>14, <1>15, <1>16, <1>17, <1>18, <1>19, <1>20 DEF Parts

-----------------------------------------------------------------------------
(* No value outlives its connection.                                       *)

(* The loss of a connection posts UNAVAILABLE for every item that shows    *)
(* anything else.                                                          *)
LEMMA LossPosts ==
  ASSUME NEW a \in Adapters, NEW i \in Items, LosesItem(a, i), Covered(a, i), Untouched(a, i), MarkedOnce(a, i),
         source[i] \in {None, a}
  PROVE  latest[i].value.text = Unavailable \/ Pending(a, i)' # {}
<1> SUFFICES ASSUME latest[i].value.text # Unavailable
             PROVE  Pending(a, i)' # {}
  OBVIOUS
<1>1. Owns(a, i)
  BY DEF Owns, Untouched, Bypassed
<1>2. Marks(a, i)
  BY <1>1 DEF Marks, Covered, MayBeLost
<1>3. PICK settled : settled = FilterSettles(i, conv[i])
  OBVIOUS
<1>4. PICK mark : mark = [item |-> i, value |-> Down(i)]
  OBVIOUS
<1>5. Pending(a, i) = {} /\ Asked(a, i, Down(i), Down(i), DownOffset, conv[i])
  BY <1>2 DEF LosesItem
<1>6. Pending(a, i)' =
        IF AdapterIsDuplicate(a, i, Down(i), DownOffset, settled).drop THEN {} ELSE {mark}
  BY <1>3, <1>4, <1>5 DEF Asked
<1>7. ~ AdapterIsDuplicate(a, i, Down(i), DownOffset, settled).drop
  BY <1>5, LossPasses
<1>8. Pending(a, i)' = {mark}
  BY <1>6, <1>7
<1> QED
  BY <1>8

(* The value an adapter that is down adds is UNAVAILABLE.                  *)
LEMMA AddsCurrent ==
  ASSUME NEW a \in Adapters, NEW i \in Items, NEW v, AddsItem(a, i, v), JobOf(a), latest \in [Items -> Published]
  PROVE  Current(a, i)'
<1>1. PICK shows : shows = [value |-> Observed(i, Settled(i, conv[i]), v), by |-> a, conn |-> conn[a]]
  OBVIOUS
<1>2. PICK mark : mark = [item |-> i, value |-> v]
  OBVIOUS
<1>3. /\ latest'[i] = shows /\ up'[a] = up[a] /\ conn'[a] = conn[a] /\ mark \in Pending(a, i)
  BY <1>1, <1>2 DEF AddsItem, ConnKept
<1>4. mark.value = v /\ shows.value = Observed(i, Settled(i, conv[i]), v) /\ shows.by = a /\ shows.conn = conn[a]
  BY <1>1, <1>2
<1>5. ~ up[a] => v = Down(i)
  BY <1>3, <1>4, PendingFacts DEF JobOf
<1>6. ASSUME ~ up[a]
      PROVE  shows.value.text = Unavailable
  <2>1. Said(i, v).text = Unavailable
    BY <1>5, <1>6, DownFacts, UnavailableFacts
  <2>2. Observed(i, Settled(i, conv[i]), v).text = Unavailable
    BY <2>1, ObservedText
  <2> QED
    BY <1>4, <2>2
<1> QED
  BY <1>3, <1>4, <1>6 DEF Current

(* Every kind of step keeps what is shown current.                         *)
LEMMA CurrentStep ==
  ASSUME NEW a \in Adapters, NEW i \in Items, ItemStep(a, i), ItemInv(a, i), JobOf(a), source[i] \in {None, a},
         latest \in [Items -> Published], up[a] \in BOOLEAN
  PROVE  Current(a, i)'
<1>1. Current(a, i) /\ Untouched(a, i) /\ MarkedOnce(a, i)
  BY DEF ItemInv
<1>2. CASE Quiet(a, i) \/ Rises(a, i) \/ Falls(a, i)
  <2>1. latest'[i] = latest[i] /\ Pending(a, i)' = Pending(a, i)
    BY <1>2 DEF Quiet, Rises, Falls, Frozen, ItemKept
  <2>2. CASE Quiet(a, i)
    BY <1>1, <2>1, <2>2 DEF Quiet, ConnKept, Current
  <2>3. CASE Rises(a, i)
    BY <1>1, <2>1, <2>3 DEF Rises, Current
  <2>4. CASE Falls(a, i)
    BY <1>1, <2>1, <2>4 DEF Falls, Current, Covered
  <2> QED
    BY <1>2, <2>2, <2>3, <2>4
<1>3. CASE Announces(a, i)
  BY <1>1, <1>3 DEF Announces, ItemKept, ConnKept, Current
<1>4. CASE LosesItem(a, i)
  <2>1. latest'[i] = latest[i] /\ ~ up'[a]
    BY <1>4 DEF LosesItem, ConnKept
  <2>2. Covered(a, i) => latest[i].value.text = Unavailable \/ Pending(a, i)' # {}
    BY <1>1, <1>4, LossPosts
  <2> QED
    BY <2>1, <2>2 DEF Current
<1>5. ASSUME NEW v, Takes(a, i, v)
      PROVE  Current(a, i)'
  BY <1>1, <1>5 DEF Takes, ConnKept, Current
<1>6. ASSUME NEW v, AddsItem(a, i, v)
      PROVE  Current(a, i)'
  BY <1>6, AddsCurrent
<1> QED
  BY <1>2, <1>3, <1>4, <1>5, <1>6 DEF ItemStep

(* And every other part of the invariant.                                  *)
LEMMA PartsStep ==
  ASSUME NEW a \in Adapters, NEW i \in Items, ItemStep(a, i), Parts(a, i), source[i] \in {None, a},
         lastValue[i] \in Value, latest[i].value \in Value,
         a \in commanded => a \in commanded', a \notin commanded => setting[a].conversionRequired
  PROVE  Parts(a, i)'
<1>1. CASE Quiet(a, i) \/ Rises(a, i) \/ Falls(a, i)
  <2>1. Frozen(a, i)
    BY <1>1 DEF Quiet, Rises, Falls
  <2> QED
    BY <2>1, FrozenParts
<1>2. CASE Announces(a, i)
  BY <1>2, AnnouncedParts
<1>3. CASE LosesItem(a, i)
  BY <1>3, LosesParts
<1>4. ASSUME NEW v, Takes(a, i, v)
      PROVE  Parts(a, i)'
  BY <1>4, TakesParts
<1>5. ASSUME NEW v, AddsItem(a, i, v)
      PROVE  Parts(a, i)'
  BY <1>5, AddsParts
<1> QED
  BY <1>1, <1>2, <1>3, <1>4, <1>5 DEF ItemStep

(* An item that only one adapter feeds has no other owner.                 *)
LEMMA PrivateSource ==
  ASSUME TypeOK, FeederInv, NEW a \in Adapters, NEW i \in Items, Private(a, i)
  PROVE  source[i] \in {None, a}
BY DEF FeederInv, Private

(* Initially nothing was sent, and UNAVAILABLE is shown.                   *)
LEMMA ItemInit == Init => PrivateInv
<1> SUFFICES ASSUME Init, NEW a \in Adapters, NEW i \in Items PROVE ItemInv(a, i)
  BY DEF PrivateInv
<1>1. PICK shows : shows = [value |-> Word(Unavailable), by |-> None, conn |-> 0]
  OBVIOUS
<1>2. /\ post[a] = {} /\ source[i] = None /\ lastValue[i] = Word("") /\ lastSample[i] = {} /\ lastOffset[i] = {}
      /\ conv[i] = NewConversion /\ received[i] = Word(Unavailable)
      /\ latest = [j \in Items |-> [value |-> Word(Unavailable), by |-> None, conn |-> 0]] /\ before = latest
  BY DEF Init
<1>3. latest[i] = shows /\ before[i] = shows
  BY <1>1, <1>2
<1>4. shows.value = Word(Unavailable) /\ shows.by = None /\ a # None
  BY <1>1, FeedAssumption
<1>5. /\ shows.value.text = Unavailable /\ Plain(shows.value) = Word(Unavailable)
      /\ received[i].text = Unavailable /\ Displayed(i, received[i]) = Word(Unavailable)
      /\ Word("") # Down(i) /\ Unavailable # "number"
  <2>1. Word("") # Down(i)
    <3>1. Down(i).text \in {Unavailable, ConditionUnavailable} /\ Word("").text = ""
      BY DEF Down, Word
    <3>2. "" \notin {Unavailable, ConditionUnavailable}
      BY DEF Unavailable, ConditionUnavailable
    <3> QED
      BY <3>1, <3>2
  <2> QED
    BY <1>2, <1>4, <2>1, UnavailableFacts
<1>6. Pending(a, i) = {}
  BY <1>2, PendingFacts
<1>7. Untouched(a, i) /\ Current(a, i) /\ ConvInv(a, i)
  BY <1>2, <1>3, <1>4, <1>5, <1>6 DEF Untouched, Current, ConvInv
<1>8. MarkedOnce(a, i) /\ LastIsShown(a, i)
  BY <1>2, <1>3, <1>4, <1>5, <1>6 DEF MarkedOnce, LastIsShown
<1>9. ReceivedIsShown(a, i) /\ NewIsOther(a, i)
  BY <1>2, <1>3, <1>4, <1>5, <1>6 DEF ReceivedIsShown, NewIsOther, Shows
<1>10. SampleIsShown(a, i) /\ Timely(a, i)
  BY <1>2, <1>3, <1>4, <1>5, <1>6 DEF SampleIsShown, Timely
<1> QED
  BY <1>7, <1>8, <1>9, <1>10 DEF ItemInv

(* The items of one adapter alone keep their invariant.                    *)
LEMMA ItemInvStep == TypeOK /\ JobInv /\ FeederInv /\ PrivateInv /\ [Next]_vars => PrivateInv'
<1> SUFFICES ASSUME TypeOK, JobInv, FeederInv, PrivateInv, [Next]_vars,
                    NEW a \in Adapters, NEW i \in Items, Private(a, i)
             PROVE  ItemInv(a, i)'
  BY DEF PrivateInv, Private
<1>1. ItemInv(a, i) /\ Parts(a, i)
  BY ItemParts DEF PrivateInv
<1>2. ItemStep(a, i) /\ (a \in commanded => a \in commanded')
  BY EveryKind
<1>3. JobOf(a)
  BY DEF JobInv, JobOf
<1>4. source[i] \in {None, a}
  BY PrivateSource
<1>5. latest \in [Items -> Published] /\ up[a] \in BOOLEAN /\ lastValue[i] \in Value
  BY DEF TypeOK, ConnType, FilterType
<1>6. latest[i].value \in Value
  BY <1>5 DEF Published
<1>7. Current(a, i)'
  BY <1>1, <1>2, <1>3, <1>4, <1>5, CurrentStep
<1>8. Parts(a, i)'
  BY <1>1, <1>2, <1>3, <1>4, <1>5, <1>6, PartsStep DEF JobOf
<1> QED
  BY <1>7, <1>8 DEF ItemInv, Parts

-----------------------------------------------------------------------------
(* The theorems.                                                           *)

(* FeedInv holds in every reachable state: whatever the adapters, the      *)
(* items, their filters and units, and the lines the peers send, however   *)
(* the adapters' threads interleave and whenever a connection is lost.     *)
THEOREM FeedInvariance == Spec => []FeedInv
<1>1. Init => FeedInv
  BY TypeInit, AssetInit, TimeInit, JobInit, FeederInit, ItemInit DEF FeedInv
<1>2. FeedInv /\ [Next]_vars => FeedInv'
  BY TypeStep, AssetStep, TimeStep, JobStep, FeederStep, ItemInvStep DEF FeedInv
<1> QED
  BY <1>1, <1>2, PTL DEF Spec

(* Idle threads have nothing to add.                                       *)
LEMMA FreeShows ==
  ASSUME NEW a, NEW i, Free(a)
  PROVE  /\ Pending(a, i) = {} /\ ~ Waits(a, i)
         /\ \A v : Shows(a, i, v) => Plain(latest[i].value) = v
         /\ \A w : ShowsText(a, i, w) => latest[i].value.text = w
<1>1. Pending(a, i) = {} /\ ~ Waits(a, i)
  BY PendingFacts DEF Free, Waits
<1> QED
  BY <1>1 DEF Shows, ShowsText

(* Dropping duplicates never hides a change, and units are converted once: *)
(* an item that one adapter feeds shows what was received last for it      *)
(* whenever the adapter's thread is idle (processDataItem, isDuplicate,    *)
(* convertValue, disconnected).                                            *)
THEOREM LatestIsWhatWasReceived == Spec => []LatestIsReceived
<1>1. FeedInv => LatestIsReceived
  <2> SUFFICES ASSUME FeedInv, NEW a \in Adapters, NEW i \in Items,
                      Free(a), a \notin commanded, Unfiltered(i), Covered(a, i), ~ Bypassed(a, i),
                      Config[a].dupCheck => SentAsShown(a, i)
               PROVE  \/ Plain(latest[i].value) = Displayed(i, received[i])
                      \/ received[i].text = "" /\ latest[i].by = None
    BY DEF LatestIsReceived
  <2>1. ReceivedIsShown(a, i)
    BY DEF FeedInv, PrivateInv, ItemInv, Covered
  <2> QED
    BY <2>1, FreeShows DEF ReceivedIsShown
<1> QED
  BY <1>1, FeedInvariance, PTL

(* No value survives the loss of its connection, and no filter holds back  *)
(* the UNAVAILABLE that takes its place (disconnected).                    *)
THEOREM ValuesAreOfTheirConnection == Spec => []NoStaleValue
<1>1. FeedInv => NoStaleValue
  <2> SUFFICES ASSUME FeedInv, NEW a \in Adapters, NEW i \in Items, Free(a), Covered(a, i)
               PROVE  latest[i].value.text = Unavailable \/ (up[a] /\ latest[i].by = a /\ latest[i].conn = conn[a])
    BY DEF NoStaleValue
  <2>1. Current(a, i)
    BY DEF FeedInv, PrivateInv, ItemInv, Covered
  <2> QED
    BY <2>1, FreeShows DEF Current
<1> QED
  BY <1>1, FeedInvariance, PTL

(* No value is published twice in a row, samples in a row are the minimum  *)
(* delta apart, and the minimum period never swallows the first sample of  *)
(* a connection (isDuplicate, isFiltered, setDataSource).                  *)
THEOREM FiltersWork == Spec => []FiltersHold
<1>1. FeedInv => NoRepeat
  <2> SUFFICES ASSUME FeedInv, NEW a \in Adapters, NEW i \in Items, Private(a, i), Deduped(a, i), Comparable(a, i),
                      a \notin commanded, latest[i].by = a, before[i].by = a
               PROVE  \/ Plain(latest[i].value) # Plain(before[i].value)
                      \/ IsCondition(i) /\ latest[i].value.text = Unavailable
    BY DEF NoRepeat, Deduped, Comparable
  <2>1. NewIsOther(a, i)
    BY DEF FeedInv, PrivateInv, ItemInv
  <2>2. Differ(i, Plain(latest[i].value), Plain(before[i].value))
    BY <2>1 DEF NewIsOther
  <2> QED
    BY <2>2, UnavailableFacts DEF Differ
<1>2. FeedInv => DeltaRespected
  <2> SUFFICES ASSUME FeedInv, NEW a \in Adapters, NEW i \in Items, Private(a, i), Sampled(a, i),
                      latest[i].value.text = "number", before[i].value.text = "number"
               PROVE  Apart(i, latest[i].value.n, before[i].value.n)
    BY DEF DeltaRespected, Sampled, Apart
  <2>1. SampleIsShown(a, i)
    BY DEF FeedInv, PrivateInv, ItemInv
  <2> QED
    BY <2>1 DEF SampleIsShown
<1>3. FeedInv => FirstSampleShown
  <2> SUFFICES ASSUME FeedInv, NEW a \in Adapters, NEW i \in Items, Free(a), Covered(a, i), ~ Bypassed(a, i),
                      \A v \in SentValues[a][i] : v.text = "number", Def[i].period > 0, ~ IsCondition(i), received[i].text = "number"
               PROVE  latest[i].value.text = "number"
    BY DEF FirstSampleShown
  <2>1. Timely(a, i)
    BY DEF FeedInv, PrivateInv, ItemInv, Covered
  <2>2. ShowsText(a, i, "number")
    BY <2>1 DEF Timely
  <2> QED
    BY <2>2, FreeShows
<1>4. FeedInv => FiltersHold
  BY <1>1, <1>2, <1>3 DEF FiltersHold
<1> QED
  BY <1>4, FeedInvariance, PTL

(* Relative times count from the first line of the present connection:     *)
(* the base that a lost connection forgot is read anew (extractTime).      *)
THEOREM TimesAreRelative == Spec => []RelativeToConnection
<1>1. FeedInv => RelativeToConnection
  BY DEF FeedInv, TimeInv, RelativeToConnection
<1> QED
  BY <1>1, FeedInvariance, PTL

(* The state is well typed, and a multi-line asset that began and ended on *)
(* one connection has exactly the lines that were sent (processAsset,      *)
(* processData).                                                           *)
THEOREM AssetsAreWhole == Spec => []AssetsWhole
<1>1. FeedInv => AssetsWhole
  BY DEF FeedInv, AssetInv, AssetsWhole
<1> QED
  BY <1>1, FeedInvariance, PTL
=============================================================================
