--------------------------- MODULE MCAdapterFeed ---------------------------
(* Two adapters: "a" filters duplicates and sends relative times, "b"      *)
(* sets the availability of its device and feeds filtered samples.         *)
EXTENDS AdapterFeed, TLC

Plainly ==
  [id |-> "", name |-> "", source |-> "", type |-> "POSITION", category |-> "SAMPLE",
   takesRest |-> FALSE, representation |-> "VALUE", discrete |-> FALSE, reset |-> FALSE,
   initial |-> {}, delta |-> 0, period |-> 0, factor |-> 0, constraint |-> "none"]

MCItems == {"pos", "load", "cond", "avail", "temp", "limit", "count"}

MCDef ==
  [pos   |-> [Plainly EXCEPT !.id = "pos", !.source = "X", !.factor = 2, !.reset = TRUE],
   load  |-> [Plainly EXCEPT !.id = "load", !.period = 2],
   cond  |-> [Plainly EXCEPT !.id = "cond", !.category = "CONDITION", !.takesRest = TRUE],
   avail |-> [Plainly EXCEPT !.id = "avail", !.type = "AVAILABILITY", !.category = "EVENT"],
   temp  |-> [Plainly EXCEPT !.id = "temp", !.delta = 2],
   limit |-> [Plainly EXCEPT !.id = "limit", !.constraint = "constant"],
   count |-> [Plainly EXCEPT !.id = "count", !.reset = TRUE, !.initial = {7}]]

MCDeviceItems == [mill |-> <<"cond", "load", "pos">>, robot |-> <<"avail", "limit", "temp", "count">>]

MCConfig ==
  [a |-> [device |-> "mill", allDevices |-> <<"mill">>, dupCheck |-> TRUE,
          autoAvailable |-> FALSE, relativeTime |-> TRUE],
   b |-> [device |-> "robot", allDevices |-> <<"robot", "mill">>, dupCheck |-> FALSE,
          autoAvailable |-> TRUE, relativeTime |-> FALSE]]

At(t) == [form |-> "date", t |-> t]
Brings(key, v) == [device |-> None, key |-> key, value |-> v]
Data(t, pairs) == [kind |-> "data", time |-> At(t), pairs |-> pairs]

MCLines ==
  [a |-> {Data(3, <<Brings("pos", Number(2)), Brings("cond", Word(Unavailable))>>),
          Data(4, <<Brings("load", Number(2)), Brings("X", [Number(1) EXCEPT !.trigger = TRUE])>>),
          Data(5, <<Brings("cond", Word("FAULT|pos|2")), Brings("pos", Number(2))>>),
          [kind |-> "multiline", id |-> "tool", time |-> At(4),
           follow |-> <<[kind |-> "text"], [kind |-> "end", id |-> "tool"]>>],
          [kind |-> "command", command |-> "conversionRequired", yes |-> FALSE]},
   b |-> {Data(1, <<Brings("temp", Number(0)), Brings("count", [Number(1) EXCEPT !.trigger = TRUE]),
                    Brings("temp", Number(1)),
                    [device |-> "robot", key |-> "limit", value |-> Number(1)]>>),
          [kind |-> "command", command |-> "device", device |-> "mill"],
          [kind |-> "command", command |-> "calibration", key |-> "temp", factor |-> 2]}]

MCMaxLines == [a |-> 3, b |-> 1]
=============================================================================
