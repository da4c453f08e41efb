--------------------------- MODULE ObservationLog ---------------------------
(***************************************************************************)
(* What the agent promises about its observations: a log that only grows,  *)
(* of which the last Size observations can be read back.  A "current" is   *)
(* the state after some observation of the window, the one asked for when  *)
(* the window still has it.  A "sample" is a run of consecutive            *)
(* observations of the window, reduced to the data items asked for.        *)
(***************************************************************************)
EXTENDS Checkpoint, Subsequences

CONSTANTS Size, Readers, Filters

VARIABLES
  log,     \* all observations, by sequence number
  states,  \* states[s] is the checkpoint after log[1..s]
  reply    \* what each reader was answered

vars == <<log, states, reply>>

NoReply == [kind |-> "none", asked |-> 0, body |-> <<>>]

First == IF Len(log) >= Size THEN Len(log) + 1 - Size ELSE 1

Window == First .. Len(log)

Init ==
  /\ log = <<>>
  /\ states = <<>>
  /\ reply = [r \in Readers |-> NoReply]

LatestState == IF states = <<>> THEN EmptyCheckpoint ELSE states[Len(states)]

Add(obs) ==
  /\ obs.sequence = Len(log) + 1
  /\ log' = Append(log, obs)
  /\ states' = Append(states, addObservation(LatestState, obs))
  /\ UNCHANGED reply

Answer(r, answer) ==
  /\ reply[r] = NoReply
  /\ reply' = [reply EXCEPT ![r] = answer]
  /\ UNCHANGED <<log, states>>

AnswerCurrent(r) ==
  \E asked \in 0 .. Len(log), s \in Window, f \in Filters :
    /\ asked = 0 => s = Len(log)
    /\ asked \in Window => s = asked
    /\ Answer(r, [kind |-> "current", asked |-> asked,
                  body |-> FilterCheckpoint(states[s], f)])

Run(lo, hi, f) == Subsequence(log, {s \in lo .. hi : log[s].item \in f})

AnswerSample(r) ==
  \E asked \in 0 .. Len(log) + 1, n \in 0 .. Size, f \in Filters :
    LET up   == Run(asked, asked + n - 1, f)
        down == Backward(Run(asked - n + 1, asked, f))
    IN  \/ /\ n > 0 => asked \in Window /\ asked + n - 1 \in Window
           /\ Answer(r, [kind |-> "sample", asked |-> asked, body |-> up])
        \/ /\ n > 0 => asked \in Window /\ asked - n + 1 \in Window
           /\ Answer(r, [kind |-> "sample", asked |-> asked, body |-> down])

Forget(r) ==
  /\ reply' = [reply EXCEPT ![r] = NoReply]
  /\ UNCHANGED <<log, states>>

Next ==
  \/ \E seq \in {Len(log) + 1}, item \in DataItems, p \in Payload :
       Add(MakeObservation(item, seq, p))
  \/ \E r \in Readers : AnswerCurrent(r) \/ AnswerSample(r) \/ Forget(r)

Spec == Init /\ [][Next]_vars
=============================================================================
