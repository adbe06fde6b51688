-------------------------------- MODULE Input --------------------------------
(***************************************************************************)
(* Buttons and wheel (drivers/input/input_manager.cpp, and                 *)
(* include/util/debouncer.h and rotary.h): pins are read, debounced and    *)
(* turned into events by poll(), which loop() calls before it handles the  *)
(* events of the queue, all of them.                                       *)
(*                                                                         *)
(* Handling an event, a repaint or a request may take seconds, so any time *)
(* of Passes may go by between two polls, and between them the pins do     *)
(* what they like.  millis() wraps around.  Pins are TRUE when pulled low. *)
(***************************************************************************)
EXTENDS Integers, Sequences, FiniteSets

CONSTANTS
  Buttons,         (* menu_, exit_ and switch_, in the order they are read *)
  Passes,          (* milliseconds between two polls                       *)
  Clock,           (* values of millis(): 2^32 on the board                *)
  Debounce,        (* app::kButtonDebounceMs                               *)
  EncoderDebounce, (* app::kEncoderDebounceMs                              *)
  LongPress,       (* app::kLongPressMs                                    *)
  Quiet,           (* app::kRotaryQuietMs                                  *)
  MaxPending,      (* app::kRotaryMaxPending                               *)
  QueueSize        (* InputManager::kQueueSize                             *)

(* No pass takes so long that the clock goes once around, and the queue    *)
(* has room for an event of every button and one of the wheel.             *)
ASSUME InputAssumption ==
  /\ {Clock, LongPress, Quiet, MaxPending, QueueSize} \subseteq Nat \ {0}
  /\ {Debounce, EncoderDebounce} \subseteq Nat
  /\ Passes \subseteq 1..(Clock - 1)
  /\ \A p \in Passes : \A ms \in {Debounce, EncoderDebounce, LongPress, Quiet} : p + ms < Clock
  /\ DOMAIN Buttons = 1..Len(Buttons) /\ Len(Buttons) \in 0..(QueueSize - 1)

VARIABLES
  now,       (* millis()                                                   *)
  buttons,   (* menu_, exit_, switch_                                      *)
  wheel,     (* encoder_a_, encoder_b_, pulse_, coalescer_                 *)
  queue,     (* queue_                                                     *)
  seen       (* history: what the user has been told, and true ages        *)

inputVars == <<now, buttons, wheel, queue, seen>>

Capped(n, most) == IF n > most THEN most ELSE n

(* A plausible slip: the time something is due is computed, and wraps.     *)
PassedAt(t, since, ms) == t >= (since + ms) % Clock
(* Unsigned differences of millis().                                       *)
Passed(t, since, ms) == (t - since) % Clock >= ms

(* Debouncer::update()                                                     *)
Debounced(d, raw, t, ms) ==
  IF raw # d.candidate THEN [d EXCEPT !.candidate = raw, !.since = t]
  ELSE IF d.candidate # d.stable /\ Passed(t, d.since, ms) THEN [d EXCEPT !.stable = raw]
  ELSE d
Line(raw) == [stable |-> raw, candidate |-> raw, since |-> 0]

(* Button::update(): the button after, and its event.                      *)
Holds(b, t) == b.pressed /\ ~b.reported /\ Passed(t, b.from, LongPress)
Button(b, raw, t) ==
  LET d == Debounced(b.line, raw, t, Debounce)
      n == [b EXCEPT !.line = d]
  IN IF d.stable # b.line.stable /\ d.stable /\ ~b.pressed
     THEN [to |-> [n EXCEPT !.pressed = TRUE, !.from = t, !.reported = FALSE], event |-> "down"]
     ELSE IF d.stable # b.line.stable /\ ~d.stable /\ b.pressed
     THEN [to |-> [n EXCEPT !.pressed = FALSE], event |-> IF b.reported THEN "up" ELSE "click"]
     ELSE IF Holds(b, t)
     THEN [to |-> [n EXCEPT !.reported = TRUE], event |-> "long"]
     ELSE [to |-> n, event |-> "none"]

(* PulseDecoder::update(): a line that falls is a step its way.            *)
Steps(a, b) == (IF b.stable /\ ~wheel.b.stable THEN 1 ELSE 0)
               - (IF a.stable /\ ~wheel.a.stable THEN 1 ELSE 0)

(* RotaryCoalescer: add(), ready(), take()                                 *)
Pending(step) == IF step * wheel.pending < 0 THEN step ELSE wheel.pending + step
Ready(pending, last, t) ==
  /\ pending # 0
  /\ pending >= MaxPending \/ pending <= -MaxPending \/ Passed(t, last, Quiet)

(* Those of a list of events that happened, in its order.                  *)
NthOf(places, n) == CHOOSE i \in places : Cardinality({j \in places : j < i}) = n
Happened(events) ==
  LET places == {i \in DOMAIN events : events[i].action # "none"}
  IN [n \in 1..Cardinality(places) |-> events[NthOf(places, n - 1)]]

(* push(), of several: the oldest go when there is no room.               *)
Push(q, events) ==
  LET all == q \o events
  IN IF Len(all) > QueueSize THEN SubSeq(all, Len(all) - QueueSize + 1, Len(all)) ELSE all

(* poll(), after ms milliseconds, with pins as they are then.              *)
Poll(ms, pins, lineA, lineB) ==
  LET t    == (now + ms) % Clock
      new  == [i \in DOMAIN Buttons |-> Button(buttons[i], pins[i], t)]
      a    == Debounced(wheel.a, lineA, t, EncoderDebounce)
      b    == Debounced(wheel.b, lineB, t, EncoderDebounce)
      step == Steps(a, b)
      sum  == Pending(step)
      last == IF step = 0 THEN wheel.last ELSE t
      take == Ready(sum, last, t)
      presses == [i \in DOMAIN Buttons |-> [source |-> i, action |-> new[i].event, delta |-> 0]]
      rotates == [source |-> 0, action |-> IF take THEN "rotate" ELSE "none", delta |-> sum]
      events  == Happened(Append(presses, rotates))
  IN /\ queue = <<>>
     /\ now' = t
     /\ buttons' = [i \in DOMAIN Buttons |-> new[i].to]
     /\ wheel' = [a |-> a, b |-> b, pending |-> IF take THEN 0 ELSE sum, last |-> last]
     /\ queue' = Push(queue, events)
     /\ seen' = [held  |-> [i \in DOMAIN Buttons |-> Capped(seen.held[i] + ms, LongPress)],
                 told  |-> seen.told,
                 still |-> IF step = 0 THEN Capped(seen.still + ms, Quiet) ELSE 0]

(* What a button may be told after what; "long" once it has been down for  *)
(* long enough.                                                            *)
Answers(told, action, held) ==
  CASE told = "none" /\ action = "down" -> "down"
    [] told = "down" /\ action = "click" -> "none"
    [] told = "down" /\ action = "long" /\ held = LongPress -> "long"
    [] told \in {"long", "boot"} /\ action = "up" -> "none"
    [] OTHER -> "wrong"

(* loop() hands the event to HandleEvent().                                *)
NextEvent ==
  LET e == Head(queue)
  IN /\ queue # <<>>
     /\ queue' = Tail(queue)
     /\ seen' = IF e.source = 0 THEN seen
                ELSE [seen EXCEPT !.told[e.source] = Answers(@, e.action, seen.held[e.source]),
                                  !.held[e.source] = IF e.action = "down" THEN 0 ELSE @]
     /\ UNCHANGED <<now, buttons, wheel>>

(* begin(): a button that is down already reports no long press.           *)
InputInit ==
  \E pins \in [DOMAIN Buttons -> BOOLEAN] :
    /\ now \in 0..(Clock - 1)
    /\ buttons = [i \in DOMAIN Buttons |->
                    [line |-> Line(pins[i]), pressed |-> pins[i], reported |-> pins[i], from |-> 0]]
    /\ wheel = [a |-> Line(FALSE), b |-> Line(FALSE), pending |-> 0, last |-> 0]
    /\ queue = <<>>
    /\ seen = [told |-> [i \in DOMAIN Buttons |-> IF pins[i] THEN "boot" ELSE "none"],
               held |-> [i \in DOMAIN Buttons |-> 0], still |-> 0]

InputNext ==
  \/ \E ms \in Passes, pins \in [DOMAIN Buttons -> BOOLEAN], lineA, lineB \in BOOLEAN :
       Poll(ms, pins, lineA, lineB)
  \/ NextEvent

InputSpec == InputInit /\ [][InputNext]_inputVars

------------------------------------------------------------------------------
(* Properties                                                              *)

(* Once the events are handled, and for any time loop() took and wherever  *)
(* millis() stands: each press has been told once and in order, "down" and *)
(* then one of "click" and, not before its time and not a poll later,      *)
(* "long" with an "up"; a button that was down at the start only its "up"; *)
(* and steps of the wheel wait only for more of them, and not for long.    *)
InputAnswered ==
  queue = <<>> =>
    /\ \A i \in DOMAIN Buttons :
         /\ seen.told[i] # "wrong"
         /\ seen.told[i] = "none" <=> ~buttons[i].line.stable
         /\ seen.told[i] = "down" => seen.held[i] < LongPress
    /\ \/ wheel.pending = 0
       \/ wheel.pending \in (1 - MaxPending)..(MaxPending - 1) /\ seen.still < Quiet

(* debouncer.h says of kLongPress: "reported once, while still held".      *)
LongPressHeld ==
  \A i \in DOMAIN queue : queue[i].action = "long" => buttons[queue[i].source].line.candidate
==============================================================================
