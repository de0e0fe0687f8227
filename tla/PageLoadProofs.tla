--------------------------- MODULE PageLoadProofs --------------------------
(***************************************************************************)
(* For every number of calls, loads, frames and nested events:             *)
(*                                                                         *)
(* The callback of page.open is called at most once: a callback that holds *)
(* the slot has not been called (SlotUntold), the emission calls only the  *)
(* callback in the slot, and the call empties it.                          *)
(*                                                                         *)
(* A callback given to an idle page is told of its own load: until that    *)
(* load ends no end is queued or being told, and the end it queues is the  *)
(* first to be told (WaitsForOwn).                                         *)
(*                                                                         *)
(* The current frame is reset in time: before a document can be replaced,  *)
(* switchToMainFrame has been queued, unless the script chose the frame    *)
(* after it ran (SwitchOnItsWay).                                          *)
(***************************************************************************)
EXTENDS PageLoad, SequenceTheorems, TLAPS

Telling  == [status : Statuses, nested : BOOLEAN]
Opened   == [outcome : Statuses \cup {"loading", "refused"},
             told : Seq(Telling), idle : BOOLEAN]
Emission == [ok : BOOLEAN, to : Nat]
Event    == {SwitchEvent, FinishEvent(TRUE), FinishEvent(FALSE)}

Sequences == /\ opens \in Seq(Opened)
             /\ emitting \in Seq(Emission)
             /\ queue \in Seq(Event)

\* The callback in the slot has not been called, and no other more than once.
SlotUntold ==
    \A o \in 1..Len(opens) :
        Len(opens[o].told) <= 1 /\ (slot = o => opens[o].told = <<>>)

IInv == TypeOK /\ Sequences /\ SlotUntold

\* While a load is under way that will replace the document, and as long as a
\* deleted frame is the current one, switchToMainFrame is still queued.
SwitchOnItsWay ==
    Usable /\ current # Main /\ (frames[current] = "deleted" \/ load.state = "provisional")
        => unsafe \/ Switching

\* A call of open is loading exactly while the load in progress is its own.
LoadOfCall ==
    \A o \in 1..Len(opens) : opens[o].outcome = "loading" <=> load.of = o

\* The emissions of loadFinished are of callbacks that exist.
Emissions == \A k \in 1..Len(emitting) : emitting[k].to \in 0..Len(opens)

\* No end of a load is queued in q.
Quiet(q) == \A i \in 1..Len(q) : q[i] = SwitchEvent

\* The first end of a load in q has this status.
NextTells(q, status) ==
    \E i \in 1..Len(q) :
        /\ q[i] # SwitchEvent /\ Status(q[i].ok) = status
        /\ \A j \in 1..i - 1 : q[j] = SwitchEvent

\* None of the emissions em is about to call the callback of o ...
Untouched(em, o) == \A k \in 1..Len(em) : em[k].to # o

\* ... or the outermost that is tells this status.
FirstTells(em, o, status) ==
    \E k \in 1..Len(em) :
        /\ em[k].to = o /\ Status(em[k].ok) = status
        /\ \A j \in 1..k - 1 : em[j].to # o

\* The callback of a call o on an idle page, as long as it has the slot: nothing
\* ends before its own load, and the first end is that of its load.
Waits(o, call, q, em) ==
    call.idle =>
        /\ call.outcome = "loading" => Quiet(q) /\ Untouched(em, o)
        /\ call.outcome \in Statuses =>
               \/ Untouched(em, o) /\ NextTells(q, call.outcome)
               \/ FirstTells(em, o, call.outcome)

WaitsForOwn == slot # 0 => Waits(slot, opens[slot], queue, emitting)

\* What such callbacks were told.
TellingsRight ==
    \A o \in 1..Len(opens) :
        opens[o].idle /\ opens[o].told # <<>> =>
            /\ opens[o].outcome # "loading"
            /\ opens[o].outcome \in Statuses =>
                   opens[o].told[1].nested \/ opens[o].told[1].status = opens[o].outcome

OwnLoad == LoadOfCall /\ Emissions /\ WaitsForOwn /\ TellingsRight

LInv == IInv /\ SwitchOnItsWay /\ OwnLoad

-----------------------------------------------------------------------------
(* Helpers of the model *)

\* The end of a load changes outcomes only.
LEMMA SettledKeeps ==
    ASSUME opens \in Seq(Opened), NEW ok \in BOOLEAN
    PROVE  /\ Settled(ok) \in Seq(Opened)
           /\ Len(Settled(ok)) = Len(opens)
           /\ \A o \in 1..Len(opens) : Settled(ok)[o].told = opens[o].told
<1> DEFINE n == Len(opens)
<1>1. /\ n \in Nat /\ DOMAIN opens = 1..n
      /\ \A o \in 1..n : opens[o] \in Opened
  OBVIOUS
<1>2. \A o \in 1..n : [opens[o] EXCEPT !.outcome = Status(ok)] \in Opened
  BY <1>1 DEF Opened, Status, Statuses
<1>3. \A o \in 1..n : [opens[o] EXCEPT !.outcome = Status(ok)].told = opens[o].told
  BY <1>1 DEF Opened
<1>4. /\ Settled(ok) \in [1..n -> Opened]
      /\ \A o \in 1..n : Settled(ok)[o].told = opens[o].told
  BY <1>1, <1>2, <1>3 DEF Settled
<1>5. Settled(ok) \in Seq(Opened) /\ Len(Settled(ok)) = n
  BY <1>1, <1>4
<1> QED BY <1>4, <1>5

\* What a load queues is a sequence of events.
LEMMA EventSequences ==
    ASSUME NEW ok \in BOOLEAN
    PROVE  /\ EndOfLoad(ok) \in Seq(Event)
           /\ StartEvents \in Seq(Event)
           /\ <<FinishEvent(ok)>> \in Seq(Event)
<1>1. FinishEvent(ok) \in Event /\ SwitchEvent \in Event
  BY DEF Event
<1>2. <<FinishEvent(ok)>> \in Seq(Event) /\ <<SwitchEvent>> \in Seq(Event)
  BY <1>1
<1>3. <<>> \in Seq(Event)
  OBVIOUS
<1> QED BY <1>2, <1>3 DEF EndOfLoad, StartEvents

\* A new document replaces the child frames by deleted ones.
LEMMA ReplacedTyped ==
    ASSUME frames \in [Frames -> {"unborn", "alive", "deleted"}]
    PROVE  Replaced \in [Frames -> {"unborn", "alive", "deleted"}]
BY DEF Replaced

\* Calls that are told nothing new leave the invariant of the slot alone.
LEMMA UntoldKept ==
    ASSUME SlotUntold,
           Len(opens') = Len(opens), slot' \in {slot, 0}, opens \in Seq(Opened),
           \A o \in 1..Len(opens) : opens'[o].told = opens[o].told
    PROVE  SlotUntold'
<1> SUFFICES ASSUME NEW o \in 1..Len(opens)
             PROVE  Len(opens'[o].told) <= 1 /\ (slot' = o => opens'[o].told = <<>>)
  BY DEF SlotUntold
<1>1. Len(opens) \in Nat /\ o # 0
  OBVIOUS
<1> QED BY <1>1 DEF SlotUntold

\* The type of the calls of open follows from that of their sequence.
LEMMA OutcomesTyped ==
    ASSUME opens \in Seq(Opened)
    PROVE  \A o \in DOMAIN opens :
               opens[o].outcome \in Statuses \cup {"loading", "refused"}
<1>1. \A o \in DOMAIN opens : opens[o] \in Opened
  OBVIOUS
<1> QED BY <1>1 DEF Opened

-----------------------------------------------------------------------------
(* One lemma per kind of action *)

\* Initially there is no call of open.
LEMMA InitIInv == Init => IInv
<1> SUFFICES ASSUME Init PROVE IInv
  OBVIOUS
<1>1. /\ opens = <<>> /\ emitting = <<>> /\ queue = <<>>
      /\ slot = 0 /\ load = NoLoad
  BY DEF Init
<1>2. Sequences
  BY <1>1 DEF Sequences
<1>3. Len(opens) = 0 /\ Len(emitting) = 0 /\ DOMAIN opens = {}
  BY <1>1
<1>4. SlotUntold
  BY <1>3 DEF SlotUntold
<1>5. load \in [state : {"none", "provisional", "committed"}, of : 0..MaxOpens]
      /\ load.of = 0
  BY <1>1, PageLoadAssumption DEF NoLoad, PageLoadAssumption
<1>6. TypeOK
  <2>1. frames \in [Frames -> {"unborn", "alive", "deleted"}]
    BY DEF Init
  <2>2. slot \in 0..Len(opens) /\ load.of <= Len(opens) /\ Len(opens) <= MaxOpens
        /\ Len(emitting) <= MaxDepth /\ loads \in 0..MaxLoads
    BY <1>1, <1>3, <1>5, PageLoadAssumption DEF Init, PageLoadAssumption
  <2> QED BY <1>3, <1>5, <2>1, <2>2 DEF Init, TypeOK
<1> QED BY <1>2, <1>4, <1>6 DEF IInv

\* Steps that leave the calls of open, the slot, the emissions and the queue alone.
LEMMA FrameStep ==
    ASSUME IInv, UNCHANGED <<queue, emitting, slot, opens>>,
           page' \in {"open", "closing", "deleted", "crashed"},
           load' = load \/ load' = [load EXCEPT !.state = "committed"],
           frames' \in [Frames -> {"unborn", "alive", "deleted"}],
           current' \in Frames \cup {Main}, unsafe' \in BOOLEAN, loads' = loads
    PROVE  IInv'
<1>1. load' \in [state : {"none", "provisional", "committed"}, of : 0..MaxOpens]
      /\ load'.of = load.of
  BY DEF IInv, TypeOK
<1>2. TypeOK'
  BY <1>1 DEF IInv, TypeOK
<1> QED BY <1>2 DEF IInv, Sequences, SlotUntold

\* Steps in which the load in progress ends, and another may begin.
LEMMA EndingStep ==
    ASSUME IInv, NEW ok \in BOOLEAN, opens' = Settled(ok), queue' \in Seq(Event),
           slot' \in {slot, 0}, page' \in {"open", "closing", "deleted", "crashed"},
           load'.of = 0,
           load' \in [state : {"none", "provisional", "committed"}, of : 0..MaxOpens],
           frames' \in [Frames -> {"unborn", "alive", "deleted"}],
           current' \in Frames \cup {Main}, unsafe' = unsafe, loads' \in 0..MaxLoads,
           emitting' \in {emitting, <<>>}
    PROVE  IInv'
<1>1. /\ opens \in Seq(Opened) /\ emitting \in Seq(Emission)
      /\ Len(emitting) <= MaxDepth /\ slot \in 0..Len(opens) /\ Len(opens) <= MaxOpens
  BY DEF IInv, Sequences, TypeOK
<1>2. /\ opens' \in Seq(Opened) /\ Len(opens') = Len(opens)
      /\ \A o \in 1..Len(opens) : opens'[o].told = opens[o].told
  BY <1>1, SettledKeeps
<1>3. SlotUntold'
  BY <1>1, <1>2, UntoldKept DEF IInv
<1>4. emitting' \in Seq(Emission) /\ Len(emitting') <= MaxDepth
  <2>1. CASE emitting' = emitting
    BY <1>1, <2>1
  <2>2. CASE emitting' = <<>>
    <3>1. Len(emitting') = 0 /\ emitting' \in Seq(Emission)
      BY <2>2, EmptySeq
    <3> QED BY <3>1, PageLoadAssumption DEF PageLoadAssumption
  <2> QED BY <2>1, <2>2
<1>5. \A o \in DOMAIN opens' :
          opens'[o].outcome \in Statuses \cup {"loading", "refused"}
  <2>1. \A o \in DOMAIN opens' : opens'[o] \in Opened
    BY <1>2
  <2> QED BY <2>1 DEF Opened
<1>6. slot' \in 0..Len(opens') /\ load'.of <= Len(opens') /\ Len(opens') <= MaxOpens
  BY <1>1, <1>2
<1>7. TypeOK'
  BY <1>4, <1>5, <1>6 DEF IInv, TypeOK
<1> QED BY <1>2, <1>3, <1>4, <1>7 DEF IInv, Sequences

\* The start of a page.open: its callback has not been told anything yet.
LEMMA OpenStep ==
    ASSUME IInv, NEW how \in {"load", "blank", "refused"}, NEW callback \in BOOLEAN,
           Open(how, callback)
    PROVE  IInv'
<1> DEFINE n == Len(opens)
<1>1. /\ opens \in Seq(Opened) /\ queue \in Seq(Event) /\ n \in Nat
      /\ slot \in 0..n /\ n < MaxOpens /\ MaxOpens \in Nat
  BY PageLoadAssumption
     DEF IInv, Sequences, TypeOK, Open, PageLoadAssumption
<1>2. /\ Settled(FALSE) \in Seq(Opened) /\ Len(Settled(FALSE)) = n
      /\ \A o \in 1..n : Settled(FALSE)[o].told = opens[o].told
  BY <1>1, SettledKeeps
<1>3. PICK call \in Opened : call.told = <<>> /\ opens' = Append(Settled(FALSE), call)
  <2> DEFINE call == [outcome |-> CASE how = "load" -> "loading"
                                    [] how = "blank" -> "success"
                                    [] how = "refused" -> "refused",
                      told |-> <<>>, idle |-> Idle]
  <2>1. call.outcome \in Statuses \cup {"loading", "refused"}
    BY DEF Statuses
  <2>2. <<>> \in Seq(Telling) /\ Idle \in BOOLEAN
    BY DEF Idle
  <2>3. call \in Opened
    BY <2>1, <2>2 DEF Opened
  <2>4. opens' = Append(Settled(FALSE), call)
    BY DEF Open
  <2> QED BY <2>3, <2>4
<1>4. /\ opens' \in Seq(Opened) /\ Len(opens') = n + 1
      /\ opens'[n + 1] = call
      /\ \A o \in 1..n : opens'[o] = Settled(FALSE)[o]
  <2> DEFINE t == Settled(FALSE)
  <2>1. /\ call \in Opened /\ t \in Seq(Opened) /\ Len(t) = n
        /\ opens' = Append(t, call)
    BY <1>2, <1>3
  <2> HIDE DEF t
  <2>2. opens' \in Seq(Opened) /\ Len(opens') = n + 1 /\ opens'[n + 1] = call
        /\ \A o \in 1..n : opens'[o] = t[o]
    BY <2>1, AppendProperties
  <2> QED BY <2>2 DEF t
<1>5. slot' \in {slot, n + 1}
  BY DEF Open
<1>6. SlotUntold'
  <2> SUFFICES ASSUME NEW o \in 1..n + 1
               PROVE  Len(opens'[o].told) <= 1 /\ (slot' = o => opens'[o].told = <<>>)
    BY <1>4 DEF SlotUntold
  <2>1. CASE o = n + 1
    <3>1. opens'[o].told = <<>>
      BY <1>3, <1>4, <2>1
    <3> QED BY <3>1
  <2>2. CASE o \in 1..n
    <3>1. opens'[o].told = opens[o].told /\ (slot' = o => slot = o)
      <4>1. o # n + 1
        BY <1>1, <2>2
      <4> QED BY <1>2, <1>4, <1>5, <2>2, <4>1
    <3> QED BY <2>2, <3>1 DEF IInv, SlotUntold
  <2> QED BY <1>1, <2>1, <2>2
<1>7. queue' \in Seq(Event)
  <2>1. /\ StopEvents \in Seq(Event) /\ StartEvents \in Seq(Event)
        /\ <<FinishEvent(TRUE)>> \in Seq(Event) /\ <<>> \in Seq(Event)
    <3>1. EndOfLoad(FALSE) \in Seq(Event) /\ StartEvents \in Seq(Event)
      BY EventSequences
    <3>2. <<FinishEvent(TRUE)>> \in Seq(Event)
      BY EventSequences
    <3> QED BY <3>1, <3>2, EmptySeq DEF StopEvents
  <2>2. PICK q \in Seq(Event) : queue' = queue \o StopEvents \o q
    <3>1. CASE how = "load"
      BY <2>1, <3>1 DEF Open
    <3>2. CASE how = "blank"
      <4>1. StartEvents \o <<FinishEvent(TRUE)>> \in Seq(Event)
        BY <2>1, ConcatProperties
      <4> QED BY <3>2, <4>1 DEF Open
    <3>3. CASE how = "refused"
      BY <2>1, <3>3 DEF Open
    <3> QED BY <3>1, <3>2, <3>3
  <2> QED BY <1>1, <2>1, <2>2
<1>8. load' \in [state : {"none", "provisional", "committed"}, of : 0..MaxOpens]
      /\ load'.of <= n + 1
  BY <1>1 DEF Open, NoLoad
<1>9. \A o \in DOMAIN opens' :
          opens'[o].outcome \in Statuses \cup {"loading", "refused"}
  <2>1. \A o \in DOMAIN opens' : opens'[o] \in Opened
    BY <1>4
  <2> QED BY <2>1 DEF Opened
<1>10. frames' \in [Frames -> {"unborn", "alive", "deleted"}]
  BY ReplacedTyped DEF Open, IInv, TypeOK
<1>11. TypeOK'
  <2>1. slot' \in 0..Len(opens') /\ load'.of <= Len(opens') /\ Len(opens') <= MaxOpens
    BY <1>1, <1>4, <1>5, <1>8
  <2> QED BY <1>8, <1>9, <1>10, <2>1 DEF Open, IInv, TypeOK
<1>12. emitting' \in Seq(Emission)
  BY DEF Open, IInv, Sequences
<1> QED BY <1>4, <1>6, <1>7, <1>11, <1>12 DEF IInv, Sequences

\* loadFinished begins: the slot is copied, not emptied.
LEMMA DeliverFinishStep == IInv /\ DeliverFinish => IInv'
<1> SUFFICES ASSUME IInv, DeliverFinish PROVE IInv'
  OBVIOUS
<1> DEFINE e == [ok |-> Head(queue).ok, to |-> slot]
<1>1. /\ queue \in Seq(Event) /\ queue # <<>> /\ emitting \in Seq(Emission)
      /\ slot \in 0..Len(opens) /\ Len(opens) \in Nat
      /\ Len(emitting) < MaxDepth /\ MaxDepth \in Nat
  BY PageLoadAssumption
     DEF IInv, Sequences, TypeOK, DeliverFinish, PageLoadAssumption
<1>2. Head(queue) \in Event /\ Tail(queue) \in Seq(Event)
  BY <1>1
<1>3. Head(queue).ok \in BOOLEAN
  <2>1. Head(queue).kind = "finish"
    BY DEF DeliverFinish
  <2>2. Head(queue) # SwitchEvent
    BY <2>1 DEF SwitchEvent
  <2>3. FinishEvent(TRUE).ok = TRUE /\ FinishEvent(FALSE).ok = FALSE
    BY DEF FinishEvent
  <2> QED BY <1>2, <2>2, <2>3 DEF Event
<1>4. e \in Emission
  BY <1>1, <1>3 DEF Emission
<1>5. emitting' \in Seq(Emission) /\ Len(emitting') <= MaxDepth
  BY <1>1, <1>4 DEF DeliverFinish
<1>6. TypeOK' /\ SlotUntold'
  BY <1>5 DEF DeliverFinish, IInv, TypeOK, SlotUntold
<1> QED BY <1>2, <1>5, <1>6 DEF DeliverFinish, IInv, Sequences

\* loadFinished ends: the callback in the slot is told, and the slot emptied.
LEMMA CallBackStep == IInv /\ CallBack => IInv'
<1> SUFFICES ASSUME IInv, CallBack PROVE IInv'
  OBVIOUS
<1> DEFINE e == Last(emitting)
           telling == [status |-> Status(e.ok), nested |-> Len(emitting) > 1]
           told == Append(opens[slot].told, telling)
<1>1. /\ opens \in Seq(Opened) /\ emitting \in Seq(Emission) /\ emitting # <<>>
      /\ Len(opens) \in Nat /\ slot \in 0..Len(opens)
      /\ Len(emitting) \in Nat /\ Len(emitting) <= MaxDepth /\ MaxDepth \in Nat
  BY PageLoadAssumption
     DEF IInv, Sequences, TypeOK, CallBack, PageLoadAssumption
<1>2. emitting' \in Seq(Emission) /\ Len(emitting') <= MaxDepth
  <2>1. emitting' = SubSeq(emitting, 1, Len(emitting) - 1)
    BY DEF CallBack, Front
  <2>2. Len(emitting) >= 1
    BY <1>1
  <2> QED BY <1>1, <2>1, <2>2
<1>3. CASE Connected(e)
  <2>1. /\ slot # 0 /\ slot' = 0
        /\ opens' = [opens EXCEPT ![slot].told = Append(@, telling)]
    BY <1>3 DEF CallBack, Connected, Cleared
  <2>2. slot \in 1..Len(opens) /\ opens[slot] \in Opened /\ opens[slot].told = <<>>
    BY <1>1, <2>1 DEF IInv, SlotUntold
  <2>3. telling \in Telling
    BY DEF Telling, Status, Statuses
  <2>4. told = <<telling>> /\ told \in Seq(Telling) /\ Len(told) = 1
    BY <2>2, <2>3
  <2>5. [opens[slot] EXCEPT !.told = told] \in Opened
    BY <2>2, <2>4 DEF Opened
  <2>6. opens' = [opens EXCEPT ![slot] = [opens[slot] EXCEPT !.told = told]]
    BY <2>1
  <2>7. /\ opens' \in Seq(Opened) /\ Len(opens') = Len(opens)
        /\ DOMAIN opens' = 1..Len(opens)
        /\ opens'[slot] = [opens[slot] EXCEPT !.told = told]
        /\ \A o \in 1..Len(opens) : o # slot => opens'[o] = opens[o]
    BY <1>1, <2>2, <2>5, <2>6
  <2>8. opens'[slot].told = told
    BY <2>2, <2>7 DEF Opened
  <2>9. SlotUntold'
    <3> SUFFICES ASSUME NEW o \in 1..Len(opens)
                 PROVE  Len(opens'[o].told) <= 1
                        /\ (slot' = o => opens'[o].told = <<>>)
      BY <2>7 DEF SlotUntold
    <3>1. slot' # o
      BY <1>1, <2>1
    <3>2. Len(opens'[o].told) <= 1
      <4>1. CASE o = slot
        BY <2>4, <2>8, <4>1
      <4>2. CASE o # slot
        BY <2>7, <4>2 DEF IInv, SlotUntold
      <4> QED BY <4>1, <4>2
    <3> QED BY <3>1, <3>2
  <2>10. \A o \in DOMAIN opens' :
             opens'[o].outcome \in Statuses \cup {"loading", "refused"}
    <3>1. \A o \in DOMAIN opens' : opens'[o] \in Opened
      BY <2>7
    <3> QED BY <3>1 DEF Opened
  <2>11. TypeOK'
    BY <1>1, <1>2, <2>1, <2>7, <2>10 DEF CallBack, IInv, TypeOK
  <2> QED BY <1>2, <2>7, <2>9, <2>11 DEF CallBack, IInv, Sequences
<1>4. CASE ~Connected(e)
  <2>1. UNCHANGED <<slot, opens>>
    BY <1>4 DEF CallBack
  <2>2. TypeOK' /\ SlotUntold'
    BY <1>2, <2>1 DEF CallBack, IInv, TypeOK, SlotUntold
  <2> QED BY <1>2, <2>1, <2>2 DEF CallBack, IInv, Sequences
<1> QED BY <1>3, <1>4

\* A deleted page ends its load and tells nobody.
LEMMA DeleteStep == IInv /\ Delete => IInv'
<1> SUFFICES ASSUME IInv, Delete PROVE IInv'
  OBVIOUS
<1>1. queue' \in Seq(Event)
  BY EmptySeq DEF Delete
<1>2. load'.of = 0
      /\ load' \in [state : {"none", "provisional", "committed"}, of : 0..MaxOpens]
  BY PageLoadAssumption DEF Delete, NoLoad, PageLoadAssumption
<1>3. frames' \in [Frames -> {"unborn", "alive", "deleted"}]
  BY ReplacedTyped DEF Delete, IInv, TypeOK
<1>4. loads' \in 0..MaxLoads
  BY DEF Delete, IInv, TypeOK
<1>5. opens' = Settled(FALSE) /\ slot' = 0 /\ emitting' = <<>> /\ page' = "deleted"
      /\ current' = Main /\ unsafe' = unsafe
  BY DEF Delete
<1> QED BY <1>1, <1>2, <1>3, <1>4, <1>5, EndingStep

\* Loads that end, are stopped, or give way to another that is no page.open.
LEMMA LoadStep ==
    IInv /\ (Stop \/ Navigate \/ SetContent \/ \E ok \in BOOLEAN : EndLoad(ok)) => IInv'
<1> DEFINE Loads == [state : {"none", "provisional", "committed"}, of : 0..MaxOpens]
<1>1. 0 \in 0..MaxOpens
  BY PageLoadAssumption DEF PageLoadAssumption
<1>2. ASSUME IInv, NEW ok \in BOOLEAN,
             opens' = Settled(ok), load' = NoLoad, queue' = queue \o EndOfLoad(ok),
             UNCHANGED <<page, frames, current, unsafe, emitting, slot, loads>>
      PROVE  IInv'
  <2>1. queue' \in Seq(Event)
    BY <1>2, EventSequences, ConcatProperties DEF IInv, Sequences
  <2>2. load' \in Loads /\ load'.of = 0
    BY <1>1, <1>2 DEF NoLoad
  <2>3. /\ page' \in {"open", "closing", "deleted", "crashed"}
        /\ frames' \in [Frames -> {"unborn", "alive", "deleted"}]
        /\ current' \in Frames \cup {Main} /\ loads' \in 0..MaxLoads
    BY <1>2 DEF IInv, TypeOK
  <2> QED BY <1>2, <2>1, <2>2, <2>3, EndingStep
<1>3. ASSUME IInv, NEW state \in {"provisional", "committed"}, OtherLoad(state)
      PROVE  IInv'
  <2>1. EndOfLoad(FALSE) \in Seq(Event) /\ StartEvents \in Seq(Event)
    BY EventSequences
  <2>2. queue' = queue \o EndOfLoad(FALSE) \o StartEvents
    BY <1>3 DEF OtherLoad, StopEvents
  <2>3. queue \o EndOfLoad(FALSE) \in Seq(Event)
    BY <1>3, <2>1, ConcatProperties DEF IInv, Sequences
  <2>4. queue' \in Seq(Event)
    BY <2>1, <2>2, <2>3, ConcatProperties
  <2>5. load' \in Loads /\ load'.of = 0
    BY <1>1, <1>3 DEF OtherLoad
  <2>6. frames' \in [Frames -> {"unborn", "alive", "deleted"}]
    BY <1>3, ReplacedTyped DEF OtherLoad, IInv, TypeOK
  <2>7. loads' \in 0..MaxLoads
    BY <1>3, PageLoadAssumption DEF OtherLoad, IInv, TypeOK, PageLoadAssumption
  <2>8. /\ page' \in {"open", "closing", "deleted", "crashed"}
        /\ current' \in Frames \cup {Main} /\ opens' = Settled(FALSE)
        /\ unsafe' = unsafe /\ slot' = slot /\ emitting' = emitting
    BY <1>3 DEF OtherLoad, IInv, TypeOK
  <2> QED BY <2>4, <2>5, <2>6, <2>7, <2>8, EndingStep, <1>3
<1>4. ASSUME IInv, Stop PROVE IInv'
  BY <1>2, <1>4 DEF Stop, StopEvents
<1>5. ASSUME IInv, NEW ok \in BOOLEAN, EndLoad(ok) PROVE IInv'
  BY <1>2, <1>5 DEF EndLoad
<1> QED BY <1>3, <1>4, <1>5 DEF Navigate, SetContent

\* switchToMainFrame is taken from the queue.
LEMMA DeliverSwitchStep == IInv /\ DeliverSwitch => IInv'
<1> SUFFICES ASSUME IInv, DeliverSwitch PROVE IInv'
  OBVIOUS
<1>1. queue' \in Seq(Event)
  BY DEF IInv, Sequences, DeliverSwitch
<1>2. TypeOK' /\ SlotUntold'
  BY DEF IInv, TypeOK, SlotUntold, DeliverSwitch
<1> QED BY <1>1, <1>2 DEF IInv, Sequences, DeliverSwitch

\* The frame functions, the page's own frames, commits, close and its crash.
LEMMA FrameSteps ==
    ASSUME IInv,
           \/ SwitchToParentFrame \/ SwitchToMainFrame \/ Close \/ UseDeletedFrame
           \/ Commit
           \/ \E f \in Frames : \/ SwitchToFrame(f) \/ SwitchToFocusedFrame(f)
                                \/ CreateFrame(f) \/ RemoveFrame(f)
    PROVE  IInv'
<1> USE FrameStep
<1>1. CASE Close \/ UseDeletedFrame
  BY <1>1 DEF Close, UseDeletedFrame, IInv, TypeOK
<1>2. CASE Commit
  BY <1>2, ReplacedTyped DEF Commit, IInv, TypeOK
<1>3. ASSUME NEW f \in Frames \cup {Main}, ChangeCurrentFrame(f), Usable
      PROVE  IInv'
  BY <1>3 DEF ChangeCurrentFrame, OnItsWayOut, IInv, TypeOK
<1>4. CASE SwitchToParentFrame \/ SwitchToMainFrame
  BY <1>3, <1>4 DEF SwitchToParentFrame, SwitchToMainFrame
<1>5. ASSUME NEW f \in Frames, SwitchToFrame(f) \/ SwitchToFocusedFrame(f)
      PROVE  IInv'
  BY <1>3, <1>5 DEF SwitchToFrame, SwitchToFocusedFrame
<1>6. ASSUME NEW f \in Frames, CreateFrame(f) \/ RemoveFrame(f) PROVE IInv'
  BY <1>6 DEF CreateFrame, RemoveFrame, IInv, TypeOK
<1> QED BY <1>1, <1>2, <1>4, <1>5, <1>6

-----------------------------------------------------------------------------
(* Types and the slot: theorems *)

\* Every step preserves the invariant.
LEMMA NextIInv == IInv /\ [Next]_vars => IInv'
<1> SUFFICES ASSUME IInv, [Next]_vars PROVE IInv'
  OBVIOUS
<1>1. CASE Script
  BY <1>1, OpenStep, LoadStep, FrameSteps DEF Script
<1>2. CASE WebKit
  BY <1>2, LoadStep, FrameSteps DEF WebKit
<1>3. CASE EventLoop
  BY <1>3, DeliverSwitchStep, DeliverFinishStep, DeleteStep, CallBackStep
     DEF EventLoop
<1>4. CASE UNCHANGED vars
  BY <1>4 DEF vars, IInv, TypeOK, Sequences, SlotUntold
<1> QED BY <1>1, <1>2, <1>3, <1>4 DEF Next

\* The callback in the slot of a page has never been called, whatever loads,
\* frames and nested events do.
THEOREM Invariance == Spec => []IInv
<1> QED BY InitIInv, NextIInv, PTL DEF Spec

\* Every variable keeps its type: no slot and no load of a call that was not made.
THEOREM TypeCorrect == Spec => []TypeOK
<1>1. IInv => TypeOK
  BY DEF IInv
<1> QED BY <1>1, Invariance, PTL

\* The callback of a page.open runs at most once (webpage.js page.open).
THEOREM CalledOnceHolds == Spec => []CalledOnce
<1>1. IInv => CalledOnce
  BY DEF IInv, Sequences, SlotUntold, CalledOnce
<1> QED BY <1>1, Invariance, PTL

-----------------------------------------------------------------------------
(* What is told, and the current frame: queues *)

LEMMA EventsDiffer == /\ \A ok \in BOOLEAN : FinishEvent(ok) # SwitchEvent
                      /\ \A e \in Event : e.kind = "finish" <=> e # SwitchEvent
BY DEF FinishEvent, SwitchEvent, Event

\* Events that are posted come after those that wait.
LEMMA Longer ==
    ASSUME NEW q \in Seq(Event), NEW r \in Seq(Event)
    PROVE  /\ q \o r \in Seq(Event)
           /\ Contains(q, SwitchEvent) \/ Contains(r, SwitchEvent)
                  => Contains(q \o r, SwitchEvent)
           /\ Quiet(q) /\ Quiet(r) => Quiet(q \o r)
           /\ \A s : NextTells(q, s) => NextTells(q \o r, s)
           /\ \A s : Quiet(q) /\ NextTells(r, s) => NextTells(q \o r, s)
<1> DEFINE c == q \o r
           n == Len(q)
<1>1. /\ c \in Seq(Event) /\ Len(c) = n + Len(r) /\ n \in Nat /\ Len(r) \in Nat
      /\ \A i \in 1..Len(c) : c[i] = IF i <= n THEN q[i] ELSE r[i - n]
  BY ConcatProperties
<1> HIDE DEF c
<1>2. \A i \in 1..n : i \in 1..Len(c) /\ c[i] = q[i]
  BY <1>1
<1>3. ASSUME NEW i \in 1..Len(r) PROVE n + i \in 1..Len(c) /\ c[n + i] = r[i]
  <2>1. n + i \in 1..Len(c) /\ ~(n + i <= n) /\ (n + i) - n = i
    BY <1>1
  <2> QED BY <1>1, <2>1
<1>4. \A i \in 1..Len(c) : i \in 1..n \/ \E j \in 1..Len(r) : i = n + j
  <2> SUFFICES ASSUME NEW i \in 1..Len(c), i \notin 1..n
               PROVE  \E j \in 1..Len(r) : i = n + j
    OBVIOUS
  <2>1. i - n \in 1..Len(r) /\ i = n + (i - n)
    BY <1>1
  <2> QED BY <2>1
<1>5. Contains(q, SwitchEvent) \/ Contains(r, SwitchEvent) => Contains(c, SwitchEvent)
  BY <1>2, <1>3 DEF Contains
<1>6. Quiet(q) /\ Quiet(r) => Quiet(c)
  BY <1>2, <1>3, <1>4 DEF Quiet
<1>7. ASSUME NEW s, NextTells(q, s) PROVE NextTells(c, s)
  <2>1. PICK i \in 1..n : /\ q[i] # SwitchEvent /\ Status(q[i].ok) = s
                          /\ \A j \in 1..i - 1 : q[j] = SwitchEvent
    BY <1>7 DEF NextTells
  <2>2. \A j \in 1..i - 1 : j \in 1..n
    BY <1>1
  <2> QED BY <1>2, <2>1, <2>2 DEF NextTells
<1>8. ASSUME NEW s, Quiet(q), NextTells(r, s) PROVE NextTells(c, s)
  <2>1. PICK i \in 1..Len(r) : /\ r[i] # SwitchEvent /\ Status(r[i].ok) = s
                               /\ \A j \in 1..i - 1 : r[j] = SwitchEvent
    BY <1>8 DEF NextTells
  <2>2. n + i \in 1..Len(c) /\ c[n + i] = r[i]
    BY <1>3
  <2>3. ASSUME NEW j \in 1..(n + i) - 1 PROVE c[j] = SwitchEvent
    <3>1. CASE j \in 1..n
      BY <1>2, <1>8, <3>1 DEF Quiet
    <3>2. CASE j \notin 1..n
      <4>1. j - n \in 1..Len(r) /\ j = n + (j - n) /\ j - n \in 1..i - 1
        BY <1>1, <3>2
      <4>2. c[n + (j - n)] = r[j - n]
        BY <1>3, <4>1
      <4> QED BY <2>1, <4>1, <4>2
    <3> QED BY <3>1, <3>2
  <2> QED BY <2>1, <2>2, <2>3 DEF NextTells
<1> QED BY <1>1, <1>5, <1>6, <1>7, <1>8 DEF c

\* The first event is taken out.
LEMMA Shorter ==
    ASSUME NEW q \in Seq(Event), q # <<>>
    PROVE  /\ Tail(q) \in Seq(Event) /\ Head(q) \in Event
           /\ Head(q) = SwitchEvent =>
                  /\ Quiet(q) => Quiet(Tail(q))
                  /\ \A s : NextTells(q, s) => NextTells(Tail(q), s)
           /\ Head(q) # SwitchEvent =>
                  /\ ~Quiet(q)
                  /\ \A s : NextTells(q, s) => Status(Head(q).ok) = s
                  /\ Contains(q, SwitchEvent) => Contains(Tail(q), SwitchEvent)
<1> DEFINE t == Tail(q)
<1>1. /\ t \in Seq(Event) /\ Len(q) \in Nat /\ Len(q) > 0 /\ Len(t) = Len(q) - 1
      /\ Head(q) = q[1] /\ Head(q) \in Event
      /\ \A i \in 1..Len(t) : t[i] = q[i + 1]
  BY EmptySeq, HeadTailProperties
<1> HIDE DEF t
<1>2. \A i \in 2..Len(q) : i - 1 \in 1..Len(t) /\ t[i - 1] = q[i]
  BY <1>1
<1>3. Quiet(q) => Quiet(t)
  BY <1>1 DEF Quiet
<1>4. ASSUME NEW s, NextTells(q, s), Head(q) = SwitchEvent PROVE NextTells(t, s)
  <2>1. PICK i \in 1..Len(q) : /\ q[i] # SwitchEvent /\ Status(q[i].ok) = s
                               /\ \A j \in 1..i - 1 : q[j] = SwitchEvent
    BY <1>4 DEF NextTells
  <2>2. i \in 2..Len(q)
    BY <1>1, <1>4, <2>1
  <2>3. i - 1 \in 1..Len(t) /\ t[i - 1] = q[i]
    BY <1>2, <2>2
  <2>4. \A j \in 1..(i - 1) - 1 : t[j] = SwitchEvent
    <3> SUFFICES ASSUME NEW j \in 1..(i - 1) - 1 PROVE t[j] = SwitchEvent
      OBVIOUS
    <3>1. j \in 1..Len(t) /\ j + 1 \in 1..i - 1
      BY <1>1, <2>2
    <3> QED BY <1>1, <2>1, <3>1
  <2> QED BY <2>1, <2>3, <2>4 DEF NextTells
<1>5. ASSUME Head(q) # SwitchEvent
      PROVE  /\ ~Quiet(q) /\ \A s : NextTells(q, s) => Status(Head(q).ok) = s
             /\ Contains(q, SwitchEvent) => Contains(t, SwitchEvent)
  <2>1. 1 \in 1..Len(q) /\ q[1] # SwitchEvent
    BY <1>1, <1>5
  <2>2. ASSUME NEW s, NextTells(q, s) PROVE Status(Head(q).ok) = s
    <3>1. PICK i \in 1..Len(q) : /\ q[i] # SwitchEvent /\ Status(q[i].ok) = s
                                 /\ \A j \in 1..i - 1 : q[j] = SwitchEvent
      BY <2>2 DEF NextTells
    <3>2. i = 1
      <4>1. i > 1 => 1 \in 1..i - 1
        BY <1>1
      <4> QED BY <1>1, <2>1, <3>1, <4>1
    <3> QED BY <1>1, <3>1, <3>2
  <2>3. ASSUME Contains(q, SwitchEvent) PROVE Contains(t, SwitchEvent)
    <3>1. PICK i \in 1..Len(q) : q[i] = SwitchEvent
      BY <2>3 DEF Contains
    <3>2. i \in 2..Len(q)
      BY <1>1, <2>1, <3>1
    <3> QED BY <1>2, <3>1, <3>2 DEF Contains
  <2> QED BY <2>1, <2>2, <2>3 DEF Quiet
<1> QED BY <1>1, <1>3, <1>4, <1>5 DEF t

\* What a start and an end put into the queue.
LEMMA Pieces ==
    ASSUME NEW ok \in BOOLEAN
    PROVE  /\ StartEvents \in Seq(Event) /\ <<>> \in Seq(Event)
           /\ EndOfLoad(ok) \in Seq(Event) /\ <<FinishEvent(ok)>> \in Seq(Event)
           /\ Quiet(StartEvents) /\ Quiet(<<>>) /\ Contains(StartEvents, SwitchEvent)
           /\ NextTells(<<FinishEvent(ok)>>, Status(ok))
           /\ load # NoLoad => NextTells(EndOfLoad(ok), Status(ok))
<1>1. Quiet(StartEvents) /\ Quiet(<<>>) /\ Contains(StartEvents, SwitchEvent)
  BY DEF Quiet, StartEvents, Contains
<1>2. NextTells(<<FinishEvent(ok)>>, Status(ok))
  <2> DEFINE q == <<FinishEvent(ok)>>
  <2>1. Len(q) = 1 /\ q[1] = FinishEvent(ok) /\ FinishEvent(ok).ok = ok
    BY DEF FinishEvent
  <2> HIDE DEF q
  <2>2. 1 \in 1..Len(q) /\ q[1] # SwitchEvent /\ Status(q[1].ok) = Status(ok)
        /\ \A j \in 1..1 - 1 : q[j] = SwitchEvent
    BY <2>1, EventsDiffer
  <2>3. NextTells(q, Status(ok))
    BY <2>2 DEF NextTells
  <2> QED BY <2>3 DEF q
<1>3. load # NoLoad => NextTells(EndOfLoad(ok), Status(ok))
  BY <1>2 DEF EndOfLoad
<1> QED BY <1>1, <1>2, <1>3, EventSequences, EmptySeq

LEMMA FinishingIs == queue \in Seq(Event) => (~Finishing <=> Quiet(queue))
<1> SUFFICES ASSUME queue \in Seq(Event) PROVE ~Finishing <=> Quiet(queue)
  OBVIOUS
<1>1. \A i \in 1..Len(queue) : queue[i] \in Event
  OBVIOUS
<1> QED BY <1>1, EventsDiffer DEF Finishing, Quiet, Contains, Event

-----------------------------------------------------------------------------
(* What is told, and the current frame: actions *)

LEMMA Typed ==
    ASSUME IInv
    PROVE  /\ opens \in Seq(Opened) /\ emitting \in Seq(Emission) /\ queue \in Seq(Event)
           /\ Len(opens) \in Nat /\ Len(emitting) \in Nat
           /\ slot \in 0..Len(opens) /\ load.of \in 0..Len(opens)
           /\ \A o \in 1..Len(opens) : opens[o] \in Opened
<1>1. /\ opens \in Seq(Opened) /\ emitting \in Seq(Emission) /\ queue \in Seq(Event)
      /\ slot \in 0..Len(opens)
  BY DEF IInv, Sequences, TypeOK
<1>2. load.of \in 0..MaxOpens /\ load.of <= Len(opens)
  BY DEF IInv, TypeOK
<1> QED BY <1>1, <1>2, PageLoadAssumption DEF PageLoadAssumption

\* The end of a load settles the call it belongs to.
LEMMA SettledIs ==
    ASSUME IInv, LoadOfCall, NEW ok \in BOOLEAN, NEW o \in 1..Len(opens)
    PROVE  /\ Settled(ok)[o].idle = opens[o].idle /\ Settled(ok)[o].told = opens[o].told
           /\ Settled(ok)[o].outcome =
                  IF opens[o].outcome = "loading" THEN Status(ok) ELSE opens[o].outcome
           /\ Settled(ok)[o].outcome # "loading"
           /\ opens[o].outcome = "loading" => load # NoLoad
<1>1. opens[o] \in Opened /\ DOMAIN opens = 1..Len(opens) /\ o # 0
  BY Typed
<1>2. load.of = o => load # NoLoad
  BY <1>1 DEF NoLoad
<1>3. opens[o].outcome = "loading" <=> load.of = o
  BY DEF LoadOfCall
<1>4. Settled(ok)[o] = IF opens[o].outcome = "loading"
                         THEN [opens[o] EXCEPT !.outcome = Status(ok)] ELSE opens[o]
  BY <1>1, <1>2, <1>3 DEF Settled
<1>5. Status(ok) # "loading"
  BY DEF Status
<1> QED BY <1>1, <1>2, <1>3, <1>4, <1>5 DEF Opened

\* Events that are posted later do not change what the first end tells.
LEMMA WaitsLonger ==
    ASSUME NEW o, NEW call, NEW em, NEW q \in Seq(Event), NEW r \in Seq(Event),
           Waits(o, call, q, em), call.outcome # "loading"
    PROVE  Waits(o, call, q \o r, em)
BY Longer DEF Waits

\* The load in progress ends, and its call, if it is one, is settled.
LEMMA LoadEnds ==
    ASSUME IInv, OwnLoad, NEW ok \in BOOLEAN
    PROVE  LET ops == Settled(ok)
               q == queue \o EndOfLoad(ok)
           IN  /\ q \in Seq(Event) /\ Len(ops) = Len(opens)
               /\ slot # 0 => Waits(slot, ops[slot], q, emitting)
               /\ \A o \in 1..Len(opens) :
                      /\ ops[o].outcome # "loading"
                      /\ ops[o].idle /\ ops[o].told # <<>> /\ ops[o].outcome \in Statuses
                             => \/ ops[o].told[1].nested
                                \/ ops[o].told[1].status = ops[o].outcome
<1> DEFINE ops == Settled(ok)
           q == queue \o EndOfLoad(ok)
<1>1. /\ EndOfLoad(ok) \in Seq(Event) /\ queue \in Seq(Event)
      /\ load # NoLoad => NextTells(EndOfLoad(ok), Status(ok))
  BY Pieces, Typed
<1>2. /\ q \in Seq(Event)
      /\ \A s : NextTells(queue, s) => NextTells(q, s)
      /\ \A s : Quiet(queue) /\ NextTells(EndOfLoad(ok), s) => NextTells(q, s)
  BY <1>1, Longer
<1>3. Len(ops) = Len(opens)
  BY SettledKeeps, Typed
<1>4. \A o \in 1..Len(opens) :
          /\ ops[o].idle = opens[o].idle /\ ops[o].told = opens[o].told
          /\ ops[o].outcome =
                 IF opens[o].outcome = "loading" THEN Status(ok) ELSE opens[o].outcome
          /\ ops[o].outcome # "loading"
          /\ opens[o].outcome = "loading" => load # NoLoad
  BY SettledIs DEF OwnLoad
<1> HIDE DEF ops, q
<1>5. ASSUME slot # 0 PROVE Waits(slot, ops[slot], q, emitting)
  <2>1. slot \in 1..Len(opens) /\ Waits(slot, opens[slot], queue, emitting)
    BY <1>5, Typed DEF OwnLoad, WaitsForOwn
  <2>2. CASE opens[slot].outcome = "loading"
    <3>1. ops[slot].idle => NextTells(q, Status(ok)) /\ Untouched(emitting, slot)
      BY <1>1, <1>2, <1>4, <2>1, <2>2 DEF Waits
    <3>2. ops[slot].outcome = Status(ok) /\ ops[slot].outcome # "loading"
      BY <1>4, <2>1, <2>2
    <3> QED BY <3>1, <3>2 DEF Waits
  <2>3. CASE opens[slot].outcome # "loading"
    <3>1. ops[slot].outcome = opens[slot].outcome /\ ops[slot].idle = opens[slot].idle
      BY <1>4, <2>1, <2>3
    <3> QED BY <1>2, <2>1, <2>3, <3>1 DEF Waits
  <2> QED BY <2>2, <2>3
<1>6. \A o \in 1..Len(opens) :
          /\ ops[o].outcome # "loading"
          /\ ops[o].idle /\ ops[o].told # <<>> /\ ops[o].outcome \in Statuses
                 => ops[o].told[1].nested \/ ops[o].told[1].status = ops[o].outcome
  BY <1>4 DEF OwnLoad, TellingsRight
<1> QED BY <1>2, <1>3, <1>5, <1>6 DEF ops, q

\* Steps in which the load in progress ends, and another may begin.
LEMMA EndingTold ==
    ASSUME IInv, OwnLoad, NEW ok \in BOOLEAN, NEW r \in Seq(Event),
           opens' = Settled(ok), queue' = (queue \o EndOfLoad(ok)) \o r,
           load'.of = 0, UNCHANGED <<slot, emitting>>
    PROVE  OwnLoad'
<1> DEFINE q == queue \o EndOfLoad(ok)
<1>1. /\ q \in Seq(Event) /\ Len(opens') = Len(opens)
      /\ slot # 0 => Waits(slot, opens'[slot], q, emitting)
      /\ \A o \in 1..Len(opens) :
             /\ opens'[o].outcome # "loading"
             /\ opens'[o].idle /\ opens'[o].told # <<>> /\ opens'[o].outcome \in Statuses
                    => \/ opens'[o].told[1].nested
                       \/ opens'[o].told[1].status = opens'[o].outcome
  BY LoadEnds
<1>2. queue' = q \o r
  OBVIOUS
<1> HIDE DEF q
<1>3. LoadOfCall' /\ TellingsRight'
  <2>1. \A o \in 1..Len(opens) : o # 0
    BY Typed
  <2> QED BY <1>1, <2>1 DEF LoadOfCall, TellingsRight
<1>4. Emissions'
  BY <1>1 DEF OwnLoad, Emissions
<1>5. WaitsForOwn'
  <2> SUFFICES ASSUME slot # 0 PROVE Waits(slot, opens'[slot], q \o r, emitting)
    BY <1>2 DEF WaitsForOwn
  <2>1. slot \in 1..Len(opens)
    BY Typed
  <2> QED BY <1>1, <2>1, WaitsLonger
<1> QED BY <1>3, <1>4, <1>5 DEF OwnLoad

\* ... and what becomes of the current frame.
LEMMA EndingSwitch ==
    ASSUME IInv, SwitchOnItsWay, NEW ok \in BOOLEAN, NEW r \in Seq(Event),
           queue' = (queue \o EndOfLoad(ok)) \o r, UNCHANGED <<page, current, unsafe>>,
           \/ Contains(r, SwitchEvent)
           \/ frames' = frames /\ load' = NoLoad
    PROVE  SwitchOnItsWay'
<1>1. queue \in Seq(Event) /\ EndOfLoad(ok) \in Seq(Event)
  BY Typed, Pieces
<1>2. /\ queue \o EndOfLoad(ok) \in Seq(Event)
      /\ Contains(queue, SwitchEvent) => Contains(queue \o EndOfLoad(ok), SwitchEvent)
  BY <1>1, Longer
<1>3. Switching \/ Contains(r, SwitchEvent) => Switching'
  BY <1>2, Longer DEF Switching
<1> QED BY <1>3 DEF SwitchOnItsWay, Usable, NoLoad

\* A call of open: it takes the slot, or leaves it to the one that has it.
LEMMA OpenTold ==
    ASSUME LInv, NEW how \in {"load", "blank", "refused"}, NEW callback \in BOOLEAN,
           Open(how, callback)
    PROVE  OwnLoad' /\ SwitchOnItsWay'
<1> DEFINE n == Len(opens)
           ops == Settled(FALSE)
           q == queue \o EndOfLoad(FALSE)
           call == [outcome |-> CASE how = "load" -> "loading"
                                  [] how = "blank" -> "success"
                                  [] how = "refused" -> "refused",
                    told |-> <<>>, idle |-> Idle]
           r == CASE how = "load" -> StartEvents
                  [] how = "blank" -> StartEvents \o <<FinishEvent(TRUE)>>
                  [] how = "refused" -> <<>>
<1>1. /\ slot' = IF callback THEN n + 1 ELSE slot
      /\ opens' = Append(ops, call)
      /\ load' = IF how = "load" THEN [state |-> "provisional", of |-> n + 1] ELSE NoLoad
      /\ frames' = IF how = "blank" THEN Replaced ELSE frames
      /\ queue' = q \o r
      /\ UNCHANGED <<page, current, unsafe, emitting, loads>>
  BY DEF Open, StopEvents
<1>2. /\ IInv /\ OwnLoad /\ SwitchOnItsWay /\ n \in Nat /\ slot \in 0..n
      /\ emitting \in Seq(Emission) /\ queue \in Seq(Event) /\ opens \in Seq(Opened)
  BY Typed DEF LInv
<1>3. /\ q \in Seq(Event) /\ Len(ops) = n
      /\ slot # 0 => Waits(slot, ops[slot], q, emitting)
      /\ \A o \in 1..n :
             /\ ops[o].outcome # "loading"
             /\ ops[o].idle /\ ops[o].told # <<>> /\ ops[o].outcome \in Statuses
                    => \/ ops[o].told[1].nested
                       \/ ops[o].told[1].status = ops[o].outcome
  BY <1>2, LoadEnds
<1>4. call.told = <<>> /\ call.idle = Idle /\ ops \in Seq(Opened)
  BY <1>2, SettledKeeps
<1>5. /\ how = "load" => call.outcome = "loading"
      /\ how = "blank" => call.outcome = "success"
      /\ how = "refused" => call.outcome = "refused"
  OBVIOUS
<1>6. /\ r \in Seq(Event)
      /\ how # "refused" => Contains(r, SwitchEvent)
      /\ how = "load" => Quiet(r)
      /\ how = "blank" => NextTells(r, "success")
  <2>1. /\ StartEvents \in Seq(Event) /\ <<FinishEvent(TRUE)>> \in Seq(Event)
        /\ <<>> \in Seq(Event)
        /\ Quiet(StartEvents) /\ Contains(StartEvents, SwitchEvent)
        /\ NextTells(<<FinishEvent(TRUE)>>, "success")
    BY Pieces DEF Status
  <2>2. /\ StartEvents \o <<FinishEvent(TRUE)>> \in Seq(Event)
        /\ Contains(StartEvents \o <<FinishEvent(TRUE)>>, SwitchEvent)
        /\ NextTells(StartEvents \o <<FinishEvent(TRUE)>>, "success")
    BY <2>1, Longer
  <2>3. CASE how = "load"
    BY <2>1, <2>3
  <2>4. CASE how = "blank"
    BY <2>2, <2>4
  <2>5. CASE how = "refused"
    BY <2>1, <2>5
  <2> QED BY <2>3, <2>4, <2>5
<1> HIDE DEF ops, q, r, call
<1>7. /\ Len(opens') = n + 1 /\ opens'[n + 1] = call
      /\ \A o \in 1..n : opens'[o] = ops[o]
  <2>1. call \in Opened
    BY <1>5, <1>4, EmptySeq DEF call, Opened, Statuses, Idle
  <2> QED BY <1>1, <1>2, <1>3, <1>4, <2>1, AppendProperties
<1>8. LoadOfCall'
  <2>1. load'.of = IF how = "load" THEN n + 1 ELSE 0
    BY <1>1 DEF NoLoad
  <2>2. ASSUME NEW o \in 1..n + 1 PROVE opens'[o].outcome = "loading" <=> load'.of = o
    <3>1. CASE o = n + 1
      BY <1>2, <1>5, <1>7, <2>1, <3>1
    <3>2. CASE o \in 1..n
      BY <1>2, <1>3, <1>7, <2>1, <3>2
    <3> QED BY <1>2, <3>1, <3>2
  <2> QED BY <1>7, <2>2 DEF LoadOfCall
<1>9. Emissions'
  BY <1>1, <1>2, <1>7 DEF OwnLoad, Emissions
<1>10. TellingsRight'
  <2> SUFFICES ASSUME NEW o \in 1..n + 1, opens'[o].told # <<>>, opens'[o].idle
               PROVE  /\ opens'[o].outcome # "loading"
                      /\ opens'[o].outcome \in Statuses =>
                             \/ opens'[o].told[1].nested
                             \/ opens'[o].told[1].status = opens'[o].outcome
    BY <1>7 DEF TellingsRight
  <2>1. o \in 1..n
    BY <1>2, <1>4, <1>7
  <2> QED BY <1>3, <1>7, <2>1
<1>11. WaitsForOwn'
  <2>1. CASE slot' = n + 1
    <3>1. ASSUME Idle PROVE Quiet(q) /\ Untouched(emitting, n + 1)
      <4>1. Quiet(queue) /\ EndOfLoad(FALSE) = <<>>
        BY <1>2, <3>1, FinishingIs DEF Idle, EndOfLoad
      <4>2. Quiet(q)
        BY <1>2, <4>1, Longer, Pieces DEF q
      <4>3. Untouched(emitting, n + 1)
        BY <1>2 DEF OwnLoad, Emissions, Untouched
      <4> QED BY <4>2, <4>3
    <3>2. Waits(n + 1, call, q \o r, emitting)
      <4> SUFFICES ASSUME Idle PROVE Waits(n + 1, call, q \o r, emitting)
        BY <1>4 DEF Waits
      <4>1. CASE how = "load"
        BY <1>3, <1>5, <1>6, <3>1, <4>1, Longer DEF Waits, Statuses
      <4>2. CASE how = "blank"
        BY <1>3, <1>5, <1>6, <3>1, <4>2, Longer DEF Waits, Statuses
      <4>3. CASE how = "refused"
        BY <1>5, <4>3 DEF Waits, Statuses
      <4> QED BY <4>1, <4>2, <4>3
    <3> QED BY <1>1, <1>7, <2>1, <3>2 DEF WaitsForOwn
  <2>2. CASE slot' = slot
    <3> SUFFICES ASSUME slot # 0 PROVE Waits(slot, ops[slot], q \o r, emitting)
      BY <1>1, <1>2, <1>7, <2>2 DEF WaitsForOwn
    <3>1. slot \in 1..n
      BY <1>2
    <3> QED BY <1>3, <1>6, <3>1, WaitsLonger
  <2> QED BY <1>1, <2>1, <2>2
<1>12. SwitchOnItsWay'
  <2>1. (frames' = frames /\ load' = NoLoad) \/ Contains(r, SwitchEvent)
    BY <1>1, <1>6
  <2>2. queue' = (queue \o EndOfLoad(FALSE)) \o r
    BY <1>1 DEF q
  <2> QED BY <1>1, <1>2, <1>6, <2>1, <2>2, EndingSwitch
<1> QED BY <1>8, <1>9, <1>10, <1>11, <1>12 DEF OwnLoad

\* Loads that end, are stopped, or give way to another that is no page.open.
LEMMA LoadTold ==
    ASSUME LInv, Stop \/ Navigate \/ SetContent \/ \E ok \in BOOLEAN : EndLoad(ok)
    PROVE  OwnLoad' /\ SwitchOnItsWay'
<1>1. IInv /\ OwnLoad /\ SwitchOnItsWay /\ queue \in Seq(Event)
  BY Typed DEF LInv
<1>2. ASSUME NEW ok \in BOOLEAN, opens' = Settled(ok), load' = NoLoad,
             queue' = queue \o EndOfLoad(ok),
             UNCHANGED <<page, frames, current, unsafe, emitting, slot>>
      PROVE  OwnLoad' /\ SwitchOnItsWay'
  <2>1. EndOfLoad(ok) \in Seq(Event) /\ <<>> \in Seq(Event)
    BY Pieces
  <2>2. queue \o EndOfLoad(ok) \in Seq(Event)
    BY <1>1, <2>1, Longer
  <2>3. queue' = (queue \o EndOfLoad(ok)) \o <<>>
    BY <1>2, <2>2, ConcatEmptySeq
  <2>4. load'.of = 0
    BY <1>2 DEF NoLoad
  <2> QED BY <1>1, <1>2, <2>1, <2>3, <2>4, EndingTold, EndingSwitch
<1>3. ASSUME NEW state, OtherLoad(state) PROVE OwnLoad' /\ SwitchOnItsWay'
  <2>1. /\ opens' = Settled(FALSE) /\ load'.of = 0
        /\ queue' = (queue \o EndOfLoad(FALSE)) \o StartEvents
        /\ UNCHANGED <<page, current, unsafe, emitting, slot>>
    BY <1>3 DEF OtherLoad, StopEvents
  <2>2. StartEvents \in Seq(Event) /\ Contains(StartEvents, SwitchEvent)
    BY Pieces
  <2> QED BY <1>1, <2>1, <2>2, EndingTold, EndingSwitch
<1>4. CASE Stop
  BY <1>2, <1>4 DEF Stop, StopEvents
<1>5. CASE \E ok \in BOOLEAN : EndLoad(ok)
  BY <1>2, <1>5 DEF EndLoad
<1> QED BY <1>3, <1>4, <1>5 DEF Navigate, SetContent

\* Steps that leave the queue and the calls of open alone.
LEMMA OwnLoadKept ==
    ASSUME OwnLoad, UNCHANGED <<queue, emitting, slot, opens>>, load'.of = load.of
    PROVE  OwnLoad'
BY DEF OwnLoad, LoadOfCall, Emissions, WaitsForOwn, Waits, Quiet, NextTells,
       Untouched, FirstTells, TellingsRight

\* The frame functions, the page's own frames, commits, close and its crash.
LEMMA FramesTold ==
    ASSUME LInv,
           \/ SwitchToParentFrame \/ SwitchToMainFrame \/ Close \/ UseDeletedFrame
           \/ Commit
           \/ \E f \in Frames : \/ SwitchToFrame(f) \/ SwitchToFocusedFrame(f)
                                \/ CreateFrame(f) \/ RemoveFrame(f)
    PROVE  OwnLoad' /\ SwitchOnItsWay'
<1>1. /\ OwnLoad /\ SwitchOnItsWay /\ Main \notin Frames
      /\ frames \in [Frames -> {"unborn", "alive", "deleted"}]
      /\ current \in Frames \cup {Main}
      /\ load \in [state : {"none", "provisional", "committed"}, of : 0..MaxOpens]
  BY PageLoadAssumption DEF LInv, IInv, TypeOK, PageLoadAssumption
<1>2. CASE Close \/ UseDeletedFrame
  <2>1. UNCHANGED <<load, frames, current, unsafe, queue, emitting, slot, opens>>
        /\ (Usable' => Usable)
    BY <1>2 DEF Close, UseDeletedFrame, Usable
  <2> QED BY <1>1, <2>1, OwnLoadKept DEF SwitchOnItsWay, Switching, Contains
<1>3. CASE Commit
  <2>1. /\ UNCHANGED <<page, current, unsafe, queue, emitting, slot, opens>>
        /\ load.state = "provisional" /\ load'.of = load.of /\ load'.state = "committed"
        /\ Usable
    BY <1>1, <1>3 DEF Commit
  <2> QED BY <1>1, <2>1, OwnLoadKept DEF SwitchOnItsWay, Switching, Contains
<1>4. ASSUME NEW f \in Frames \cup {Main}, ChangeCurrentFrame(f), Usable,
             f = Main \/ frames[f] = "alive"
      PROVE  OwnLoad' /\ SwitchOnItsWay'
  <2>1. /\ UNCHANGED <<page, load, frames, queue, emitting, slot, opens>>
        /\ current' = f /\ unsafe' = (f # Main /\ OnItsWayOut)
    BY <1>4 DEF ChangeCurrentFrame
  <2>2. Switching' = Switching
    BY <2>1 DEF Switching
  <2> QED BY <1>1, <1>4, <2>1, <2>2, OwnLoadKept DEF SwitchOnItsWay, OnItsWayOut
<1>5. CASE SwitchToParentFrame \/ SwitchToMainFrame
  BY <1>4, <1>5 DEF SwitchToParentFrame, SwitchToMainFrame
<1>6. ASSUME NEW f \in Frames, SwitchToFrame(f) \/ SwitchToFocusedFrame(f)
      PROVE  OwnLoad' /\ SwitchOnItsWay'
  BY <1>4, <1>6 DEF SwitchToFrame, SwitchToFocusedFrame
<1>7. ASSUME NEW f \in Frames, CreateFrame(f) \/ RemoveFrame(f)
      PROVE  OwnLoad' /\ SwitchOnItsWay'
  <2>1. /\ UNCHANGED <<page, load, current, queue, emitting, slot, opens>>
        /\ \/ frames' = [frames EXCEPT ![f] = "alive"] /\ unsafe' = unsafe
           \/ frames' = [frames EXCEPT ![f] = "deleted"] /\ unsafe' = (unsafe \/ f = current)
    BY <1>7 DEF CreateFrame, RemoveFrame
  <2>2. Switching' = Switching /\ Usable' = Usable
    BY <2>1 DEF Switching, Usable
  <2>3. current # f /\ current # Main => frames'[current] = frames[current]
    BY <1>1, <2>1
  <2>4. SwitchOnItsWay'
    <3>1. CASE frames' = [frames EXCEPT ![f] = "alive"] /\ unsafe' = unsafe
      <4>1. frames'[f] = "alive"
        BY <1>1, <3>1
      <4> QED BY <1>1, <2>1, <2>2, <2>3, <3>1, <4>1 DEF SwitchOnItsWay
    <3>2. CASE frames' = [frames EXCEPT ![f] = "deleted"] /\ unsafe' = (unsafe \/ f = current)
      BY <1>1, <2>1, <2>2, <2>3, <3>2 DEF SwitchOnItsWay
    <3> QED BY <2>1, <3>1, <3>2
  <2> QED BY <1>1, <2>1, <2>4, OwnLoadKept
<1> QED BY <1>2, <1>3, <1>5, <1>6, <1>7

\* switchToMainFrame runs: no frame is the current one.
LEMMA SwitchTold == ASSUME LInv, DeliverSwitch PROVE OwnLoad' /\ SwitchOnItsWay'
<1>1. /\ IInv /\ OwnLoad /\ queue \in Seq(Event) /\ queue # <<>> /\ Head(queue) = SwitchEvent
      /\ queue' = Tail(queue) /\ current' = Main
      /\ UNCHANGED <<load, emitting, slot, opens>>
  BY Typed DEF LInv, DeliverSwitch
<1>2. /\ Quiet(queue) => Quiet(queue')
      /\ \A s : NextTells(queue, s) => NextTells(queue', s)
  BY <1>1, Shorter
<1>3. WaitsForOwn'
  <2> SUFFICES ASSUME slot # 0, Waits(slot, opens[slot], queue, emitting)
               PROVE  Waits(slot, opens[slot], queue', emitting)
    BY <1>1 DEF OwnLoad, WaitsForOwn
  <2> QED BY <1>2 DEF Waits
<1>4. LoadOfCall' /\ Emissions' /\ TellingsRight'
  BY <1>1 DEF OwnLoad, LoadOfCall, Emissions, TellingsRight
<1> QED BY <1>1, <1>3, <1>4 DEF OwnLoad, SwitchOnItsWay

\* loadFinished begins: if the callback waits for its own load, this is its end.
LEMMA FinishTold == ASSUME LInv, DeliverFinish PROVE OwnLoad' /\ SwitchOnItsWay'
<1> DEFINE n == Len(emitting)
           e == [ok |-> Head(queue).ok, to |-> slot]
<1>1. /\ IInv /\ OwnLoad /\ SwitchOnItsWay /\ queue \in Seq(Event) /\ queue # <<>>
      /\ Head(queue).kind = "finish" /\ queue' = Tail(queue)
      /\ emitting' = Append(emitting, e) /\ emitting \in Seq(Emission) /\ n \in Nat
      /\ slot \in 0..Len(opens)
      /\ UNCHANGED <<page, load, frames, current, unsafe, slot, opens>>
  BY Typed DEF LInv, DeliverFinish
<1>2. Head(queue) \in Event /\ Head(queue) # SwitchEvent
  BY <1>1, Shorter, EventsDiffer
<1>3. /\ ~Quiet(queue)
      /\ \A s : NextTells(queue, s) => Status(Head(queue).ok) = s
      /\ Contains(queue, SwitchEvent) => Contains(queue', SwitchEvent)
  BY <1>1, <1>2, Shorter
<1>4. e \in Emission
  <2>1. Head(queue).ok \in BOOLEAN
    <3>1. FinishEvent(TRUE).ok = TRUE /\ FinishEvent(FALSE).ok = FALSE
      BY DEF FinishEvent
    <3> QED BY <1>2, <3>1 DEF Event
  <2>2. slot \in Nat
    BY <1>1, Typed
  <2> QED BY <2>1, <2>2 DEF Emission
<1>5. e.ok = Head(queue).ok /\ e.to = slot
  OBVIOUS
<1> HIDE DEF e
<1>6. /\ Len(emitting') = n + 1 /\ emitting'[n + 1] = e
      /\ \A k \in 1..n : emitting'[k] = emitting[k]
  BY <1>1, <1>4, AppendProperties
<1>7. Emissions'
  <2> SUFFICES ASSUME NEW k \in 1..n + 1 PROVE emitting'[k].to \in 0..Len(opens)
    BY <1>1, <1>6 DEF Emissions
  <2>1. k = n + 1 \/ k \in 1..n
    BY <1>1
  <2> QED BY <1>1, <1>5, <1>6, <2>1 DEF OwnLoad, Emissions
<1>8. WaitsForOwn'
  <2> SUFFICES ASSUME slot # 0, Waits(slot, opens[slot], queue, emitting)
               PROVE  Waits(slot, opens[slot], queue', emitting')
    BY <1>1 DEF OwnLoad, WaitsForOwn
  <2>1. ASSUME Untouched(emitting, slot), NEW s, NextTells(queue, s)
        PROVE  FirstTells(emitting', slot, s)
    <3>1. Status(emitting'[n + 1].ok) = s /\ emitting'[n + 1].to = slot
      BY <1>3, <1>5, <1>6, <2>1
    <3>2. \A j \in 1..(n + 1) - 1 : emitting'[j].to # slot
      BY <1>1, <1>6, <2>1 DEF Untouched
    <3>3. n + 1 \in 1..Len(emitting')
      BY <1>1, <1>6
    <3> QED BY <3>1, <3>2, <3>3 DEF FirstTells
  <2>2. ASSUME NEW s, FirstTells(emitting, slot, s)
        PROVE  FirstTells(emitting', slot, s)
    <3>1. PICK k \in 1..n : /\ emitting[k].to = slot /\ Status(emitting[k].ok) = s
                            /\ \A j \in 1..k - 1 : emitting[j].to # slot
      BY <2>2 DEF FirstTells
    <3>2. \A j \in 1..k - 1 : j \in 1..n
      BY <1>1
    <3>3. k \in 1..Len(emitting')
      BY <1>1, <1>6
    <3> QED BY <1>6, <3>1, <3>2, <3>3 DEF FirstTells
  <2> QED BY <1>3, <2>1, <2>2 DEF Waits
<1>9. LoadOfCall' /\ TellingsRight'
  BY <1>1 DEF OwnLoad, LoadOfCall, TellingsRight
<1>10. SwitchOnItsWay'
  BY <1>1, <1>3 DEF SwitchOnItsWay, Switching, Usable
<1> QED BY <1>7, <1>8, <1>9, <1>10 DEF OwnLoad

\* loadFinished ends: the callback that still has the slot is told.
LEMMA CallTold == ASSUME LInv, CallBack PROVE OwnLoad' /\ SwitchOnItsWay'
<1> DEFINE n == Len(emitting)
           e == Last(emitting)
           telling == [status |-> Status(e.ok), nested |-> n > 1]
<1>1. /\ IInv /\ OwnLoad /\ SwitchOnItsWay /\ emitting # <<>> /\ emitting \in Seq(Emission)
      /\ n \in Nat /\ slot \in 0..Len(opens) /\ opens \in Seq(Opened) /\ Len(opens) \in Nat
      /\ emitting' = SubSeq(emitting, 1, n - 1)
      /\ UNCHANGED <<page, load, frames, current, unsafe, queue>>
  BY Typed DEF LInv, CallBack, Front
<1>2. n > 0 /\ e = emitting[n] /\ n \in 1..n
  BY <1>1, EmptySeq DEF Last
<1>3. /\ Len(emitting') = n - 1
      /\ \A k \in 1..n - 1 : emitting'[k] = emitting[k]
  <2>1. \A k \in 1..n - 1 : emitting[k] \in Emission
    BY <1>1
  <2>2. 1 \in Int /\ n - 1 \in Int /\ n - 1 >= 0
    BY <1>1, <1>2
  <2> DEFINE t == SubSeq(emitting, 1, n - 1)
  <2>3. /\ Len(t) = IF 1 <= n - 1 THEN (n - 1) - 1 + 1 ELSE 0
        /\ \A k \in 1..(n - 1) - 1 + 1 : t[k] = emitting[1 + k - 1]
    BY <2>1, <2>2, SubSeqProperties
  <2>4. Len(t) = n - 1 /\ \A k \in 1..n - 1 : t[k] = emitting[k]
    <3>1. /\ (IF 1 <= n - 1 THEN (n - 1) - 1 + 1 ELSE 0) = n - 1
          /\ (n - 1) - 1 + 1 = n - 1
          /\ \A k \in 1..n - 1 : 1 + k - 1 = k
      <4>1. n \in Nat /\ n > 0
        BY <1>1, <1>2
      <4> QED BY <4>1
    <3> QED BY <2>3, <3>1
  <2> QED BY <1>1, <2>4 DEF t
<1>4. SwitchOnItsWay'
  BY <1>1 DEF SwitchOnItsWay, Switching, Usable
<1> HIDE DEF e
<1>5. CASE Connected(e)
  <2>1. /\ slot # 0 /\ e.to = slot /\ slot' = 0 /\ slot \in 1..Len(opens)
        /\ opens' = [opens EXCEPT ![slot].told = Append(@, telling)]
    BY <1>1, <1>5 DEF CallBack, Connected, Cleared, e
  <2>2. opens[slot] \in Opened /\ opens[slot].told = <<>>
    BY <1>1, <2>1 DEF IInv, SlotUntold
  <2>3. opens' = [opens EXCEPT ![slot] = [opens[slot] EXCEPT !.told = <<telling>>]]
    BY <2>1, <2>2
  <2>4. /\ Len(opens') = Len(opens)
        /\ \A o \in 1..Len(opens) : o # slot => opens'[o] = opens[o]
        /\ opens'[slot].told = <<telling>> /\ opens'[slot].idle = opens[slot].idle
        /\ opens'[slot].outcome = opens[slot].outcome
    BY <1>1, <2>1, <2>2, <2>3 DEF Opened
  <2>5. LoadOfCall' /\ WaitsForOwn'
    BY <1>1, <2>1, <2>4 DEF OwnLoad, LoadOfCall, WaitsForOwn
  <2>6. Emissions'
    BY <1>1, <1>3, <2>4 DEF OwnLoad, Emissions
  <2>7. ASSUME opens[slot].idle
        PROVE  /\ opens[slot].outcome # "loading"
               /\ opens[slot].outcome \in Statuses =>
                      n > 1 \/ Status(e.ok) = opens[slot].outcome
    <3>1. Waits(slot, opens[slot], queue, emitting)
      BY <1>1, <2>1 DEF OwnLoad, WaitsForOwn
    <3>2. ~Untouched(emitting, slot)
      BY <1>2, <2>1 DEF Untouched
    <3>3. opens[slot].outcome \in Statuses => FirstTells(emitting, slot, opens[slot].outcome)
      BY <2>7, <3>1, <3>2 DEF Waits
    <3>4. ASSUME NEW s, FirstTells(emitting, slot, s), ~(n > 1) PROVE Status(e.ok) = s
      <4>1. PICK k \in 1..n : Status(emitting[k].ok) = s
        BY <3>4 DEF FirstTells
      <4>2. k = n
        BY <1>1, <1>2, <3>4
      <4> QED BY <1>2, <4>1, <4>2
    <3> QED BY <2>7, <3>1, <3>2, <3>3, <3>4 DEF Waits
  <2>8. TellingsRight'
    <3> SUFFICES ASSUME NEW o \in 1..Len(opens), opens'[o].idle, opens'[o].told # <<>>
                 PROVE  /\ opens'[o].outcome # "loading"
                        /\ opens'[o].outcome \in Statuses =>
                               \/ opens'[o].told[1].nested
                               \/ opens'[o].told[1].status = opens'[o].outcome
      BY <2>4 DEF TellingsRight
    <3>1. CASE o = slot
      <4>1. opens'[slot].told[1] = telling
        BY <2>4
      <4>2. telling.status = Status(e.ok) /\ telling.nested = (n > 1)
        OBVIOUS
      <4> QED BY <2>4, <2>7, <3>1, <4>1, <4>2
    <3>2. CASE o # slot
      BY <1>1, <2>4, <3>2 DEF OwnLoad, TellingsRight
    <3> QED BY <3>1, <3>2
  <2> QED BY <1>4, <2>5, <2>6, <2>8 DEF OwnLoad
<1>6. CASE ~Connected(e)
  <2>1. UNCHANGED <<slot, opens>> /\ (slot # 0 => e.to # slot)
    BY <1>6 DEF CallBack, Connected, e
  <2>2. LoadOfCall' /\ TellingsRight'
    BY <1>1, <2>1 DEF OwnLoad, LoadOfCall, TellingsRight
  <2>3. Emissions'
    BY <1>1, <1>3, <2>1 DEF OwnLoad, Emissions
  <2>4. WaitsForOwn'
    <3> SUFFICES ASSUME slot # 0, Waits(slot, opens[slot], queue, emitting)
                 PROVE  Waits(slot, opens[slot], queue, emitting')
      BY <1>1, <2>1 DEF OwnLoad, WaitsForOwn
    <3>1. Untouched(emitting, slot) => Untouched(emitting', slot)
      BY <1>1, <1>3 DEF Untouched
    <3>2. ASSUME NEW s, FirstTells(emitting, slot, s) PROVE FirstTells(emitting', slot, s)
      <4>1. PICK k \in 1..n : /\ emitting[k].to = slot /\ Status(emitting[k].ok) = s
                              /\ \A j \in 1..k - 1 : emitting[j].to # slot
        BY <3>2 DEF FirstTells
      <4>2. k # n
        BY <1>2, <2>1, <4>1
      <4>3. k \in 1..n - 1 /\ \A j \in 1..k - 1 : j \in 1..n - 1
        BY <1>1, <4>2
      <4> QED BY <1>3, <4>1, <4>3 DEF FirstTells
    <3> QED BY <3>1, <3>2 DEF Waits
  <2> QED BY <1>4, <2>2, <2>3, <2>4 DEF OwnLoad
<1> QED BY <1>5, <1>6

\* A deleted page settles the call whose load it ends, and tells nobody.
LEMMA DeleteTold == ASSUME LInv, Delete PROVE OwnLoad' /\ SwitchOnItsWay'
<1>1. /\ IInv /\ OwnLoad /\ page' = "deleted" /\ emitting' = <<>> /\ slot' = 0
      /\ load' = NoLoad /\ opens' = Settled(FALSE)
  BY DEF LInv, Delete
<1>2. /\ Len(opens') = Len(opens)
      /\ \A o \in 1..Len(opens) :
             /\ opens'[o].outcome # "loading"
             /\ opens'[o].idle /\ opens'[o].told # <<>> /\ opens'[o].outcome \in Statuses
                    => \/ opens'[o].told[1].nested
                       \/ opens'[o].told[1].status = opens'[o].outcome
  BY <1>1, LoadEnds
<1>3. LoadOfCall' /\ TellingsRight'
  <2>1. load'.of = 0 /\ \A o \in 1..Len(opens) : o # 0
    BY <1>1, Typed DEF NoLoad
  <2> QED BY <1>2, <2>1 DEF LoadOfCall, TellingsRight
<1>4. Emissions' /\ WaitsForOwn' /\ SwitchOnItsWay'
  BY <1>1 DEF Emissions, WaitsForOwn, SwitchOnItsWay, Usable
<1> QED BY <1>3, <1>4 DEF OwnLoad

-----------------------------------------------------------------------------
(* What is told, and the current frame: theorems *)

LEMMA InitTold == Init => LInv
<1> SUFFICES ASSUME Init PROVE LInv
  OBVIOUS
<1>1. opens = <<>> /\ emitting = <<>> /\ slot = 0 /\ current = Main
  BY DEF Init
<1>2. Len(opens) = 0 /\ Len(emitting) = 0
  BY <1>1
<1>3. OwnLoad /\ SwitchOnItsWay
  BY <1>1, <1>2 DEF OwnLoad, LoadOfCall, Emissions, WaitsForOwn, TellingsRight, SwitchOnItsWay
<1> QED BY <1>3, InitIInv DEF LInv

LEMMA NextTold == LInv /\ [Next]_vars => LInv'
<1> SUFFICES ASSUME LInv, [Next]_vars PROVE LInv'
  OBVIOUS
<1>1. IInv'
  BY NextIInv DEF LInv
<1>2. OwnLoad' /\ SwitchOnItsWay'
  <2>1. CASE Script
    BY <2>1, OpenTold, LoadTold, FramesTold DEF Script
  <2>2. CASE WebKit
    BY <2>2, LoadTold, FramesTold DEF WebKit
  <2>3. CASE EventLoop
    BY <2>3, SwitchTold, FinishTold, DeleteTold, CallTold DEF EventLoop
  <2>4. CASE UNCHANGED vars
    <3>1. UNCHANGED <<queue, emitting, slot, opens, load, page, frames, current, unsafe>>
      BY <2>4 DEF vars
    <3> QED BY <3>1, OwnLoadKept DEF LInv, SwitchOnItsWay, Switching, Usable
  <2> QED BY <2>1, <2>2, <2>3, <2>4 DEF Next
<1> QED BY <1>1, <1>2 DEF LInv

\* Until its load ends, no loadFinished is under way for the callback of a call
\* on an idle page, and the first one after that tells how it ended.
THEOREM LoadInvariance == Spec => []LInv
<1> QED BY InitTold, NextTold, PTL DEF Spec

\* Such a callback is told of its own load (WebPage::openUrl).
THEOREM ToldItsOwnLoadHolds == Spec => []ToldItsOwnLoad
<1>1. LInv => ToldItsOwnLoad
  <2> SUFFICES ASSUME LInv PROVE ToldItsOwnLoad
    OBVIOUS
  <2>1. DOMAIN opens = 1..Len(opens)
    BY Typed DEF LInv
  <2> QED BY <2>1 DEF LInv, OwnLoad, TellingsRight, ToldItsOwnLoad
<1> QED BY <1>1, LoadInvariance, PTL

\* A deleted frame does not stay the current one when nothing will reset it,
\* unless script or page brought that about.
THEOREM SwitchedInTimeHolds == Spec => []SwitchedInTime
<1>1. LInv => SwitchedInTime
  BY DEF LInv, SwitchOnItsWay, SwitchedInTime
<1> QED BY <1>1, LoadInvariance, PTL
=============================================================================
