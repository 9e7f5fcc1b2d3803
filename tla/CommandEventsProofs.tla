------------------------- MODULE CommandEventsProofs -------------------------
(***************************************************************************)
(* Proofs about CommandEvents and the EventHub below it, for every set of  *)
(* commands and clients, every size of ring, channel and buffer.           *)
(*                                                                         *)
(* The ring is at all times the end of the log, so what it lacks is older  *)
(* than what it has.  What an event says of the end of a job was read from *)
(* its record when the number was drawn; it stays true while the event     *)
(* waits for the mutex, because nothing but pruning changes an ended       *)
(* record.                                                                 *)
(*                                                                         *)
(* That the story of a command is told in its order rests on where the     *)
(* command is: no event is drawn before one that is told or on its way and *)
(* comes after it.  That its result is whole rests on what a drain has     *)
(* kept after each of its moves: the first bytes, of all those it handled. *)
(***************************************************************************)
EXTENDS CommandEvents, SequenceTheorems, TLAPS

Bodies ==
    [of : Commands,
     what : {"started", "finished", "cancel_requested"} \cup Channels,
     bytes : Seq(1..WriteBound), status : Ending \cup Record]

Events == [seq : Nat, body : Bodies]

Emission == [phase : {"drawn", "pushed"}, event : Events]

HubType ==
    /\ next \in Nat
    /\ ring \in Seq(Events) /\ log \in Seq(Events)
    /\ emission \in [Emitters -> {Quiet} \cup Emission]
    /\ streaming \subseteq Clients
    /\ feed \in [Clients -> Seq(Events)]

(* The ring is the end of the log.                                         *)
WindowOK ==
    /\ Len(ring) <= RingSize /\ Len(ring) <= Len(log)
    /\ Len(ring) < RingSize => Len(ring) = Len(log)
    /\ \A i \in 1..Len(ring) : ring[i] = log[Len(log) - Len(ring) + i]

(* Whatever has left the mutex has been in the ring.                       *)
LoggedOK ==
    /\ \A e \in Emitters : emission[e].phase = "pushed" =>
                             emission[e].event \in Range(log)
    /\ \A k \in Clients : Range(feed[k]) \subseteq Range(log)

HubInv == HubType /\ WindowOK /\ LoggedOK

CmdType ==
    /\ cmd \in [Commands -> Command]
    /\ child \in [Commands -> ChildState]
    /\ holders \in [Commands -> SUBSET {"child", "descendant"}]
    /\ record \in [Commands -> Record]

DrainType == drain \in [Commands -> [Channels -> Drain]]

(* A job is reported after its record has got its outcome.                 *)
RecordOK ==
    \A c \in Commands :
      cmd[c].pc = "report" => record[c] \in Outcome \cup {"pruned"}

CommandInv == CmdType /\ NobodyLeftRunning /\ RecordOK

(* An event that is told or on its way.                                    *)
IsEvent(x) ==
    \/ x \in Range(log)
    \/ \E e \in Emitters : ~IsQuiet(e) /\ emission[e].event = x

Ended == {"finished", "done", "gone"}

(* What an event says of the end of a command is so.                       *)
ToldOK(x) ==
    x.body.what = "finished" =>
      /\ cmd[x.body.of].pc \in Ended
      /\ cmd[x.body.of].kind = "job" =>
           /\ x.body.status \in Outcome
           /\ record[x.body.of] \in {x.body.status, "pruned"}

Truth == \A x \in Events : IsEvent(x) => ToldOK(x)

EventsInv == HubInv /\ CommandInv /\ DrainType /\ Truth

-----------------------------------------------------------------------------
(* The steps of the hub                                                    *)

LEMMA QuietFacts ==
    /\ Quiet.phase = "none"
    /\ \A x \in Emission : x # Quiet /\ x.phase \in {"drawn", "pushed"}
                           /\ x.event \in Events
BY DEF Quiet, Emission

LEMMA RangeOfAppend ==
    ASSUME NEW s \in Seq(Events), NEW x \in Events
    PROVE  Range(Append(s, x)) = Range(s) \cup {x}
BY AppendProperties DEF Range

LEMMA TailFacts ==
    ASSUME NEW s \in Seq(Events), s # <<>>
    PROVE  /\ Tail(s) \in Seq(Events) /\ Len(Tail(s)) = Len(s) - 1
           /\ \A i \in 1..Len(Tail(s)) : Tail(s)[i] = s[i + 1]
           /\ Range(Tail(s)) \subseteq Range(s)
<1>1. /\ Tail(s) \in Seq(Events) /\ Len(Tail(s)) = Len(s) - 1
      /\ \A i \in 1..Len(Tail(s)) : Tail(s)[i] = s[i + 1]
  OBVIOUS
<1>2. Len(s) \in Nat \ {0} /\ DOMAIN s = 1..Len(s)
      /\ DOMAIN Tail(s) = 1..Len(Tail(s))
  BY <1>1
<1> QED
  BY <1>1, <1>2 DEF Range

LEMMA DrawHub ==
    ASSUME HubInv, NEW e \in Emitters, NEW body \in Bodies, Draw(e, body)
    PROVE  HubInv'
<1> DEFINE x == [phase |-> "drawn", event |-> [seq |-> next + 1, body |-> body]]
<1>1. x \in Emission /\ next + 1 \in Nat /\ x.phase = "drawn"
  BY DEF HubInv, HubType, Emission, Events
<1>2. emission' = [emission EXCEPT ![e] = x] /\ next' = next + 1
      /\ UNCHANGED <<ring, streaming, feed, log>>
  BY DEF Draw
<1> HIDE DEF x
<1>3. HubType'
  BY <1>1, <1>2 DEF HubInv, HubType, Events, Bodies, Emission, Quiet, Channels,
                    Ending, Record, Outcome
<1>4. WindowOK'
  BY <1>2 DEF HubInv, WindowOK
<1>5. LoggedOK'
  BY <1>1, <1>2 DEF HubInv, HubType, LoggedOK
<1> QED
  BY <1>3, <1>4, <1>5 DEF HubInv

LEMMA ForgetHub ==
    ASSUME HubInv, NEW e \in Emitters, Forget(e)
    PROVE  HubInv'
<1>1. emission' = [emission EXCEPT ![e] = Quiet]
      /\ UNCHANGED <<next, ring, streaming, feed, log>>
  BY DEF Forget
<1>2. HubType'
  BY <1>1 DEF HubInv, HubType, Events, Bodies, Emission, Quiet, Channels,
              Ending, Record, Outcome
<1>3. WindowOK'
  BY <1>1 DEF HubInv, WindowOK
<1>4. LoggedOK'
  BY <1>1, QuietFacts DEF HubInv, HubType, LoggedOK
<1> QED
  BY <1>2, <1>3, <1>4 DEF HubInv

(* The window moves by one.                                                *)
LEMMA PushHub ==
    ASSUME HubInv, NEW e \in Emitters, Push(e)
    PROVE  HubInv'
<1> DEFINE x == emission[e].event
           long == Append(ring, x)
<1>1. /\ emission[e] \in Emission /\ x \in Events
      /\ ring \in Seq(Events) /\ log \in Seq(Events)
      /\ Len(ring) \in Nat /\ Len(log) \in Nat /\ RingSize \in Nat \ {0}
  BY QuietFacts, HubAssumption DEF HubInv, HubType, Push
<1>2. /\ ring' = Trimmed(long) /\ log' = Append(log, x)
      /\ emission' = [emission EXCEPT ![e].phase = "pushed"]
      /\ UNCHANGED <<next, streaming, feed>>
  BY DEF Push
<1> HIDE DEF x
<1>3. /\ long \in Seq(Events) /\ Len(long) = Len(ring) + 1 /\ long # <<>>
      /\ \A i \in 1..Len(ring) : long[i] = ring[i]
      /\ long[Len(ring) + 1] = x
  BY <1>1, AppendProperties
<1>4. /\ log' \in Seq(Events) /\ Len(log') = Len(log) + 1
      /\ \A i \in 1..Len(log) : log'[i] = log[i]
      /\ log'[Len(log) + 1] = x
      /\ Range(log') = Range(log) \cup {x}
  BY <1>1, <1>2, AppendProperties, RangeOfAppend
<1> HIDE DEF long
<1>5. /\ Tail(long) \in Seq(Events) /\ Len(Tail(long)) = Len(long) - 1
      /\ \A i \in 1..Len(Tail(long)) : Tail(long)[i] = long[i + 1]
  BY <1>3, TailFacts
<1>6. HubType'
  <2>1. ring' \in Seq(Events)
    BY <1>2, <1>3, <1>5 DEF Trimmed
  <2>2. [emission[e] EXCEPT !.phase = "pushed"] \in Emission
    BY <1>1 DEF Emission
  <2>3. emission' \in [Emitters -> {Quiet} \cup Emission]
    BY <1>2, <2>2 DEF HubInv, HubType
  <2> QED
    BY <1>2, <1>4, <2>1, <2>3
       DEF HubInv, HubType, Events, Bodies, Emission, Quiet, Channels, Ending,
           Record, Outcome
<1>7. WindowOK'
  <2>1. WindowOK /\ Len(ring) <= RingSize /\ Len(ring) <= Len(log)
    BY DEF HubInv, WindowOK
  <2>2. CASE Len(long) > RingSize
    <3>1. ring' = Tail(long) /\ Len(ring') = Len(ring) /\ Len(ring) = RingSize
      BY <1>1, <1>2, <1>3, <1>5, <2>1, <2>2 DEF Trimmed, WindowOK
    <3>2. ASSUME NEW i \in 1..Len(ring')
          PROVE  ring'[i] = log'[Len(log') - Len(ring') + i]
      <4>1. ring'[i] = long[i + 1]
        BY <1>5, <3>1
      <4>2. CASE i < Len(ring)
        <5>1. i + 1 \in 1..Len(ring)
          BY <1>1, <3>1, <4>2
        <5>2. long[i + 1] = log[Len(log) - Len(ring) + (i + 1)]
          BY <1>3, <2>1, <5>1 DEF WindowOK
        <5>3. /\ Len(log) - Len(ring) + (i + 1) \in 1..Len(log)
              /\ Len(log') - Len(ring') + i = Len(log) - Len(ring) + (i + 1)
          <6> DEFINE a == Len(log)
                     b == Len(ring)
          <6>1. a \in Nat /\ b \in Nat /\ b <= a /\ i + 1 \in 1..b
                /\ i \in Int /\ Len(log') = a + 1 /\ Len(ring') = b
            BY <1>1, <1>4, <2>1, <3>1, <5>1
          <6> HIDE DEF a, b
          <6>2. a - b + (i + 1) \in 1..a /\ (a + 1) - b + i = a - b + (i + 1)
            BY <6>1
          <6> QED
            BY <6>1, <6>2 DEF a, b
        <5> QED
          BY <1>4, <4>1, <5>2, <5>3
      <4>3. CASE i = Len(ring)
        BY <1>1, <1>3, <1>4, <3>1, <4>1, <4>3
      <4>4. i < Len(ring) \/ i = Len(ring)
        <5>1. i \in 1..Len(ring) /\ Len(ring) \in Nat
          BY <1>1, <3>1
        <5> QED
          BY <5>1
      <4> QED
        BY <4>2, <4>3, <4>4
    <3>3. /\ Len(ring') <= RingSize /\ Len(ring') <= Len(log')
          /\ ~(Len(ring') < RingSize)
      BY <1>1, <1>4, <2>1, <3>1
    <3> QED
      BY <3>2, <3>3 DEF WindowOK
  <2>3. CASE ~(Len(long) > RingSize)
    <3>1. ring' = long /\ Len(ring') = Len(ring) + 1 /\ Len(ring) = Len(log)
      BY <1>1, <1>2, <1>3, <2>1, <2>3 DEF Trimmed, WindowOK
    <3>2. ASSUME NEW i \in 1..Len(ring')
          PROVE  ring'[i] = log'[Len(log') - Len(ring') + i]
      <4>1. CASE i \in 1..Len(ring)
        <5>1. ring'[i] = log[Len(log) - Len(ring) + i]
          BY <1>3, <2>1, <3>1, <4>1 DEF WindowOK
        <5>2. /\ Len(log) - Len(ring) + i = i
              /\ Len(log') - Len(ring') + i = i
          BY <1>1, <1>4, <3>1, <4>1
        <5> QED
          BY <1>4, <3>1, <4>1, <5>1, <5>2
      <4>2. CASE i = Len(ring) + 1
        BY <1>1, <1>3, <1>4, <3>1, <4>2
      <4> QED
        BY <1>1, <3>1, <4>1, <4>2
    <3>3. /\ Len(ring') <= RingSize /\ Len(ring') = Len(log')
      BY <1>1, <1>3, <1>4, <2>1, <2>3, <3>1
    <3> QED
      BY <1>1, <1>4, <3>2, <3>3 DEF WindowOK
  <2> QED
    BY <2>2, <2>3
<1>8. LoggedOK'
  <2>1. /\ emission'[e].event = x
        /\ \A f \in Emitters \ {e} : emission'[f] = emission[f]
    BY <1>1, <1>2 DEF HubInv, HubType, Emission, x
  <2> QED
    BY <1>2, <1>4, <2>1 DEF HubInv, LoggedOK
<1> QED
  BY <1>6, <1>7, <1>8 DEF HubInv

LEMMA SendHub ==
    ASSUME HubInv, NEW e \in Emitters, Send(e)
    PROVE  HubInv'
<1> DEFINE x == emission[e].event
<1>1. /\ emission[e] \in Emission /\ x \in Events /\ x \in Range(log)
      /\ Capacity \in Nat \ {0}
  BY QuietFacts, HubAssumption DEF HubInv, HubType, LoggedOK, Send
<1>2. /\ feed' = [k \in Clients |-> IF k \in streaming THEN Fed(feed[k], x)
                                                       ELSE feed[k]]
      /\ emission' = [emission EXCEPT ![e] = Quiet]
      /\ UNCHANGED <<next, ring, streaming, log>>
  BY DEF Send
<1> HIDE DEF x
<1>3. ASSUME NEW s \in Seq(Events), Range(s) \subseteq Range(log)
      PROVE  Fed(s, x) \in Seq(Events) /\ Range(Fed(s, x)) \subseteq Range(log)
  <2>1. CASE Len(s) < Capacity
    BY <1>1, <1>3, <2>1, RangeOfAppend DEF Fed
  <2>2. CASE ~(Len(s) < Capacity)
    <3>1. s # <<>>
      BY <1>1, <2>2
    <3>2. Tail(s) \in Seq(Events) /\ Range(Tail(s)) \subseteq Range(s)
      BY <3>1, TailFacts
    <3>3. Fed(s, x) = Append(Tail(s), x)
      BY <2>2 DEF Fed
    <3>4. Append(Tail(s), x) \in Seq(Events)
      BY <1>1, <3>2
    <3>5. Range(Append(Tail(s), x)) = Range(Tail(s)) \cup {x}
      BY <1>1, <3>2, RangeOfAppend
    <3> QED
      BY <1>1, <1>3, <3>2, <3>3, <3>4, <3>5
  <2> QED
    BY <2>1, <2>2
<1>4. \A k \in Clients : feed[k] \in Seq(Events) /\ Range(feed[k]) \subseteq Range(log)
  BY DEF HubInv, HubType, LoggedOK
<1>5. /\ feed' \in [Clients -> Seq(Events)]
      /\ \A k \in Clients : Range(feed'[k]) \subseteq Range(log)
  BY <1>2, <1>3, <1>4
<1>6. HubType'
  BY <1>2, <1>5 DEF HubInv, HubType, Events, Bodies, Emission, Quiet, Channels,
                    Ending, Record, Outcome
<1>7. WindowOK'
  BY <1>2 DEF HubInv, WindowOK
<1>8. LoggedOK'
  BY <1>2, <1>5, QuietFacts DEF HubInv, HubType, LoggedOK
<1> QED
  BY <1>6, <1>7, <1>8 DEF HubInv

LEMMA WatchHub ==
    ASSUME HubInv, NEW k \in Clients, Watch(k)
    PROVE  HubInv'
<1>1. UNCHANGED <<next, ring, emission, log>>
  BY DEF Watch, Subscribe, Receive, Leave
<1>2. /\ streaming' \subseteq Clients
      /\ feed' \in [Clients -> Seq(Events)]
      /\ \A j \in Clients : Range(feed'[j]) \subseteq Range(log)
  <2>1. CASE Subscribe(k)
    BY <2>1 DEF Subscribe, HubInv, HubType, LoggedOK
  <2>2. CASE Receive(k)
    BY <2>2, TailFacts DEF Receive, HubInv, HubType, LoggedOK
  <2>3. CASE Leave(k)
    <3>1. <<>> \in Seq(Events) /\ Range(<<>>) = {}
      BY DEF Range
    <3> QED
      BY <2>3, <3>1 DEF Leave, HubInv, HubType, LoggedOK
  <2> QED
    BY <2>1, <2>2, <2>3 DEF Watch
<1>3. HubType'
  BY <1>1, <1>2 DEF HubInv, HubType, Events, Bodies, Emission, Quiet, Channels,
                    Ending, Record, Outcome
<1>4. WindowOK' /\ LoggedOK'
  BY <1>1, <1>2 DEF HubInv, WindowOK, LoggedOK
<1> QED
  BY <1>3, <1>4 DEF HubInv

LEMMA SameHub ==
    ASSUME HubInv, UNCHANGED hubVars
    PROVE  HubInv' /\ \A x : IsEvent(x)' => IsEvent(x)
<1>1. UNCHANGED <<next, ring, emission, streaming, feed, log>>
  BY DEF hubVars
<1>2. HubType'
  BY <1>1 DEF HubInv, HubType, Events, Bodies, Emission, Quiet, Channels, Ending,
              Record, Outcome
<1>3. WindowOK' /\ LoggedOK'
  BY <1>1 DEF HubInv, WindowOK, LoggedOK
<1> QED
  BY <1>1, <1>2, <1>3 DEF HubInv, IsEvent, IsQuiet

(* No step of the hub but Draw makes an event.                             *)
LEMMA NoNewEvent ==
    ASSUME HubInv, NEW e \in Emitters, Push(e) \/ Send(e) \/ Forget(e)
    PROVE  \A x : IsEvent(x)' => IsEvent(x)
<1>1. emission \in [Emitters -> {Quiet} \cup Emission]
  BY DEF HubInv, HubType
<1>2. CASE Send(e) \/ Forget(e)
  <2>1. log' = log /\ emission' = [emission EXCEPT ![e] = Quiet]
    BY <1>2 DEF Send, Forget
  <2> QED
    BY <1>1, <2>1, QuietFacts DEF IsEvent, IsQuiet
<1>3. CASE Push(e)
  <2>1. /\ log' = Append(log, emission[e].event)
        /\ emission' = [emission EXCEPT ![e].phase = "pushed"]
        /\ emission[e].phase = "drawn"
    BY <1>3 DEF Push
  <2>2. emission[e] \in Emission /\ emission[e].event \in Events /\ ~IsQuiet(e)
    BY <1>1, <2>1, QuietFacts DEF IsQuiet
  <2>3. Range(log') = Range(log) \cup {emission[e].event}
    BY <2>1, <2>2, RangeOfAppend DEF HubInv, HubType
  <2>4. /\ emission'[e].event = emission[e].event
        /\ \A f \in Emitters \ {e} : emission'[f] = emission[f]
    BY <1>1, <2>1, <2>2 DEF Emission
  <2> QED
    BY <2>2, <2>3, <2>4 DEF IsEvent, IsQuiet
<1> QED
  BY <1>2, <1>3

LEMMA DrawnEvent ==
    ASSUME HubInv, NEW e \in Emitters, NEW body \in Bodies, Draw(e, body)
    PROVE  \A x : IsEvent(x)' => IsEvent(x) \/ x.body = body
<1>1. /\ log' = log
      /\ emission' = [emission EXCEPT ![e] =
                        [phase |-> "drawn",
                         event |-> [seq |-> next + 1, body |-> body]]]
      /\ emission \in [Emitters -> {Quiet} \cup Emission]
  BY DEF Draw, HubInv, HubType
<1> QED
  BY <1>1 DEF IsEvent, IsQuiet

LEMMA WatchedEvents ==
    ASSUME NEW k \in Clients, Watch(k)
    PROVE  \A x : IsEvent(x)' => IsEvent(x)
BY DEF Watch, Subscribe, Receive, Leave, IsEvent, IsQuiet

-----------------------------------------------------------------------------
(* The steps of commands                                                   *)

(* What any step does to commands that have ended.                         *)
Advances ==
    \A c \in Commands :
      cmd[c].pc \in Ended =>
        /\ cmd'[c].pc \in Ended /\ cmd'[c].kind = cmd[c].kind
        /\ record[c] \in Outcome \cup {"pruned"} =>
             record'[c] \in {record[c], "pruned"}

LEMMA TruthStays ==
    ASSUME Truth, Advances,
           \A x \in Events : IsEvent(x)' => IsEvent(x) \/ ToldOK(x)'
    PROVE  Truth'
<1>1. ASSUME NEW x \in Events, ToldOK(x)
      PROVE  ToldOK(x)'
  <2>1. x.body.of \in Commands
    BY DEF Events, Bodies
  <2> QED
    BY <1>1, <2>1 DEF ToldOK, Advances, Outcome
<1>2. Events' = Events
  BY DEF Events, Bodies, Channels, Ending, Record, Outcome
<1> QED
  BY <1>1, <1>2 DEF Truth

LEMMA PhaseStep ==
    ASSUME CommandInv, NEW c \in Commands,
           Announce(c) \/ Launch(c) \/ LaunchFails(c) \/ Exited(c)
             \/ TimesOut(c) \/ CancelSeen(c) \/ Kill(c)
    PROVE  CommandInv' /\ Advances
<1> USE DEF CommandInv, CmdType, Command, Phase, Ending, NobodyLeftRunning,
            RecordOK, Advances, Ended
<1>1. CASE Announce(c)
  BY <1>1 DEF Announce, Goto
<1>2. CASE Launch(c)
  BY <1>2 DEF Launch, Goto, ChildState
<1>3. CASE LaunchFails(c)
  BY <1>3 DEF LaunchFails
<1>4. CASE Exited(c)
  BY <1>4 DEF Exited, Ends
<1>5. CASE TimesOut(c)
  BY <1>5 DEF TimesOut, Ends
<1>6. CASE CancelSeen(c)
  BY <1>6 DEF CancelSeen, Ends
<1>7. CASE Kill(c)
  BY <1>7 DEF Kill, Goto, ChildState
<1> QED
  BY <1>1, <1>2, <1>3, <1>4, <1>5, <1>6, <1>7

LEMMA EndingStep ==
    ASSUME CommandInv, NEW c \in Commands,
           Drained(c) \/ Reply(c) \/ Tell(c) \/ Finish(c) \/ Report(c)
             \/ ReportNothing(c) \/ Done(c)
    PROVE  CommandInv' /\ Advances
<1> USE DEF CommandInv, CmdType, Command, Phase, Ending, NobodyLeftRunning,
            RecordOK, Advances, Ended
<1>1. CASE Drained(c)
  BY <1>1 DEF Drained, Goto
<1>2. CASE Reply(c)
  BY <1>2 DEF Reply, Goto
<1>3. CASE Tell(c)
  BY <1>3 DEF Tell, Goto
<1>4. CASE Finish(c)
  <2>1. Outcomes(c) \subseteq Outcome
    BY DEF Outcomes, Outcome
  <2>2. PICK outcome \in Outcome : record' = [record EXCEPT ![c] = outcome]
    BY <1>4, <2>1 DEF Finish
  <2> QED
    BY <1>4, <2>2 DEF Finish, Goto, Record
<1>5. CASE Report(c)
  BY <1>5 DEF Report, Goto
<1>6. CASE ReportNothing(c)
  BY <1>6 DEF ReportNothing, Goto
<1>7. CASE Done(c)
  BY <1>7 DEF Done, Goto
<1> QED
  BY <1>1, <1>2, <1>3, <1>4, <1>5, <1>6, <1>7

LEMMA OthersStep ==
    ASSUME CommandInv, NEW c \in Commands,
           \/ \E kind \in Kinds[c] : Arrive(c, kind)
           \/ Abandon(c) \/ Cancel(c) \/ Prune(c) \/ Process(c)
    PROVE  CommandInv' /\ Advances
<1> USE DEF CommandInv, CmdType, Command, Phase, Ending, NobodyLeftRunning,
            RecordOK, Advances, Ended
<1>1. CASE \E kind \in Kinds[c] : Arrive(c, kind)
  <2>1. PICK kind \in Kinds[c] : Arrive(c, kind)
    BY <1>1
  <2>2. kind \in Kind
    BY CommandsAssumption DEF Kind
  <2> DEFINE pc == IF kind = "raw" THEN "launch" ELSE "start"
  <2>3. pc \in Phase \ {"report"} /\ cmd[c].pc = "idle"
        /\ cmd' = [cmd EXCEPT ![c].kind = kind, ![c].pc = pc]
        /\ UNCHANGED <<child, holders>>
    BY <2>1 DEF Arrive
  <2>4. record' \in [Commands -> Record] /\ \A d \in Commands \ {c} : record'[d] = record[d]
    BY <2>1 DEF Arrive, Record
  <2> HIDE DEF pc
  <2>5. /\ cmd' \in [Commands -> Command] /\ cmd'[c].pc = pc
        /\ \A d \in Commands \ {c} : cmd'[d] = cmd[d]
    <3> DEFINE q == [cmd[c] EXCEPT !.kind = kind, !.pc = pc]
    <3>1. cmd[c] \in Command /\ pc \in Phase
      BY <2>3
    <3>2. q \in Command /\ q.pc = pc
      BY <2>2, <3>1
    <3>3. cmd' = [cmd EXCEPT ![c] = q]
      BY <2>3
    <3> HIDE DEF q
    <3> QED
      BY <3>2, <3>3
  <2>6. CmdType'
    BY <2>3, <2>4, <2>5
  <2>7. NobodyLeftRunning' /\ RecordOK'
    BY <2>3, <2>4, <2>5
  <2>8. Advances
    BY <2>3, <2>4, <2>5
  <2> QED
    BY <2>6, <2>7, <2>8
<1>2. CASE Abandon(c)
  BY <1>2 DEF Abandon, Goto, Waits, ChildState
<1>3. CASE Cancel(c)
  BY <1>3 DEF Cancel, Record, Outcome
<1>4. CASE Prune(c)
  BY <1>4 DEF Prune, Record
<1>5. CASE \E s \in Channels : Write(c, s)
  BY <1>5 DEF Write
<1>6. CASE Exit(c)
  BY <1>6 DEF Exit, ChildState
<1>7. CASE Fork(c)
  BY <1>7 DEF Fork
<1>8. CASE \E holder \in {"child", "descendant"} : Close(c, holder)
  BY <1>8 DEF Close
<1> QED
  BY <1>1, <1>2, <1>3, <1>4, <1>5, <1>6, <1>7, <1>8 DEF Process

LEMMA SameCommands ==
    ASSUME CommandInv, UNCHANGED <<cmd, child, holders, record>>
    PROVE  CommandInv' /\ Advances
BY DEF CommandInv, CmdType, Command, Phase, Ending, NobodyLeftRunning, RecordOK,
       Advances, Ended, Kind, ChildState, Record, Outcome

-----------------------------------------------------------------------------
(* The drains                                                              *)

Chunks == Seq(1..WriteBound)

LEMMA AheadType ==
    ASSUME NEW d \in Drain, NEW n \in 1..Chunk, Readable(d, n)
    PROVE  Ahead(d, n) \in Chunks /\ d.read + n \in 0..WriteBound
<1>1. /\ n \in Nat /\ d.read \in Nat /\ d.written \in 0..WriteBound
      /\ d.read + n <= d.written /\ WriteBound \in Nat
  BY CommandsAssumption DEF Drain, Readable
<1>2. Ahead(d, n) \in [1..n -> 1..WriteBound]
  BY <1>1 DEF Ahead
<1> QED
  BY <1>1, <1>2, SeqDef DEF Chunks

LEMMA KeptType ==
    ASSUME NEW d \in Drain, NEW bytes \in Chunks
    PROVE  /\ Kept(d, bytes) \in Drain
           /\ Kept(d, bytes).read = d.read
<1> DEFINE room == Limit - Len(d.kept)
           m == Least(room, Len(bytes))
           kept == d.kept \o SubSeq(bytes, 1, m)
           cut == d.truncated \/ Len(bytes) > room
<1>1. /\ d.kept \in Seq(1..WriteBound) /\ bytes \in Seq(1..WriteBound)
      /\ Len(d.kept) \in Nat /\ Len(bytes) \in Nat /\ Limit \in Nat
  BY CommandsAssumption DEF Drain, Chunks
<1>2. m \in Int /\ m <= Len(bytes)
  BY <1>1 DEF Least
<1>3. \A i \in 1..m : bytes[i] \in 1..WriteBound
  <2>1. \A i \in 1..Len(bytes) : bytes[i] \in 1..WriteBound
    BY <1>1, ElementOfSeq
  <2> HIDE DEF m
  <2>2. \A i \in 1..m : i \in 1..Len(bytes)
    BY <1>1, <1>2
  <2> QED
    BY <2>1, <2>2
<1>4. SubSeq(bytes, 1, m) \in Seq(1..WriteBound)
  <2> HIDE DEF m
  <2> QED BY <1>2, <1>3, SubSeqProperties
<1>5. kept \in Seq(1..WriteBound) /\ cut \in BOOLEAN
  BY <1>1, <1>4, ConcatProperties
<1>6. Kept(d, bytes) = [d EXCEPT !.kept = kept, !.truncated = cut]
  BY DEF Kept
<1> HIDE DEF kept, cut
<1> QED
  BY <1>5, <1>6 DEF Drain

(* A step that replaces one drain.                                         *)
LEMMA OneDrain ==
    ASSUME DrainType, NEW c \in Commands, NEW s \in Channels, NEW d \in Drain,
           drain' = [drain EXCEPT ![c][s] = d]
    PROVE  DrainType'
<1>1. Drain' = Drain /\ Channels' = Channels
  BY DEF Drain, Channels
<1>2. drain' \in [Commands -> [Channels -> Drain]]
  BY DEF DrainType
<1> QED
  BY <1>1, <1>2 DEF DrainType

LEMMA DrainStep ==
    ASSUME DrainType, NEW c \in Commands, NEW s \in Channels,
           \/ \E n \in 1..Chunk : ReadChunk(c, s, n) \/ TellChunk(c, s, n)
           \/ KeepChunk(c, s) \/ PipeEnds(c, s) \/ Write(c, s)
    PROVE  DrainType'
<1> DEFINE d == drain[c][s]
<1>1. d \in Drain
  BY DEF DrainType
<1>2. ASSUME NEW n \in 1..Chunk, ReadChunk(c, s, n)
      PROVE  DrainType'
  <2> DEFINE k == Kept(d, Ahead(d, n))
             q == [k EXCEPT !.read = @ + n]
  <2>1. Readable(d, n) /\ drain' = [drain EXCEPT ![c][s] = q]
    BY <1>2 DEF ReadChunk
  <2>2. Ahead(d, n) \in Chunks /\ d.read + n \in 0..WriteBound
    BY <1>1, <2>1, AheadType
  <2>3. k \in Drain /\ k.read = d.read
    BY <1>1, <2>2, KeptType
  <2>4. q \in Drain
    <3> HIDE DEF k
    <3> QED BY <2>2, <2>3 DEF Drain
  <2> HIDE DEF q
  <2> QED
    BY <2>1, <2>4, OneDrain
<1>3. ASSUME NEW n \in 1..Chunk, TellChunk(c, s, n)
      PROVE  DrainType'
  <2> DEFINE b == Ahead(d, n)
             r == d.read + n
             q == [d EXCEPT !.pc = "telling", !.chunk = b, !.read = r]
  <2>1. Readable(d, n)
        /\ drain' = [drain EXCEPT ![c][s].pc = "telling", ![c][s].chunk = b,
                                  ![c][s].read = @ + n]
    BY <1>3 DEF TellChunk
  <2>2. b \in Seq(1..WriteBound) /\ r \in 0..WriteBound
    BY <1>1, <2>1, AheadType DEF Chunks
  <2>3. q \in Drain
    <3> HIDE DEF b, r
    <3> QED BY <1>1, <2>2 DEF Drain
  <2>4. drain' = [drain EXCEPT ![c][s] = q]
    <3> HIDE DEF b
    <3> QED BY <1>1, <2>1 DEF DrainType, Drain
  <2> HIDE DEF q
  <2> QED
    BY <2>3, <2>4, OneDrain
<1>4. CASE KeepChunk(c, s)
  <2> DEFINE k == Kept(d, d.chunk)
             q == [k EXCEPT !.pc = "reading", !.chunk = << >>]
  <2>1. drain' = [drain EXCEPT ![c][s] = q]
    BY <1>4 DEF KeepChunk
  <2>2. k \in Drain
    BY <1>1, KeptType DEF Drain, Chunks
  <2>3. q \in Drain
    <3>1. << >> \in Seq(1..WriteBound)
      OBVIOUS
    <3> HIDE DEF k
    <3> QED BY <2>2, <3>1 DEF Drain
  <2> HIDE DEF q
  <2> QED
    BY <2>1, <2>3, OneDrain
<1>5. CASE PipeEnds(c, s)
  <2> DEFINE q == [d EXCEPT !.pc = "ended"]
  <2>1. drain' = [drain EXCEPT ![c][s] = q]
    BY <1>1, <1>5 DEF PipeEnds, DrainType, Drain
  <2>2. q \in Drain
    BY <1>1 DEF Drain
  <2> HIDE DEF q
  <2> QED
    BY <2>1, <2>2, OneDrain
<1>6. CASE Write(c, s)
  <2> DEFINE w == d.written + 1
             q == [d EXCEPT !.written = w]
  <2>1. drain' = [drain EXCEPT ![c][s] = q]
    BY <1>1, <1>6 DEF Write, DrainType, Drain
  <2>2. w \in 0..WriteBound
    <3>1. drain[c]["stdout"] \in Drain /\ drain[c]["stderr"] \in Drain
      BY DEF DrainType, Channels
    <3>2. /\ drain[c]["stdout"].written \in Nat /\ drain[c]["stderr"].written \in Nat
          /\ s \in {"stdout", "stderr"} /\ WriteBound \in Nat
      BY <3>1, CommandsAssumption DEF Drain, Channels
    <3>3. drain[c]["stdout"].written + drain[c]["stderr"].written < WriteBound
      BY <1>6 DEF Write
    <3> QED
      BY <3>2, <3>3
  <2>3. q \in Drain
    <3> HIDE DEF w
    <3> QED BY <1>1, <2>2 DEF Drain
  <2> HIDE DEF q
  <2> QED
    BY <2>1, <2>3, OneDrain
<1> QED
  BY <1>2, <1>3, <1>4, <1>5, <1>6

LEMMA LaunchDrains ==
    ASSUME DrainType, NEW c \in Commands, Launch(c)
    PROVE  DrainType'
<1> DEFINE q == [NoDrain EXCEPT !.pc = "reading"]
<1>1. << >> \in Seq(1..WriteBound) /\ 0 \in 0..WriteBound
  BY CommandsAssumption
<1>2. q \in Drain
  BY <1>1 DEF NoDrain, Drain
<1>3. drain' = [drain EXCEPT ![c] = [s \in Channels |-> q]]
  BY DEF Launch
<1> HIDE DEF q
<1>4. drain' \in [Commands -> [Channels -> Drain]]
  BY <1>2, <1>3 DEF DrainType
<1> QED
  BY <1>4 DEF DrainType, Drain, Channels

LEMMA SameDrains ==
    ASSUME DrainType, UNCHANGED drain
    PROVE  DrainType'
BY DEF DrainType, Drain, Channels

-----------------------------------------------------------------------------
(* All together                                                            *)

LEMMA PartsEmit ==
    ASSUME NEW c \in Commands
    PROVE  /\ Handler(c) \in Emitters /\ Task(c) \in Emitters
           /\ <<c, "cancel">> \in Emitters
           /\ \A s \in Channels : <<c, s>> \in Emitters
           /\ \A part \in Parts : <<c, part>> \in Emitters
BY CommandsAssumption DEF Handler, Task, Parts, Channels

(* A step that draws a number for an event that is true.                   *)
LEMMA DrawStep ==
    ASSUME EventsInv, NEW e \in Emitters, NEW body \in Bodies, Draw(e, body),
           CommandInv', Advances, DrainType',
           \A x \in Events : x.body = body => ToldOK(x)'
    PROVE  EventsInv'
<1>1. HubInv /\ Truth
  BY DEF EventsInv
<1>2. HubInv' /\ \A x : IsEvent(x)' => IsEvent(x) \/ x.body = body
  BY <1>1, DrawHub, DrawnEvent
<1>3. Truth'
  BY <1>1, <1>2, TruthStays
<1> QED
  BY <1>2, <1>3 DEF EventsInv

(* A step that makes no event.                                             *)
LEMMA SilentStep ==
    ASSUME EventsInv, HubInv', \A x : IsEvent(x)' => IsEvent(x),
           CommandInv', Advances, DrainType'
    PROVE  EventsInv'
<1>1. Truth'
  BY TruthStays DEF EventsInv
<1> QED
  BY <1>1 DEF EventsInv

LEMMA WorkStep ==
    ASSUME EventsInv, NEW c \in Commands, Work(c)
    PROVE  EventsInv'
<1>1. HubInv /\ CommandInv /\ DrainType
  BY DEF EventsInv
<1>2. CommandInv' /\ Advances
  BY <1>1, PhaseStep, EndingStep DEF Work
<1>3. << >> \in Seq(1..WriteBound)
  OBVIOUS
<1>4. CASE Announce(c)
  <2> DEFINE body == Body(c, "started", << >>, "none")
  <2>1. body \in Bodies /\ body.what = "started"
    BY <1>3 DEF Body, Bodies, Ending
  <2>2. DrainType'
    BY <1>1, <1>4, SameDrains DEF Announce
  <2>3. Draw(Handler(c), body) /\ Handler(c) \in Emitters
    BY <1>4, PartsEmit DEF Announce
  <2> HIDE DEF body
  <2>4. \A x \in Events : x.body = body => ToldOK(x)'
    BY <2>1 DEF ToldOK
  <2> QED
    BY <1>2, <2>1, <2>2, <2>3, <2>4, DrawStep
<1>5. CASE Tell(c)
  <2> DEFINE body == Body(c, "finished", << >>, cmd[c].ending)
  <2>1. cmd[c] \in Command
    BY <1>1 DEF CommandInv, CmdType
  <2>2. body \in Bodies /\ body.of = c
    BY <1>3, <2>1 DEF Body, Bodies, Command
  <2>3. DrainType'
    BY <1>1, <1>5, SameDrains DEF Tell
  <2>4. Draw(Handler(c), body) /\ Handler(c) \in Emitters
    BY <1>5, PartsEmit DEF Tell
  <2>5. cmd'[c].pc = "finished" /\ cmd'[c].kind = "run"
    BY <1>1, <1>5 DEF Tell, Goto, CommandInv, CmdType, Command
  <2> HIDE DEF body
  <2>6. \A x \in Events : x.body = body => ToldOK(x)'
    BY <2>2, <2>5 DEF ToldOK, Ended
  <2> QED
    BY <1>2, <2>2, <2>3, <2>4, <2>6, DrawStep
<1>6. CASE Report(c)
  <2> DEFINE body == Body(c, "finished", << >>, record[c])
  <2>1. record[c] \in Outcome /\ record[c] \in Record
    BY <1>1, <1>6 DEF Report, CommandInv, CmdType, RecordOK
  <2>2. body \in Bodies /\ body.of = c /\ body.status = record[c]
    BY <1>3, <2>1 DEF Body, Bodies
  <2>3. DrainType'
    BY <1>1, <1>6, SameDrains DEF Report
  <2>4. Draw(Task(c), body) /\ Task(c) \in Emitters
    BY <1>6, PartsEmit DEF Report
  <2>5. cmd'[c].pc = "finished" /\ record' = record
    BY <1>1, <1>6 DEF Report, Goto, CommandInv, CmdType, Command
  <2> HIDE DEF body
  <2>6. \A x \in Events : x.body = body => ToldOK(x)'
    BY <2>1, <2>2, <2>5 DEF ToldOK, Ended, Outcome
  <2> QED
    BY <1>2, <2>2, <2>3, <2>4, <2>6, DrawStep
<1>7. CASE Launch(c)
  <2>1. UNCHANGED hubVars
    BY <1>7 DEF Launch
  <2> QED
    BY <1>1, <1>2, <1>7, <2>1, SameHub, LaunchDrains, SilentStep
<1>8. CASE LaunchFails(c) \/ Exited(c) \/ TimesOut(c) \/ CancelSeen(c)
             \/ Kill(c) \/ Drained(c) \/ Reply(c) \/ Finish(c)
             \/ ReportNothing(c) \/ Done(c)
  <2>1. UNCHANGED hubVars /\ UNCHANGED drain
    BY <1>8 DEF LaunchFails, Exited, TimesOut, CancelSeen, Ends, Kill, Drained,
                Reply, Finish, ReportNothing, Done
  <2> QED
    BY <1>1, <1>2, <2>1, SameHub, SameDrains, SilentStep
<1> QED
  BY <1>4, <1>5, <1>6, <1>7, <1>8 DEF Work

LEMMA DrainWorkStep ==
    ASSUME EventsInv, NEW c \in Commands, NEW s \in Channels,
           DrainWork(c, s) \/ Write(c, s)
    PROVE  EventsInv'
<1>1. HubInv /\ CommandInv /\ DrainType
  BY DEF EventsInv
<1>2. UNCHANGED <<cmd, child, holders, record>>
  BY DEF DrainWork, ReadChunk, TellChunk, KeepChunk, PipeEnds, Write
<1>3. CommandInv' /\ Advances
  BY <1>1, <1>2, SameCommands
<1>4. DrainType'
  BY <1>1, DrainStep DEF DrainWork
<1>5. ASSUME NEW n \in 1..Chunk, TellChunk(c, s, n)
      PROVE  EventsInv'
  <2> DEFINE d == drain[c][s]
             body == Body(c, s, Ahead(d, n), "none")
  <2>1. Ahead(d, n) \in Seq(1..WriteBound)
    BY <1>1, <1>5, AheadType DEF TellChunk, DrainType, Chunks
  <2>2. body \in Bodies /\ body.what # "finished"
    BY <2>1 DEF Body, Bodies, Ending, Channels
  <2>3. Draw(<<c, s>>, body) /\ <<c, s>> \in Emitters
    BY <1>5, PartsEmit DEF TellChunk
  <2> HIDE DEF body
  <2>4. \A x \in Events : x.body = body => ToldOK(x)'
    BY <2>2 DEF ToldOK
  <2> QED
    BY <1>3, <1>4, <2>2, <2>3, <2>4, DrawStep
<1>6. CASE UNCHANGED hubVars
  BY <1>1, <1>3, <1>4, <1>6, SameHub, SilentStep
<1> QED
  BY <1>5, <1>6 DEF DrainWork, ReadChunk, KeepChunk, PipeEnds, Write

LEMMA OtherStep ==
    ASSUME EventsInv, NEW c \in Commands,
           \/ \E kind \in Kinds[c] : Arrive(c, kind)
           \/ Abandon(c) \/ Cancel(c) \/ Prune(c)
           \/ Exit(c) \/ Fork(c)
           \/ \E holder \in {"child", "descendant"} : Close(c, holder)
    PROVE  EventsInv'
<1>1. HubInv /\ CommandInv /\ DrainType
  BY DEF EventsInv
<1>2. CommandInv' /\ Advances
  BY <1>1, OthersStep DEF Process
<1>3. DrainType'
  <2>1. UNCHANGED drain
    BY DEF Arrive, Abandon, Cancel, Prune, Exit, Fork, Close
  <2> QED
    BY <1>1, <2>1, SameDrains
<1>4. CASE Cancel(c)
  <2> DEFINE body == Body(c, "cancel_requested", << >>, "none")
  <2>1. << >> \in Seq(1..WriteBound)
    OBVIOUS
  <2>2. body \in Bodies /\ body.what = "cancel_requested"
    BY <2>1 DEF Body, Bodies, Ending
  <2>3. Draw(<<c, "cancel">>, body) /\ <<c, "cancel">> \in Emitters
    BY <1>4, PartsEmit DEF Cancel
  <2> HIDE DEF body
  <2>4. \A x \in Events : x.body = body => ToldOK(x)'
    BY <2>2 DEF ToldOK
  <2> QED
    BY <1>2, <1>3, <2>2, <2>3, <2>4, DrawStep
<1>5. CASE Abandon(c) /\ ~IsQuiet(Handler(c))
  <2>1. Forget(Handler(c)) /\ Handler(c) \in Emitters
    BY <1>5, PartsEmit DEF Abandon
  <2> QED
    BY <1>1, <1>2, <1>3, <2>1, ForgetHub, NoNewEvent, SilentStep
<1>6. CASE UNCHANGED hubVars
  BY <1>1, <1>2, <1>3, <1>6, SameHub, SilentStep
<1> QED
  BY <1>4, <1>5, <1>6 DEF Arrive, Abandon, Prune, Exit, Fork, Close

(* A step of the hub alone.                                                *)
LEMMA HubStep ==
    ASSUME EventsInv, UNCHANGED commandVars,
           \/ \E c \in Commands, part \in Parts : Publish(<<c, part>>)
           \/ \E c \in Commands : Forget(<<c, "cancel">>)
           \/ \E k \in Clients : Watch(k)
    PROVE  EventsInv'
<1>1. HubInv /\ CommandInv /\ DrainType
  BY DEF EventsInv
<1>2. CommandInv' /\ Advances /\ DrainType'
  BY <1>1, SameCommands, SameDrains DEF commandVars
<1>3. ASSUME NEW e \in Emitters, Push(e) \/ Send(e) \/ Forget(e)
      PROVE  EventsInv'
  BY <1>1, <1>2, <1>3, PushHub, SendHub, ForgetHub, NoNewEvent, SilentStep
<1>4. ASSUME NEW k \in Clients, Watch(k)
      PROVE  EventsInv'
  BY <1>1, <1>2, <1>4, WatchHub, WatchedEvents, SilentStep
<1> QED
  BY <1>3, <1>4, PartsEmit DEF Publish

-----------------------------------------------------------------------------
LEMMA InitEvents ==
    ASSUME Init
    PROVE  EventsInv
<1>1. << >> \in Seq(Events) /\ Range(<< >>) = {} /\ Len(<< >>) = 0
  BY DEF Range
<1>2. HubInv
  BY <1>1, QuietFacts, HubAssumption
     DEF Init, HubInit, HubInv, HubType, WindowOK, LoggedOK
<1>3. CommandInv
  BY DEF Init, CommandInv, CmdType, Command, Kind, Phase, Ending, ChildState,
         Record, NobodyLeftRunning, RecordOK
<1>4. DrainType
  <2>1. << >> \in Seq(1..WriteBound) /\ 0 \in 0..WriteBound
    BY CommandsAssumption
  <2>2. NoDrain \in Drain
    BY <2>1 DEF NoDrain, Drain
  <2> QED
    BY <2>2 DEF Init, DrainType
<1>5. Truth
  BY <1>1 DEF Init, HubInit, Truth, IsEvent, IsQuiet, Quiet
<1> QED
  BY <1>2, <1>3, <1>4, <1>5 DEF EventsInv

LEMMA NextEvents ==
    ASSUME EventsInv, [Next]_vars
    PROVE  EventsInv'
<1>1. CASE UNCHANGED vars
  <2>1. UNCHANGED hubVars /\ UNCHANGED <<cmd, child, holders, drain, record>>
    BY <1>1 DEF vars, commandVars
  <2> QED
    BY <2>1, SameHub, SameCommands, SameDrains, SilentStep DEF EventsInv
<1>2. ASSUME NEW c \in Commands,
             (\E kind \in Kinds[c] : Arrive(c, kind)) \/ Runtime(c) \/ Process(c)
               \/ Abandon(c) \/ Cancel(c) \/ CancelForgotten(c) \/ Prune(c)
      PROVE  EventsInv'
  <2>1. CASE Runtime(c)
    BY <2>1, WorkStep, DrainWorkStep, HubStep DEF Runtime
  <2>2. CASE CancelForgotten(c)
    BY <2>2, HubStep DEF CancelForgotten
  <2> QED
    BY <1>2, <2>1, <2>2, DrainWorkStep, OtherStep DEF Process
<1>3. CASE \E k \in Clients : Watch(k) /\ UNCHANGED commandVars
  BY <1>3, HubStep
<1> QED
  BY <1>1, <1>2, <1>3 DEF Next

THEOREM EventsInvariant == Spec => []EventsInv
<1> QED
  BY InitEvents, NextEvents, PTL DEF Spec

(* Every variable has its type.                                            *)
THEOREM TypeCorrect == Spec => []TypeOK
<1>1. EventsInv => TypeOK
  BY DEF EventsInv, CommandInv, CmdType, DrainType, TypeOK
<1> QED
  BY <1>1, EventsInvariant, PTL

(* With any number of commands, a child runs only while its handler or its *)
(* task attends to it (README.md:124, command.rs:77, :82;                  *)
(* raw_command.rs:72, :96).                                                *)
THEOREM NobodyIsLeftRunning == Spec => []NobodyLeftRunning
<1>1. EventsInv => NobodyLeftRunning
  BY DEF EventsInv, CommandInv
<1> QED
  BY <1>1, EventsInvariant, PTL

(* With any number of jobs, what an event says of the end of a job is what *)
(* its record says, until it is pruned (command.rs:50).                    *)
THEOREM FinishedJobsAreRecorded == Spec => []FinishedIsRecorded
<1>1. EventsInv => FinishedIsRecorded
  <2> SUFFICES ASSUME EventsInv, NEW i \in 1..Len(log),
                      log[i].body.what = "finished",
                      cmd[log[i].body.of].kind = "job"
               PROVE  record[log[i].body.of] \in {log[i].body.status, "pruned"}
    BY DEF FinishedIsRecorded
  <2>1. log \in Seq(Events)
    BY DEF EventsInv, HubInv, HubType
  <2>2. log[i] \in Events /\ log[i] \in Range(log)
    BY <2>1 DEF Range
  <2>3. ToldOK(log[i])
    BY <2>2 DEF EventsInv, Truth, IsEvent
  <2> QED
    BY <2>3 DEF ToldOK
<1> QED
  BY <1>1, EventsInvariant, PTL

(* For rings and channels of any size, and any number of emitters and      *)
(* clients: whatever comes through the channel has been in the ring, and   *)
(* the ring holds the RingSize newest events (DASHBOARD.md:13,             *)
(* events.rs:49-54).                                                       *)
THEOREM ListAndStreamMeet == Spec => []NothingFallsBetween
<1>1. EventsInv => NothingFallsBetween
  <2> SUFFICES ASSUME EventsInv
               PROVE  NothingFallsBetween
    OBVIOUS
  <2>1. HubType /\ WindowOK /\ LoggedOK
    BY DEF EventsInv, HubInv
  <2>2. \A k \in streaming : Range(feed[k]) \subseteq Range(log)
    BY <2>1 DEF HubType, LoggedOK
  <2>3. ASSUME NEW i \in 1..Len(log), i + RingSize > Len(log)
        PROVE  log[i] \in Range(ring)
    <3> DEFINE a == Len(log)
               b == Len(ring)
               j == i - (a - b)
    <3>1. /\ a \in Nat /\ b \in Nat /\ RingSize \in Nat
          /\ b <= RingSize /\ b <= a /\ (b < RingSize => b = a)
          /\ DOMAIN ring = 1..b
      BY <2>1, HubAssumption DEF HubType, WindowOK
    <3>2. j \in 1..b /\ a - b + j = i
      <4> HIDE DEF a, b
      <4>1. i \in 1..a /\ i + RingSize > a
        BY <2>3 DEF a
      <4> QED
        BY <3>1, <4>1
    <3>3. ring[j] = log[a - b + j]
      <4> HIDE DEF j
      <4> QED BY <2>1, <3>2 DEF WindowOK
    <3> HIDE DEF a, b, j
    <3> QED
      BY <3>1, <3>2, <3>3 DEF Range
  <2> QED
    BY <2>2, <2>3 DEF NothingFallsBetween
<1> QED
  BY <1>1, EventsInvariant, PTL

-----------------------------------------------------------------------------
(* The story of a command                                                  *)

InFlight(e) == ~IsQuiet(e)

Coming(e) == emission[e].event

(* What each emitter of a command emits, and when it may.                  *)
SourceOK(c) ==
    /\ InFlight(Handler(c)) =>
         LET b == Coming(Handler(c)).body
         IN  /\ b.of = c
             /\ \/ b.what = "started" /\ cmd[c].pc = "launch"
                \/ b.what = "finished" /\ cmd[c].pc = "finished"
    /\ InFlight(Task(c)) =>
         LET b == Coming(Task(c)).body
         IN  /\ b.of = c /\ b.what = "finished"
             /\ cmd[c].pc = "finished" /\ cmd[c].kind = "job"
    /\ InFlight(<<c, "cancel">>) =>
         Coming(<<c, "cancel">>).body.what = "cancel_requested"
    /\ \A s \in Channels : InFlight(<<c, s>>) =>
         LET b == Coming(<<c, s>>).body
         IN  /\ b.of = c /\ b.what = s
             /\ drain[c][s].pc = "telling" /\ b.bytes = drain[c][s].chunk

Unlaunched == {"idle", "start", "launch"}

Answering == {"finish", "report", "finished", "done"}

(* How far the drains are when the command is where it is.                 *)
StageOK(c) ==
    /\ cmd[c].pc \in Unlaunched => \A s \in Channels : drain[c][s].pc = "off"
    /\ (cmd[c].pc \in Answering /\ cmd[c].ending # "unlaunched") => AllDrained(c)
    /\ (cmd[c].pc \in Answering /\ cmd[c].ending = "unlaunched") =>
         \A s \in Channels : drain[c][s].pc = "off"
    /\ (cmd[c].kind = "job" /\ cmd[c].pc = "gone") =>
         \A s \in Channels : drain[c][s].pc = "off"
    /\ cmd[c].kind # "job" =>
         \A s \in Channels : drain[c][s].pc # "telling"
    /\ cmd[c].pc = "report" => cmd[c].kind = "job"
    /\ cmd[c].ending = "unlaunched" => cmd[c].pc \in Answering \cup {"gone"}

(* What an event tells of the stage its command has reached.               *)
ReachedOK(x) ==
    LET c == x.body.of
        s == x.body.what
    IN  /\ s = "started" => cmd[c].pc \notin {"idle", "start"}
        /\ s \in Channels =>
             /\ cmd[c].kind = "job" /\ drain[c][s].pc # "off"
             /\ x.body.bytes # << >> /\ x.body.bytes[1] <= drain[c][s].read

Stages == /\ \A c \in Commands : SourceOK(c) /\ StageOK(c)
          /\ \A x \in Events : IsEvent(x) => ReachedOK(x)

(* Every event comes before those that are on their way, and has the       *)
(* smaller number.                                                         *)
NumbersOK ==
    /\ \A x \in Events : IsEvent(x) => x.seq <= next
    /\ \A x, y \in Events :
         (IsEvent(x) /\ IsEvent(y) /\ Before(x.body, y.body)) => x.seq < y.seq
    /\ \A e \in Emitters, x \in Events :
         (InFlight(e) /\ IsEvent(x)) => ~Before(Coming(e).body, x.body)

InPlace(events) ==
    \A i, j \in 1..Len(events) :
      Before(events[i].body, events[j].body) => i < j

PlacesOK == InPlace(log) /\ \A k \in Clients : InPlace(feed[k])

StoryInv == Stages /\ NumbersOK /\ PlacesOK

-----------------------------------------------------------------------------
(* Results                                                                 *)

(* The bytes a drain has handled: read, told and kept.                     *)
Handled(d) == d.read - Len(d.chunk)

Firsts(n) == [i \in 1..Least(Limit, n) |-> i]

(* Of n bytes what fits is kept, and it is marked whether all of them fit. *)
WasKept(d, n) == d.kept = Firsts(n) /\ (d.truncated <=> n > Limit)

Numbered(bytes, h) == \A i \in 1..Len(bytes) : bytes[i] = h + i

DrainOK(d, held) ==
    /\ d.read <= d.written
    /\ Len(d.chunk) <= d.read
    /\ Numbered(d.chunk, Handled(d))
    /\ d.pc = "telling" <=> d.chunk # << >>
    /\ WasKept(d, Handled(d))
    /\ d.pc = "off" => d.read = 0
    /\ d.pc = "ended" => d.read = d.written /\ held = {}

(* How many bytes of a channel the log has told.                           *)
ToldUpTo(c, s) == IF emission[<<c, s>>].phase = "drawn" THEN Handled(drain[c][s])
                                                        ELSE drain[c][s].read

WholeOK(c, s) ==
    /\ DrainOK(drain[c][s], holders[c])
    /\ cmd[c].kind = "job" => Told(c, s) = 1..ToldUpTo(c, s)

ResultInv == \A c \in Commands, s \in Channels : WholeOK(c, s)

-----------------------------------------------------------------------------
(* The story: the steps of the hub                                         *)

LEMMA AppendInPlace ==
    ASSUME NEW events \in Seq(Events), InPlace(events), NEW x \in Events,
           \A y \in Range(events) \cup {x} : ~Before(x.body, y.body)
    PROVE  InPlace(Append(events, x))
<1> DEFINE more == Append(events, x)
           n == Len(events)
<1>1. /\ n \in Nat /\ Len(more) = n + 1 /\ more[n + 1] = x
      /\ \A i \in 1..n : more[i] = events[i] /\ events[i] \in Range(events)
  BY AppendProperties DEF Range
<1> SUFFICES ASSUME NEW i \in 1..Len(more), NEW j \in 1..Len(more),
                    Before(more[i].body, more[j].body)
             PROVE  i < j
  BY DEF InPlace
<1> HIDE DEF more
<1>2. CASE i = n + 1
  <2>1. more[j] \in Range(events) \cup {x}
    BY <1>1
  <2> QED
    BY <1>1, <1>2, <2>1
<1>3. CASE i \in 1..n /\ j \in 1..n
  BY <1>1, <1>3 DEF InPlace, n
<1>4. CASE i \in 1..n /\ j = n + 1
  <2> HIDE DEF n
  <2> QED BY <1>1, <1>4
<1> QED
  <2> HIDE DEF n
  <2> QED BY <1>1, <1>2, <1>3, <1>4

LEMMA TailInPlace ==
    ASSUME NEW events \in Seq(Events), events # << >>, InPlace(events)
    PROVE  InPlace(Tail(events))
<1> DEFINE rest == Tail(events)
<1>1. /\ Len(rest) = Len(events) - 1 /\ Len(events) \in Nat
      /\ \A i \in 1..Len(rest) : rest[i] = events[i + 1]
  BY TailFacts
<1> SUFFICES ASSUME NEW i \in 1..Len(rest), NEW j \in 1..Len(rest),
                    Before(rest[i].body, rest[j].body)
             PROVE  i < j
  BY DEF InPlace
<1> HIDE DEF rest
<1>2. i + 1 \in 1..Len(events) /\ j + 1 \in 1..Len(events)
  BY <1>1
<1>3. Before(events[i + 1].body, events[j + 1].body)
  BY <1>1
<1>4. i + 1 < j + 1
  BY <1>2, <1>3 DEF InPlace
<1> QED
  BY <1>4

LEMMA EmptyInPlace == InPlace(<< >>)
BY DEF InPlace

(* No step of the hub but Draw puts an event on its way.                   *)
LEMMA FewerInFlight ==
    ASSUME HubInv, NEW e \in Emitters, Push(e) \/ Send(e) \/ Forget(e)
    PROVE  \A f \in Emitters :
             InFlight(f)' => InFlight(f) /\ Coming(f)' = Coming(f)
<1>1. emission \in [Emitters -> {Quiet} \cup Emission]
  BY DEF HubInv, HubType
<1>2. CASE Send(e) \/ Forget(e)
  <2>1. emission' = [emission EXCEPT ![e] = Quiet]
    BY <1>2 DEF Send, Forget
  <2> QED
    BY <1>1, <2>1, QuietFacts DEF InFlight, Coming, IsQuiet
<1>3. CASE Push(e)
  <2>1. emission' = [emission EXCEPT ![e].phase = "pushed"]
        /\ emission[e].phase = "drawn"
    BY <1>3 DEF Push
  <2>2. emission[e] \in Emission /\ InFlight(e)
    BY <1>1, <2>1, QuietFacts DEF IsQuiet, InFlight
  <2>3. /\ emission'[e].event = emission[e].event
        /\ \A f \in Emitters \ {e} : emission'[f] = emission[f]
    BY <1>1, <2>1, <2>2 DEF Emission
  <2> QED
    BY <2>2, <2>3 DEF InFlight, Coming, IsQuiet
<1> QED
  BY <1>2, <1>3

(* Numbers stay as they are when no event is made.                         *)
LEMMA NumbersStay ==
    ASSUME NumbersOK, next' = next, \A x : IsEvent(x)' => IsEvent(x),
           \A f \in Emitters :
             InFlight(f)' => InFlight(f) /\ Coming(f)' = Coming(f)
    PROVE  NumbersOK'
<1>1. Events' = Events
  BY DEF Events, Bodies, Channels, Ending, Record, Outcome
<1>2. \A x \in Events : IsEvent(x)' => x.seq <= next'
  BY DEF NumbersOK
<1>3. \A x, y \in Events :
         (IsEvent(x)' /\ IsEvent(y)' /\ Before(x.body, y.body)) => x.seq < y.seq
  BY DEF NumbersOK
<1>4. \A e \in Emitters, x \in Events :
         (InFlight(e)' /\ IsEvent(x)') => ~Before(Coming(e)'.body, x.body)
  BY DEF NumbersOK
<1> QED
  BY <1>1, <1>2, <1>3, <1>4 DEF NumbersOK, Before, Channels

(* A number may be drawn for an event that no other event waits for.       *)
LEMMA DrawNumbers ==
    ASSUME HubInv, NumbersOK, NEW e \in Emitters, NEW body \in Bodies,
           Draw(e, body), ~Before(body, body),
           \A x \in Events : IsEvent(x) => ~Before(body, x.body),
           \A f \in Emitters : InFlight(f) => ~Before(Coming(f).body, body)
    PROVE  NumbersOK'
<1> DEFINE z == [seq |-> next + 1, body |-> body]
<1>1. /\ next \in Nat /\ emission \in [Emitters -> {Quiet} \cup Emission]
      /\ next' = next + 1 /\ log' = log
      /\ emission' = [emission EXCEPT ![e] = [phase |-> "drawn", event |-> z]]
  BY DEF HubInv, HubType, Draw
<1>2. z \in Events /\ z.seq = next + 1 /\ z.body = body
  BY <1>1 DEF Events
<1> HIDE DEF z
<1>3. /\ InFlight(e)' /\ Coming(e)' = z
      /\ \A f \in Emitters \ {e} : /\ InFlight(f)' => InFlight(f)
                                   /\ Coming(f)' = Coming(f)
  BY <1>1 DEF InFlight, IsQuiet, Coming
<1>4. \A x : IsEvent(x)' => IsEvent(x) \/ x = z
  BY <1>1 DEF IsEvent, IsQuiet
<1>5. \A x \in Events : IsEvent(x) => x.seq \in Nat /\ x.seq <= next
  BY DEF NumbersOK, Events
<1>6. Events' = Events
  BY DEF Events, Bodies, Channels, Ending, Record, Outcome
<1>7. \A x \in Events : IsEvent(x)' => x.seq <= next'
  BY <1>1, <1>2, <1>4, <1>5
<1>8. ASSUME NEW x \in Events, NEW y \in Events, IsEvent(x)', IsEvent(y)',
             Before(x.body, y.body)
      PROVE  x.seq < y.seq
  <2>1. IsEvent(x)
    BY <1>2, <1>4, <1>8
  <2>2. CASE IsEvent(y)
    BY <1>8, <2>1, <2>2 DEF NumbersOK
  <2>3. CASE y = z
    BY <1>1, <1>2, <1>5, <2>1, <2>3
  <2> QED
    BY <1>4, <1>8, <2>2, <2>3
<1>9. ASSUME NEW f \in Emitters, NEW x \in Events, InFlight(f)', IsEvent(x)'
      PROVE  ~Before(Coming(f)'.body, x.body)
  <2>1. CASE f = e
    BY <1>2, <1>3, <1>4, <1>9, <2>1
  <2>2. CASE f # e
    <3>1. InFlight(f) /\ Coming(f)' = Coming(f)
      BY <1>3, <1>9, <2>2
    <3> QED
      BY <1>2, <1>4, <1>9, <3>1 DEF NumbersOK
  <2> QED
    BY <2>1, <2>2
<1> QED
  BY <1>6, <1>7, <1>8, <1>9 DEF NumbersOK, Before, Channels

LEMMA PushPlaces ==
    ASSUME HubInv, NumbersOK, PlacesOK, NEW e \in Emitters, Push(e)
    PROVE  PlacesOK'
<1>1. PICK x : x = Coming(e)
  OBVIOUS
<1>2. log' = Append(log, x) /\ feed' = feed /\ InFlight(e)
  BY <1>1 DEF Push, InFlight, IsQuiet, Coming
<1>3. x \in Events /\ log \in Seq(Events)
  BY <1>1, <1>2, QuietFacts DEF HubInv, HubType, InFlight, IsQuiet, Coming
<1>4. \A y \in Range(log) \cup {x} : y \in Events /\ IsEvent(y)
  <2>1. \A y \in Range(log) : y \in Events
    BY <1>3 DEF Range
  <2> QED
    BY <1>1, <1>2, <1>3, <2>1 DEF IsEvent, InFlight, Coming
<1>5. \A y \in Range(log) \cup {x} : ~Before(x.body, y.body)
  BY <1>1, <1>2, <1>4 DEF NumbersOK
<1>6. InPlace(log')
  BY <1>2, <1>3, <1>5, AppendInPlace DEF PlacesOK
<1> QED
  BY <1>2, <1>6 DEF PlacesOK, InPlace, Before, Channels

LEMMA SendPlaces ==
    ASSUME HubInv, NumbersOK, PlacesOK, NEW e \in Emitters, Send(e)
    PROVE  PlacesOK'
<1>1. PICK x : x = Coming(e)
  OBVIOUS
<1>2. /\ log' = log /\ InFlight(e)
      /\ feed' = [k \in Clients |-> IF k \in streaming THEN Fed(feed[k], x)
                                                       ELSE feed[k]]
  BY <1>1 DEF Send, InFlight, IsQuiet, Coming
<1>3. x \in Events /\ log \in Seq(Events) /\ Capacity \in Nat \ {0}
  BY <1>1, <1>2, QuietFacts, HubAssumption
  DEF HubInv, HubType, InFlight, IsQuiet, Coming
<1>4. ASSUME NEW events \in Seq(Events), Range(events) \subseteq Range(log),
             InPlace(events)
      PROVE  InPlace(Fed(events, x))
  <2>1. \A y \in Range(log) \cup {x} : y \in Events /\ IsEvent(y)
    <3>1. \A y \in Range(log) : y \in Events
      BY <1>3 DEF Range
    <3> QED
      BY <1>1, <1>2, <1>3, <3>1 DEF IsEvent, InFlight, Coming
  <2>2. \A y \in Range(events) \cup {x} : ~Before(x.body, y.body)
    BY <1>1, <1>2, <1>4, <2>1 DEF NumbersOK
  <2>3. CASE Len(events) < Capacity
    BY <1>3, <1>4, <2>2, <2>3, AppendInPlace DEF Fed
  <2>4. CASE ~(Len(events) < Capacity)
    <3>1. events # << >>
      BY <1>3, <2>4
    <3>2. PICK rest : rest = Tail(events)
      OBVIOUS
    <3>3. rest \in Seq(Events) /\ Range(rest) \subseteq Range(events)
          /\ InPlace(rest)
      BY <1>4, <3>1, <3>2, TailFacts, TailInPlace
    <3>4. InPlace(Append(rest, x))
      BY <1>3, <2>2, <3>3, AppendInPlace
    <3> QED
      BY <2>4, <3>2, <3>4 DEF Fed
  <2> QED
    BY <2>3, <2>4
<1>5. \A k \in Clients : feed[k] \in Seq(Events)
                         /\ Range(feed[k]) \subseteq Range(log)
  BY DEF HubInv, HubType, LoggedOK
<1>6. \A k \in Clients : InPlace(feed'[k])
  BY <1>2, <1>4, <1>5 DEF PlacesOK
<1> QED
  BY <1>2, <1>6 DEF PlacesOK, InPlace, Before, Channels

LEMMA WatchPlaces ==
    ASSUME HubInv, PlacesOK, NEW k \in Clients, Watch(k)
    PROVE  PlacesOK'
<1>1. log' = log
  BY DEF Watch, Subscribe, Receive, Leave
<1>2. feed \in [Clients -> Seq(Events)]
  BY DEF HubInv, HubType
<1>3. \A j \in Clients : InPlace(feed'[j])
  <2>1. CASE feed' = feed
    BY <2>1 DEF PlacesOK
  <2>2. CASE Receive(k)
    BY <1>2, <2>2, TailInPlace DEF Receive, PlacesOK
  <2>3. CASE Leave(k)
    BY <1>2, <2>3, EmptyInPlace DEF Leave, PlacesOK
  <2> QED
    BY <2>1, <2>2, <2>3 DEF Watch, Subscribe
<1> QED
  BY <1>1, <1>3 DEF PlacesOK, InPlace, Before, Channels

LEMMA SamePlaces ==
    ASSUME PlacesOK, UNCHANGED <<log, feed>>
    PROVE  PlacesOK'
BY DEF PlacesOK, InPlace, Before, Channels

(* The steps that make no event.                                           *)
LEMMA HubStory ==
    ASSUME HubInv, NumbersOK, PlacesOK,
           \/ UNCHANGED hubVars
           \/ \E e \in Emitters : Push(e) \/ Send(e) \/ Forget(e)
           \/ \E k \in Clients : Watch(k)
    PROVE  /\ NumbersOK' /\ PlacesOK' /\ \A x : IsEvent(x)' => IsEvent(x)
           /\ \A f \in Emitters :
                InFlight(f)' => InFlight(f) /\ Coming(f)' = Coming(f)
<1>1. CASE UNCHANGED hubVars
  <2>1. \A f \in Emitters : InFlight(f)' => InFlight(f) /\ Coming(f)' = Coming(f)
    BY <1>1 DEF hubVars, InFlight, Coming, IsQuiet
  <2>2. UNCHANGED <<next, log, feed>>
    BY <1>1 DEF hubVars
  <2> QED
    BY <1>1, <2>1, <2>2, SameHub, NumbersStay, SamePlaces
<1>2. ASSUME NEW e \in Emitters, Push(e) \/ Send(e) \/ Forget(e)
      PROVE  /\ NumbersOK' /\ PlacesOK' /\ \A x : IsEvent(x)' => IsEvent(x)
             /\ \A f \in Emitters :
                  InFlight(f)' => InFlight(f) /\ Coming(f)' = Coming(f)
  <2>1. \A x : IsEvent(x)' => IsEvent(x)
    BY <1>2, NoNewEvent
  <2>2. \A f \in Emitters : InFlight(f)' => InFlight(f) /\ Coming(f)' = Coming(f)
    BY <1>2, FewerInFlight
  <2>3. next' = next
    BY <1>2 DEF Push, Send, Forget
  <2>4. PlacesOK'
    <3>1. CASE Forget(e)
      BY <3>1, SamePlaces DEF Forget
    <3> QED
      BY <1>2, <3>1, PushPlaces, SendPlaces
  <2> QED
    BY <2>1, <2>2, <2>3, <2>4, NumbersStay
<1>3. ASSUME NEW k \in Clients, Watch(k)
      PROVE  /\ NumbersOK' /\ PlacesOK' /\ \A x : IsEvent(x)' => IsEvent(x)
             /\ \A f \in Emitters :
                  InFlight(f)' => InFlight(f) /\ Coming(f)' = Coming(f)
  <2>1. next' = next /\ emission' = emission
    BY <1>3 DEF Watch, Subscribe, Receive, Leave
  <2>2. \A f \in Emitters : InFlight(f)' => InFlight(f) /\ Coming(f)' = Coming(f)
    BY <2>1 DEF InFlight, Coming, IsQuiet
  <2> QED
    BY <1>3, <2>1, <2>2, WatchedEvents, WatchPlaces, NumbersStay
<1> QED
  BY <1>1, <1>2, <1>3

-----------------------------------------------------------------------------
(* The story: the steps of commands                                        *)

(* Command c does not go back: what events tell of it remains so.          *)
Onward(c) ==
    /\ cmd[c].pc \notin {"idle", "start"} => cmd'[c].pc \notin {"idle", "start"}
    /\ \A s \in Channels : drain[c][s].pc # "off" =>
         /\ cmd'[c].kind = cmd[c].kind /\ drain'[c][s].pc # "off"
         /\ drain[c][s].read <= drain'[c][s].read

LEMMA OnwardReached ==
    ASSUME DrainType, DrainType', NEW x \in Events, Onward(x.body.of),
           ReachedOK(x)
    PROVE  ReachedOK(x)'
<1>0. PICK c, s, b : c = x.body.of /\ s = x.body.what /\ b = x.body.bytes
  OBVIOUS
<1>1. /\ c \in Commands
      /\ s \in Channels => b \in Seq(1..WriteBound)
  BY <1>0 DEF Events, Bodies
<1>2. s = "started" => cmd'[c].pc \notin {"idle", "start"}
  BY <1>0 DEF ReachedOK, Onward
<1>3. ASSUME s \in Channels
      PROVE  /\ cmd'[c].kind = "job" /\ drain'[c][s].pc # "off"
             /\ b # << >> /\ b[1] <= drain'[c][s].read
  <2>1. /\ cmd[c].kind = "job" /\ drain[c][s].pc # "off"
        /\ b # << >> /\ b[1] <= drain[c][s].read
    BY <1>0, <1>3 DEF ReachedOK
  <2>2. /\ cmd'[c].kind = cmd[c].kind /\ drain'[c][s].pc # "off"
        /\ drain[c][s].read <= drain'[c][s].read
    BY <1>0, <1>3, <2>1 DEF Onward
  <2>3. b \in Seq(1..WriteBound) /\ 1 \in 1..Len(b)
    BY <1>1, <1>3, <2>1
  <2>4. b[1] \in Nat
    <3>1. b[1] \in 1..WriteBound
      BY <2>3, ElementOfSeq
    <3> QED BY <3>1
  <2>5. drain[c][s].read \in Nat /\ drain'[c][s].read \in Nat
    BY <1>1, <1>3 DEF DrainType, Drain
  <2> QED
    BY <2>1, <2>2, <2>4, <2>5
<1> QED
  BY <1>0, <1>2, <1>3 DEF ReachedOK, Channels

(* Only command c moves, and only its emitters start an emission.          *)
LEMMA StagesFrame ==
    ASSUME Stages, DrainType, DrainType', NEW c \in Commands,
           \A d \in Commands \ {c} : cmd'[d] = cmd[d] /\ drain'[d] = drain[d],
           \A d \in Commands \ {c}, part \in Parts :
             InFlight(<<d, part>>)' => /\ InFlight(<<d, part>>)
                                       /\ Coming(<<d, part>>)' = Coming(<<d, part>>),
           SourceOK(c)', StageOK(c)', Onward(c),
           \A x \in Events : IsEvent(x)' => IsEvent(x) \/ ReachedOK(x)'
    PROVE  Stages'
<1>1. ASSUME NEW d \in Commands \ {c}
      PROVE  SourceOK(d)' /\ StageOK(d)'
  <2>1. SourceOK(d) /\ StageOK(d) /\ cmd'[d] = cmd[d] /\ drain'[d] = drain[d]
    BY DEF Stages
  <2>2. \A part \in Parts :
          InFlight(<<d, part>>)' => /\ InFlight(<<d, part>>)
                                    /\ Coming(<<d, part>>)' = Coming(<<d, part>>)
    OBVIOUS
  <2>3. SourceOK(d)'
    BY <2>1, <2>2 DEF SourceOK, Handler, Task, Parts, Channels
  <2>4. StageOK(d)'
    BY <2>1 DEF StageOK, AllDrained, Unlaunched, Answering, Channels
  <2> QED
    BY <2>3, <2>4
<1>2. ASSUME NEW d \in Commands \ {c}
      PROVE  Onward(d)
  <2>1. \A s \in Channels : drain[d][s].read \in Nat
    BY DEF DrainType, Drain
  <2> QED
    BY <2>1 DEF Onward
<1>3. ASSUME NEW x \in Events, IsEvent(x)
      PROVE  ReachedOK(x)'
  <2>1. x.body.of \in Commands /\ ReachedOK(x)
    BY <1>3 DEF Stages, Events, Bodies
  <2> QED
    BY <1>2, <2>1, OnwardReached
<1>4. Events' = Events
  BY DEF Events, Bodies, Channels, Ending, Record, Outcome
<1>5. \A x \in Events : IsEvent(x)' => ReachedOK(x)'
  BY <1>3
<1> QED
  BY <1>1, <1>4, <1>5 DEF Stages

(* A step of the hub alone.                                                *)
LEMMA StagesHub ==
    ASSUME Stages, UNCHANGED <<cmd, drain>>, \A x : IsEvent(x)' => IsEvent(x),
           \A f \in Emitters :
             InFlight(f)' => InFlight(f) /\ Coming(f)' = Coming(f)
    PROVE  Stages'
<1>1. ASSUME NEW d \in Commands
      PROVE  SourceOK(d)' /\ StageOK(d)'
  <2>1. SourceOK(d) /\ StageOK(d) /\ cmd'[d] = cmd[d] /\ drain'[d] = drain[d]
    BY DEF Stages
  <2>2. \A part \in Parts :
          InFlight(<<d, part>>)' => /\ InFlight(<<d, part>>)
                                    /\ Coming(<<d, part>>)' = Coming(<<d, part>>)
    BY PartsEmit
  <2>3. SourceOK(d)'
    BY <2>1, <2>2 DEF SourceOK, Handler, Task, Parts, Channels
  <2>4. StageOK(d)'
    BY <2>1 DEF StageOK, AllDrained, Unlaunched, Answering, Channels
  <2> QED
    BY <2>3, <2>4
<1>2. Events' = Events
  BY DEF Events, Bodies, Channels, Ending, Record, Outcome
<1>3. \A x \in Events : IsEvent(x)' => ReachedOK(x)'
  BY DEF Stages, ReachedOK, Channels
<1> QED
  BY <1>1, <1>2, <1>3 DEF Stages

(* Which emitter an event on its way comes from.                           *)
LEMMA ComingFrom ==
    ASSUME Stages, NEW f \in Emitters, InFlight(f), NEW c \in Commands,
           Coming(f).body.of = c
    PROVE  /\ Coming(f).body.what = "started" => cmd[c].pc = "launch"
           /\ \A s \in Channels : Coming(f).body.what = s =>
                f = <<c, s>> /\ drain[c][s].pc = "telling"
<1>1. PICK d \in Commands, part \in Parts : f = <<d, part>>
  BY CommandsAssumption
<1>2. SourceOK(d)
  BY DEF Stages
<1>3. CASE part = "cancel"
  BY <1>1, <1>2, <1>3 DEF SourceOK, Channels
<1>4. CASE part = "handler"
  BY <1>1, <1>2, <1>4 DEF SourceOK, Handler, Channels
<1>5. CASE part = "task"
  BY <1>1, <1>2, <1>5 DEF SourceOK, Task, Channels
<1>6. CASE part \in Channels
  BY <1>1, <1>2, <1>6 DEF SourceOK, Channels
<1> QED
  BY <1>3, <1>4, <1>5, <1>6 DEF Parts

(* What an event says, in the terms of its command.                        *)
LEMMA EventSays ==
    ASSUME Stages, Truth, NEW x \in Events, IsEvent(x), NEW c \in Commands,
           x.body.of = c
    PROVE  /\ x.body.what = "finished" => cmd[c].pc \in Ended
           /\ x.body.what \in Channels =>
                /\ cmd[c].kind = "job"
                /\ drain[c][x.body.what].pc # "off"
                /\ x.body.bytes # << >>
                /\ x.body.bytes[1] <= drain[c][x.body.what].read
BY DEF Stages, ReachedOK, Truth, ToldOK

(* The handler or the task of a command moves, and nothing is told.        *)
LEMMA QuietWorkStory ==
    ASSUME EventsInv, EventsInv', Stages, NEW c \in Commands,
           \/ \E kind \in Kinds[c] : Arrive(c, kind)
           \/ LaunchFails(c) \/ Exited(c) \/ TimesOut(c) \/ CancelSeen(c)
           \/ Kill(c) \/ Drained(c) \/ Reply(c) \/ Finish(c)
           \/ ReportNothing(c) \/ Done(c)
    PROVE  Stages'
<1>1. /\ SourceOK(c) /\ StageOK(c) /\ DrainType /\ DrainType'
      /\ cmd \in [Commands -> Command]
      /\ \A s \in Channels : drain[c][s].read \in Nat
  BY DEF Stages, EventsInv, CommandInv, CmdType, DrainType, Drain
<1>2. UNCHANGED hubVars /\ drain' = drain
  BY DEF Arrive, LaunchFails, Exited, TimesOut, CancelSeen, Ends, Kill, Drained,
         Reply, Finish, ReportNothing, Done
<1>3. \A f \in Emitters : InFlight(f)' = InFlight(f) /\ Coming(f)' = Coming(f)
                          /\ IsQuiet(f) = ~InFlight(f)
  BY <1>2 DEF hubVars, InFlight, Coming, IsQuiet
<1>4. /\ Handler(c) \in Emitters /\ Task(c) \in Emitters
      /\ <<c, "cancel">> \in Emitters /\ \A s \in Channels : <<c, s>> \in Emitters
  BY PartsEmit
<1>5. /\ \A d \in Commands \ {c} : cmd'[d] = cmd[d]
      /\ SourceOK(c)' /\ StageOK(c)' /\ Onward(c)
  <2>1. ASSUME NEW kind \in Kinds[c], Arrive(c, kind)
        PROVE  /\ \A d \in Commands \ {c} : cmd'[d] = cmd[d]
               /\ SourceOK(c)' /\ StageOK(c)' /\ Onward(c)
    <3>1. /\ cmd[c].pc = "idle" /\ cmd'[c].ending = cmd[c].ending
          /\ cmd'[c].pc \in {"start", "launch"}
          /\ \A d \in Commands \ {c} : cmd'[d] = cmd[d]
      BY <1>1, <2>1 DEF Arrive, Command
    <3> QED
      BY <1>1, <1>2, <1>3, <1>4, <3>1
      DEF SourceOK, StageOK, Onward, AllDrained, Unlaunched, Answering
  <2>2. CASE LaunchFails(c)
    <3>1. /\ cmd[c].pc = "launch" /\ cmd'[c].ending = "unlaunched"
          /\ cmd'[c].pc \in {"finish", "done"} /\ ~InFlight(Handler(c))
          /\ cmd'[c].kind = cmd[c].kind
          /\ \A d \in Commands \ {c} : cmd'[d] = cmd[d]
      BY <1>1, <1>3, <1>4, <2>2 DEF LaunchFails, Command
    <3> QED
      BY <1>1, <1>2, <1>3, <1>4, <3>1
      DEF SourceOK, StageOK, Onward, AllDrained, Unlaunched, Answering
  <2>3. ASSUME NEW ending \in {"exited", "timed_out", "cancelled"},
               NEW pc \in {"drain", "kill"}, Ends(c, ending, pc)
        PROVE  /\ \A d \in Commands \ {c} : cmd'[d] = cmd[d]
               /\ SourceOK(c)' /\ StageOK(c)' /\ Onward(c)
    <3>1. /\ cmd[c].pc = "wait" /\ cmd'[c].ending = ending
          /\ cmd'[c].pc = pc /\ cmd'[c].kind = cmd[c].kind
          /\ \A d \in Commands \ {c} : cmd'[d] = cmd[d]
      BY <1>1, <2>3 DEF Ends, Command
    <3> QED
      BY <1>1, <1>2, <1>3, <1>4, <3>1
      DEF SourceOK, StageOK, Onward, AllDrained, Unlaunched, Answering
  <2>4. CASE Kill(c) \/ Drained(c)
    <3>1. /\ \/ cmd[c].pc = "kill" /\ cmd'[c].pc = "drain"
             \/ cmd[c].pc = "drain" /\ cmd'[c].pc = "finish" /\ AllDrained(c)
          /\ cmd'[c].ending = cmd[c].ending /\ cmd'[c].kind = cmd[c].kind
          /\ \A d \in Commands \ {c} : cmd'[d] = cmd[d]
      BY <1>1, <2>4 DEF Kill, Drained, Goto, Command
    <3> QED
      BY <1>1, <1>2, <1>3, <1>4, <3>1
      DEF SourceOK, StageOK, Onward, AllDrained, Unlaunched, Answering
  <2>5. CASE Reply(c) \/ Finish(c) \/ ReportNothing(c)
    <3>1. /\ cmd[c].pc \in {"finish", "report"}
          /\ \/ cmd'[c].pc = "done"
             \/ cmd'[c].pc = "report" /\ cmd[c].kind = "job"
          /\ cmd'[c].ending = cmd[c].ending /\ cmd'[c].kind = cmd[c].kind
          /\ \A d \in Commands \ {c} : cmd'[d] = cmd[d]
      BY <1>1, <2>5 DEF Reply, Finish, ReportNothing, Goto, Command
    <3> QED
      BY <1>1, <1>2, <1>3, <1>4, <3>1
      DEF SourceOK, StageOK, Onward, AllDrained, Unlaunched, Answering
  <2>6. CASE Done(c)
    <3>1. /\ cmd[c].pc = "finished" /\ cmd'[c].pc = "done"
          /\ ~InFlight(Handler(c)) /\ ~InFlight(Task(c))
          /\ cmd'[c].ending = cmd[c].ending /\ cmd'[c].kind = cmd[c].kind
          /\ \A d \in Commands \ {c} : cmd'[d] = cmd[d]
      BY <1>1, <2>6 DEF Done, Goto, Command, InFlight
    <3> QED
      BY <1>1, <1>2, <1>3, <1>4, <3>1
      DEF SourceOK, StageOK, Onward, AllDrained, Unlaunched, Answering
  <2> QED
    BY <2>1, <2>2, <2>3, <2>4, <2>5, <2>6 DEF Exited, TimesOut, CancelSeen
<1>6. \A x : IsEvent(x)' => IsEvent(x)
  BY <1>2, SameHub DEF EventsInv
<1>7. \A d \in Commands \ {c}, part \in Parts :
        InFlight(<<d, part>>)' => /\ InFlight(<<d, part>>)
                                  /\ Coming(<<d, part>>)' = Coming(<<d, part>>)
  BY <1>3, PartsEmit
<1> QED
  BY <1>1, <1>2, <1>5, <1>6, <1>7, StagesFrame

LEMMA LaunchStory ==
    ASSUME EventsInv, EventsInv', Stages, NEW c \in Commands, Launch(c)
    PROVE  Stages'
<1>1. /\ SourceOK(c) /\ StageOK(c) /\ DrainType /\ DrainType'
      /\ cmd \in [Commands -> Command] /\ drain \in [Commands -> [Channels -> Drain]]
  BY DEF Stages, EventsInv, CommandInv, CmdType, DrainType
<1>2. /\ UNCHANGED hubVars /\ cmd[c].pc = "launch" /\ IsQuiet(Handler(c))
      /\ cmd' = [cmd EXCEPT ![c].pc = "wait"]
      /\ drain' = [drain EXCEPT ![c] =
                     [s \in Channels |-> [NoDrain EXCEPT !.pc = "reading"]]]
  BY DEF Launch, Goto
<1>3. /\ cmd'[c].pc = "wait" /\ cmd'[c].kind = cmd[c].kind
      /\ cmd'[c].ending = cmd[c].ending
      /\ \A s \in Channels : drain[c][s].pc = "off" /\ drain'[c][s].pc = "reading"
      /\ \A d \in Commands \ {c} : cmd'[d] = cmd[d] /\ drain'[d] = drain[d]
  BY <1>1, <1>2 DEF Command, StageOK, Unlaunched, NoDrain
<1>4. /\ \A f \in Emitters : InFlight(f)' = InFlight(f) /\ Coming(f)' = Coming(f)
      /\ ~InFlight(Handler(c))
  BY <1>2 DEF hubVars, InFlight, Coming, IsQuiet
<1>5. /\ Handler(c) \in Emitters /\ Task(c) \in Emitters
      /\ <<c, "cancel">> \in Emitters /\ \A s \in Channels : <<c, s>> \in Emitters
      /\ \A d \in Commands, part \in Parts : <<d, part>> \in Emitters
  BY PartsEmit
<1>6. SourceOK(c)'
  BY <1>1, <1>2, <1>3, <1>4, <1>5 DEF SourceOK
<1>7. StageOK(c)' /\ Onward(c)
  BY <1>1, <1>2, <1>3 DEF StageOK, Onward, Unlaunched, Answering
<1>8. \A x : IsEvent(x)' => IsEvent(x)
  BY <1>2, SameHub DEF EventsInv
<1> QED
  BY <1>1, <1>3, <1>4, <1>5, <1>6, <1>7, <1>8, StagesFrame

LEMMA AbandonStory ==
    ASSUME EventsInv, EventsInv', Stages, NEW c \in Commands, Abandon(c)
    PROVE  Stages'
<1>1. /\ SourceOK(c) /\ StageOK(c) /\ DrainType /\ DrainType' /\ HubInv
      /\ cmd \in [Commands -> Command]
      /\ \A s \in Channels : drain[c][s].read \in Nat
  BY DEF Stages, EventsInv, CommandInv, CmdType, DrainType, Drain
<1>2. /\ Waits(c) /\ drain' = drain /\ cmd' = [cmd EXCEPT ![c].pc = "gone"]
      /\ \/ IsQuiet(Handler(c)) /\ UNCHANGED hubVars
         \/ Forget(Handler(c))
      /\ cmd[c].pc \in {"launch", "finished"} => ~IsQuiet(Handler(c))
  BY DEF Abandon, Goto
<1>3. /\ cmd'[c].pc = "gone" /\ cmd'[c].kind = cmd[c].kind
      /\ cmd'[c].ending = cmd[c].ending
      /\ \A d \in Commands \ {c} : cmd'[d] = cmd[d] /\ drain'[d] = drain[d]
  BY <1>1, <1>2 DEF Command
<1>4. /\ Handler(c) \in Emitters /\ Task(c) \in Emitters
      /\ <<c, "cancel">> \in Emitters /\ \A s \in Channels : <<c, s>> \in Emitters
      /\ \A d \in Commands, part \in Parts : <<d, part>> \in Emitters
  BY PartsEmit
<1>5. /\ \A f \in Emitters : InFlight(f)' => InFlight(f) /\ Coming(f)' = Coming(f)
      /\ ~InFlight(Handler(c))'
      /\ \A x : IsEvent(x)' => IsEvent(x)
  <2>1. CASE IsQuiet(Handler(c)) /\ UNCHANGED hubVars
    <3>1. /\ \A f \in Emitters : InFlight(f)' => InFlight(f) /\ Coming(f)' = Coming(f)
          /\ ~InFlight(Handler(c))'
      BY <2>1 DEF hubVars, InFlight, Coming, IsQuiet
    <3> QED
      BY <1>1, <2>1, <3>1, SameHub
  <2>2. CASE Forget(Handler(c))
    <3>1. ~InFlight(Handler(c))'
      <4>1. emission' = [emission EXCEPT ![Handler(c)] = Quiet]
            /\ emission \in [Emitters -> {Quiet} \cup Emission]
        BY <1>1, <2>2 DEF Forget, HubInv, HubType
      <4> QED
        BY <1>4, <4>1, QuietFacts DEF InFlight, IsQuiet
    <3> QED
      BY <1>1, <1>4, <2>2, <3>1, FewerInFlight, NoNewEvent
  <2> QED
    BY <1>2, <2>1, <2>2
<1>6. SourceOK(c)'
  <2>1. ~InFlight(Task(c))'
    BY <1>1, <1>2, <1>4, <1>5 DEF SourceOK, Waits
  <2> QED
    BY <1>1, <1>2, <1>3, <1>4, <1>5, <2>1 DEF SourceOK
<1>7. StageOK(c)' /\ Onward(c)
  BY <1>1, <1>2, <1>3 DEF StageOK, Onward, Unlaunched, Answering, Waits
<1> QED
  BY <1>1, <1>3, <1>4, <1>5, <1>6, <1>7, StagesFrame

-----------------------------------------------------------------------------
(* The moves of a drain                                                    *)

Reads(d, q, n) ==
    /\ Readable(d, n) /\ q.pc = "reading" /\ q.read = d.read + n
    /\ q.written = d.written /\ q.chunk = d.chunk
    /\ q.kept = Kept(d, Ahead(d, n)).kept
    /\ q.truncated = Kept(d, Ahead(d, n)).truncated

Tells(d, q, n) ==
    /\ Readable(d, n) /\ q.pc = "telling" /\ q.read = d.read + n
    /\ q.chunk = Ahead(d, n)
    /\ q.written = d.written /\ q.kept = d.kept /\ q.truncated = d.truncated

Keeps(d, q) ==
    /\ d.pc = "telling" /\ q.pc = "reading" /\ q.chunk = << >>
    /\ q.read = d.read /\ q.written = d.written
    /\ q.kept = Kept(d, d.chunk).kept
    /\ q.truncated = Kept(d, d.chunk).truncated

Stops(d, q) ==
    /\ d.pc = "reading" /\ d.read = d.written /\ q.pc = "ended"
    /\ q.read = d.read /\ q.written = d.written /\ q.chunk = d.chunk
    /\ q.kept = d.kept /\ q.truncated = d.truncated

Grows(d, q) ==
    /\ q.pc = d.pc /\ q.written = d.written + 1
    /\ q.read = d.read /\ q.chunk = d.chunk
    /\ q.kept = d.kept /\ q.truncated = d.truncated

LEMMA KeptFields ==
    ASSUME NEW d \in Drain, NEW bytes \in Chunks
    PROVE  LET k == Kept(d, bytes)
           IN  /\ k.pc = d.pc /\ k.written = d.written
               /\ k.read = d.read /\ k.chunk = d.chunk
BY DEF Kept, Drain

LEMMA DrainMoves ==
    ASSUME DrainType, NEW c \in Commands, NEW s \in Channels,
           DrainWork(c, s) \/ Write(c, s)
    PROVE  \E q \in Drain :
             /\ drain' = [drain EXCEPT ![c][s] = q]
             /\ \/ \E n \in 1..Chunk : \/ ReadChunk(c, s, n) /\ Reads(drain[c][s], q, n)
                                       \/ TellChunk(c, s, n) /\ Tells(drain[c][s], q, n)
                \/ KeepChunk(c, s) /\ Keeps(drain[c][s], q)
                \/ PipeEnds(c, s) /\ Stops(drain[c][s], q)
                \/ Write(c, s) /\ Grows(drain[c][s], q)
<1>0. PICK d : d = drain[c][s]
  OBVIOUS
<1>1. d \in Drain /\ DrainType'
  BY <1>0, DrainStep DEF DrainType, DrainWork
<1>2. \A q : drain' = [drain EXCEPT ![c][s] = q] => q \in Drain
  <2> SUFFICES ASSUME NEW q, drain' = [drain EXCEPT ![c][s] = q]
               PROVE  q \in Drain
    OBVIOUS
  <2>1. drain'[c][s] = q
    BY DEF DrainType
  <2>2. drain' \in [Commands -> [Channels -> Drain]]
    BY <1>1 DEF DrainType, Drain, Channels
  <2> QED
    BY <2>1, <2>2
<1>3. ASSUME NEW n \in 1..Chunk, ReadChunk(c, s, n)
      PROVE  \E q \in Drain : drain' = [drain EXCEPT ![c][s] = q] /\ Reads(d, q, n)
  <2> DEFINE k == Kept(d, Ahead(d, n))
             q == [k EXCEPT !.read = d.read + n]
  <2>1. Readable(d, n) /\ drain' = [drain EXCEPT ![c][s] = [k EXCEPT !.read = @ + n]]
    BY <1>0, <1>3 DEF ReadChunk
  <2>2. Ahead(d, n) \in Chunks
    BY <1>1, <2>1, AheadType
  <2>3. k \in Drain /\ k.read = d.read /\ k.pc = d.pc /\ k.written = d.written
        /\ k.chunk = d.chunk /\ d.pc = "reading"
    BY <1>1, <2>1, <2>2, KeptType, KeptFields DEF Readable
  <2>4. drain' = [drain EXCEPT ![c][s] = q]
    <3> HIDE DEF k
    <3> QED BY <2>1, <2>3
  <2>5. Reads(d, q, n)
    <3>1. /\ q.kept = k.kept /\ q.truncated = k.truncated /\ q.pc = k.pc
          /\ q.written = k.written /\ q.chunk = k.chunk /\ q.read = d.read + n
      <4> HIDE DEF k
      <4> QED BY <2>3 DEF Drain
    <3> HIDE DEF q
    <3> QED BY <2>1, <2>3, <3>1 DEF Reads, k
  <2> HIDE DEF q
  <2> QED
    BY <1>2, <2>4, <2>5
<1>4. ASSUME NEW n \in 1..Chunk, TellChunk(c, s, n)
      PROVE  \E q \in Drain : drain' = [drain EXCEPT ![c][s] = q] /\ Tells(d, q, n)
  <2> DEFINE b == Ahead(d, n)
             q == [d EXCEPT !.pc = "telling", !.chunk = b, !.read = d.read + n]
  <2>1. Readable(d, n)
        /\ drain' = [drain EXCEPT ![c][s].pc = "telling", ![c][s].chunk = b,
                                  ![c][s].read = @ + n]
    BY <1>0, <1>4 DEF TellChunk
  <2>2. drain' = [drain EXCEPT ![c][s] = q]
    <3> HIDE DEF b
    <3>1. drain[c][s] \in Drain
      BY DEF DrainType
    <3>2. drain' = [drain EXCEPT ![c][s] =
                      [drain[c][s] EXCEPT !.pc = "telling", !.chunk = b,
                                          !.read = drain[c][s].read + n]]
      BY <2>1, <3>1 DEF DrainType, Drain
    <3> QED BY <1>0, <3>2
  <2>3. Tells(d, q, n)
    <3>1. /\ q.pc = "telling" /\ q.chunk = b /\ q.read = d.read + n
          /\ q.written = d.written /\ q.kept = d.kept /\ q.truncated = d.truncated
      <4> HIDE DEF b
      <4> QED BY <1>1 DEF Drain
    <3> HIDE DEF q
    <3> QED BY <2>1, <3>1 DEF Tells, b
  <2> HIDE DEF q
  <2> QED
    BY <1>2, <2>2, <2>3
<1>5. ASSUME KeepChunk(c, s)
      PROVE  \E q \in Drain : drain' = [drain EXCEPT ![c][s] = q] /\ Keeps(d, q)
  <2> DEFINE k == Kept(d, d.chunk)
             q == [k EXCEPT !.pc = "reading", !.chunk = << >>]
  <2>1. drain' = [drain EXCEPT ![c][s] = q] /\ d.pc = "telling"
    BY <1>0, <1>5 DEF KeepChunk
  <2>2. k \in Drain /\ k.read = d.read /\ k.written = d.written
    BY <1>1, KeptType, KeptFields DEF Drain, Chunks
  <2>3. Keeps(d, q)
    <3>1. /\ q.pc = "reading" /\ q.chunk = << >> /\ q.read = k.read
          /\ q.written = k.written /\ q.kept = k.kept /\ q.truncated = k.truncated
      <4> HIDE DEF k
      <4> QED BY <2>2 DEF Drain
    <3> HIDE DEF q
    <3> QED BY <2>1, <2>2, <3>1 DEF Keeps, k
  <2> HIDE DEF q
  <2> QED
    BY <1>2, <2>1, <2>3
<1>6. ASSUME PipeEnds(c, s)
      PROVE  \E q \in Drain : drain' = [drain EXCEPT ![c][s] = q] /\ Stops(d, q)
  <2> DEFINE q == [d EXCEPT !.pc = "ended"]
  <2>1. drain' = [drain EXCEPT ![c][s] = q] /\ d.pc = "reading" /\ d.read = d.written
    BY <1>0, <1>1, <1>6 DEF PipeEnds, DrainType, Drain
  <2>2. Stops(d, q)
    BY <1>1, <2>1 DEF Drain, Stops
  <2> HIDE DEF q
  <2> QED
    BY <1>2, <2>1, <2>2
<1>7. ASSUME Write(c, s)
      PROVE  \E q \in Drain : drain' = [drain EXCEPT ![c][s] = q] /\ Grows(d, q)
  <2> DEFINE q == [d EXCEPT !.written = d.written + 1]
  <2>1. drain' = [drain EXCEPT ![c][s] = q]
    BY <1>0, <1>1, <1>7 DEF Write, DrainType, Drain
  <2>2. Grows(d, q)
    BY <1>1, <2>1 DEF Drain, Grows
  <2> HIDE DEF q
  <2> QED
    BY <1>2, <2>1, <2>2
<1> QED
  BY <1>0, <1>3, <1>4, <1>5, <1>6, <1>7 DEF DrainWork

(* A drain moves, and nothing is told.                                     *)
LEMMA QuietDrainStory ==
    ASSUME EventsInv, EventsInv', Stages, NEW c \in Commands, NEW s \in Channels,
           NEW q \in Drain, drain' = [drain EXCEPT ![c][s] = q],
           \/ \E n \in 1..Chunk : ReadChunk(c, s, n) /\ Reads(drain[c][s], q, n)
           \/ KeepChunk(c, s) /\ Keeps(drain[c][s], q)
           \/ PipeEnds(c, s) /\ Stops(drain[c][s], q)
           \/ Write(c, s) /\ Grows(drain[c][s], q)
    PROVE  Stages'
<1>0. PICK d : d = drain[c][s]
  OBVIOUS
<1>1. /\ SourceOK(c) /\ StageOK(c) /\ DrainType /\ DrainType' /\ d \in Drain
      /\ \A x \in Channels : drain[c][x].read \in Nat
  BY <1>0 DEF Stages, EventsInv, DrainType, Drain
<1>2. UNCHANGED hubVars /\ cmd' = cmd
  BY DEF ReadChunk, KeepChunk, PipeEnds, Write
<1>3. /\ d.read <= q.read
      /\ \/ d.pc = "reading" /\ q.pc \in {"reading", "ended"}
         \/ q.pc = d.pc /\ q.chunk = d.chunk
         \/ d.pc = "telling" /\ q.pc = "reading" /\ IsQuiet(<<c, s>>)
  <2>1. d.read \in Nat
    BY <1>1 DEF Drain
  <2> QED
    BY <1>0, <2>1 DEF Reads, Keeps, Stops, Grows, Readable, KeepChunk
<1>4. /\ drain'[c][s] = q
      /\ \A x \in Channels \ {s} : drain'[c][x] = drain[c][x]
      /\ \A b \in Commands \ {c} : drain'[b] = drain[b]
  BY <1>1 DEF DrainType
<1>5. /\ \A f \in Emitters : InFlight(f)' = InFlight(f) /\ Coming(f)' = Coming(f)
                             /\ IsQuiet(f) = ~InFlight(f)
  BY <1>2 DEF hubVars, InFlight, Coming, IsQuiet
<1>6. /\ Handler(c) \in Emitters /\ Task(c) \in Emitters
      /\ <<c, "cancel">> \in Emitters /\ \A x \in Channels : <<c, x>> \in Emitters
      /\ \A b \in Commands, part \in Parts : <<b, part>> \in Emitters
  BY PartsEmit
<1>7. SourceOK(c)'
  <2>1. ASSUME NEW x \in Channels, InFlight(<<c, x>>)'
        PROVE  LET b == Coming(<<c, x>>)'.body
               IN  /\ b.of = c /\ b.what = x
                   /\ drain'[c][x].pc = "telling" /\ b.bytes = drain'[c][x].chunk
    <3>1. InFlight(<<c, x>>) /\ Coming(<<c, x>>)' = Coming(<<c, x>>)
      BY <1>5, <1>6, <2>1
    <3>2. LET b == Coming(<<c, x>>).body
          IN  /\ b.of = c /\ b.what = x
              /\ drain[c][x].pc = "telling" /\ b.bytes = drain[c][x].chunk
      BY <1>1, <3>1 DEF SourceOK
    <3>3. CASE x = s
      BY <1>0, <1>3, <1>4, <1>5, <1>6, <3>1, <3>2, <3>3
    <3>4. CASE x # s
      BY <1>4, <3>1, <3>2, <3>4
    <3> QED
      BY <3>3, <3>4
  <2>2. Channels' = Channels
    BY DEF Channels
  <2> QED
    BY <1>1, <1>2, <1>5, <1>6, <2>1, <2>2 DEF SourceOK
<1>8. StageOK(c)' /\ Onward(c)
  <2>1. /\ \A x \in Channels : drain[c][x].pc = "off" => drain'[c][x].pc = "off"
        /\ \A x \in Channels : drain[c][x].pc = "ended" => drain'[c][x].pc = "ended"
        /\ \A x \in Channels : drain[c][x].pc # "off" => drain'[c][x].pc # "off"
        /\ \A x \in Channels : drain[c][x].pc # "telling" => drain'[c][x].pc # "telling"
        /\ \A x \in Channels : drain[c][x].read <= drain'[c][x].read
    <3> SUFFICES ASSUME NEW x \in Channels
                 PROVE  /\ drain[c][x].pc = "off" => drain'[c][x].pc = "off"
                        /\ drain[c][x].pc = "ended" => drain'[c][x].pc = "ended"
                        /\ drain[c][x].pc # "off" => drain'[c][x].pc # "off"
                        /\ drain[c][x].pc # "telling" => drain'[c][x].pc # "telling"
                        /\ drain[c][x].read <= drain'[c][x].read
      OBVIOUS
    <3>1. CASE x = s
      BY <1>0, <1>3, <1>4, <3>1
    <3>2. CASE x # s
      BY <1>1, <1>4, <3>2
    <3> QED
      BY <3>1, <3>2
  <2>2. StageOK(c)'
    BY <1>1, <1>2, <2>1 DEF StageOK, AllDrained, Unlaunched, Answering, Channels
  <2>3. Onward(c)
    BY <1>2, <2>1 DEF Onward
  <2> QED
    BY <2>2, <2>3
<1>9. \A x : IsEvent(x)' => IsEvent(x)
  BY <1>2, SameHub DEF EventsInv
<1> QED
  BY <1>1, <1>2, <1>4, <1>5, <1>6, <1>7, <1>8, <1>9, StagesFrame
-----------------------------------------------------------------------------
(* The story: the steps that draw a number                                 *)

LEMMA DrawnFrom ==
    ASSUME HubInv, NEW e \in Emitters, NEW body \in Bodies, Draw(e, body)
    PROVE  /\ ~InFlight(e) /\ InFlight(e)' /\ Coming(e)'.body = body
           /\ \A f \in Emitters \ {e} : /\ InFlight(f)' = InFlight(f)
                                        /\ Coming(f)' = Coming(f)
           /\ UNCHANGED <<log, feed>>
<1>1. /\ emission' = [emission EXCEPT ![e] =
                        [phase |-> "drawn",
                         event |-> [seq |-> next + 1, body |-> body]]]
      /\ emission \in [Emitters -> {Quiet} \cup Emission]
      /\ IsQuiet(e) /\ UNCHANGED <<log, feed>>
  BY DEF Draw, HubInv, HubType
<1> QED
  BY <1>1 DEF InFlight, Coming, IsQuiet

LEMMA DrawStory ==
    ASSUME EventsInv, EventsInv', StoryInv, NEW c \in Commands, NEW part \in Parts,
           NEW body \in Bodies, Draw(<<c, part>>, body),
           \A d \in Commands \ {c} : cmd'[d] = cmd[d] /\ drain'[d] = drain[d],
           SourceOK(c)', StageOK(c)', Onward(c),
           \A x \in Events : x.body = body => ReachedOK(x)',
           ~Before(body, body),
           \A x \in Events : IsEvent(x) => ~Before(body, x.body),
           \A f \in Emitters : InFlight(f) => ~Before(Coming(f).body, body)
    PROVE  StoryInv'
<1>1. /\ HubInv /\ DrainType /\ DrainType' /\ Stages /\ NumbersOK /\ PlacesOK
      /\ <<c, part>> \in Emitters
  BY PartsEmit DEF EventsInv, StoryInv
<1>2. /\ \A f \in Emitters \ {<<c, part>>} : /\ InFlight(f)' = InFlight(f)
                                             /\ Coming(f)' = Coming(f)
      /\ UNCHANGED <<log, feed>>
  BY <1>1, DrawnFrom
<1>3. NumbersOK'
  BY <1>1, DrawNumbers
<1>4. PlacesOK'
  BY <1>1, <1>2, SamePlaces
<1>5. \A x \in Events : IsEvent(x)' => IsEvent(x) \/ ReachedOK(x)'
  BY <1>1, DrawnEvent
<1>6. ASSUME NEW d \in Commands \ {c}, NEW p \in Parts, InFlight(<<d, p>>)'
      PROVE  InFlight(<<d, p>>) /\ Coming(<<d, p>>)' = Coming(<<d, p>>)
  <2>1. <<d, p>> \in Emitters \ {<<c, part>>}
    BY PartsEmit
  <2> QED
    BY <1>2, <1>6, <2>1
<1>7. Stages'
  BY <1>1, <1>5, <1>6, StagesFrame
<1> QED
  BY <1>3, <1>4, <1>7 DEF StoryInv

(* The emitters of a command, one by one.                                  *)
LEMMA OtherEmitters ==
    ASSUME NEW c \in Commands
    PROVE  /\ Handler(c) # Task(c) /\ Handler(c) # <<c, "cancel">>
           /\ Task(c) # <<c, "cancel">>
           /\ \A s \in Channels : /\ <<c, s>> # Handler(c) /\ <<c, s>> # Task(c)
                                  /\ <<c, s>> # <<c, "cancel">>
           /\ Handler(c) = <<c, "handler">> /\ Task(c) = <<c, "task">>
           /\ {"handler", "task", "cancel"} \subseteq Parts /\ Channels \subseteq Parts
BY DEF Handler, Task, Channels, Parts

LEMMA AnnounceStory ==
    ASSUME EventsInv, EventsInv', StoryInv, NEW c \in Commands, Announce(c)
    PROVE  StoryInv'
<1>0. PICK body : body = Body(c, "started", << >>, "none")
  OBVIOUS
<1>1. /\ HubInv /\ Stages /\ Truth /\ SourceOK(c) /\ StageOK(c) /\ DrainType
      /\ cmd \in [Commands -> Command]
      /\ \A s \in Channels : drain[c][s].read \in Nat
  BY DEF StoryInv, Stages, EventsInv, CommandInv, CmdType, DrainType, Drain
<1>2. << >> \in Seq(1..WriteBound)
  OBVIOUS
<1>3. /\ body \in Bodies /\ body.of = c /\ body.what = "started"
  BY <1>0, <1>2 DEF Body, Bodies, Ending
<1>4. /\ cmd[c].pc = "start" /\ Draw(Handler(c), body)
      /\ cmd' = [cmd EXCEPT ![c].pc = "launch"] /\ drain' = drain
  BY <1>0 DEF Announce, Goto
<1>5. /\ cmd'[c].pc = "launch" /\ cmd'[c].kind = cmd[c].kind
      /\ cmd'[c].ending = cmd[c].ending
      /\ \A d \in Commands \ {c} : cmd'[d] = cmd[d] /\ drain'[d] = drain[d]
  BY <1>1, <1>4 DEF Command
<1>6. /\ InFlight(Handler(c))' /\ Coming(Handler(c))'.body = body
      /\ \A f \in Emitters \ {Handler(c)} : /\ InFlight(f)' = InFlight(f)
                                            /\ Coming(f)' = Coming(f)
  BY <1>1, <1>3, <1>4, DrawnFrom, PartsEmit
<1>7. SourceOK(c)'
  BY <1>1, <1>3, <1>4, <1>5, <1>6, PartsEmit, OtherEmitters DEF SourceOK
<1>8. StageOK(c)' /\ Onward(c)
  BY <1>1, <1>4, <1>5 DEF StageOK, Onward, Unlaunched, Answering
<1>9. \A x \in Events : x.body = body => ReachedOK(x)'
  BY <1>3, <1>5 DEF ReachedOK, Channels
<1>10. ~Before(body, body)
  BY <1>3 DEF Before, Channels
<1>11. \A x \in Events : IsEvent(x) => ~Before(body, x.body)
  <2> SUFFICES ASSUME NEW x \in Events, IsEvent(x), Before(body, x.body)
               PROVE  FALSE
    OBVIOUS
  <2>1. x.body.of = c /\ x.body.what \in Channels \cup {"finished"}
    BY <1>3 DEF Before, Channels
  <2> QED
    BY <1>1, <1>4, <2>1, EventSays DEF Ended, StageOK, Unlaunched
<1>12. \A f \in Emitters : InFlight(f) => ~Before(Coming(f).body, body)
  BY <1>3 DEF Before, Channels
<1> QED
  BY <1>3, <1>4, <1>5, <1>7, <1>8, <1>9, <1>10, <1>11, <1>12, DrawStory,
     OtherEmitters

(* The event of the end: nothing of the command is on its way any more.    *)
LEMMA FinishedStory ==
    ASSUME EventsInv, EventsInv', StoryInv, NEW c \in Commands,
           NEW part \in {"handler", "task"}, NEW body \in Bodies,
           Draw(<<c, part>>, body), body.of = c, body.what = "finished",
           \/ part = "handler" /\ cmd[c].pc = "finish"
           \/ part = "task" /\ cmd[c].pc = "report",
           Goto(c, "finished"), drain' = drain
    PROVE  StoryInv'
<1>1. /\ HubInv /\ Stages /\ Truth /\ SourceOK(c) /\ StageOK(c) /\ DrainType
      /\ cmd \in [Commands -> Command] /\ <<c, part>> \in Emitters
      /\ \A s \in Channels : drain[c][s].read \in Nat
  <2>1. <<c, part>> \in Emitters
    BY CommandsAssumption DEF Parts
  <2> QED
    BY <2>1
    DEF StoryInv, Stages, EventsInv, CommandInv, CmdType, DrainType, Drain
<1>2. cmd[c].pc \in {"finish", "report"} /\ cmd' = [cmd EXCEPT ![c].pc = "finished"]
  BY DEF Goto
<1>3. /\ cmd'[c].pc = "finished" /\ cmd'[c].kind = cmd[c].kind
      /\ cmd'[c].ending = cmd[c].ending
      /\ \A d \in Commands \ {c} : cmd'[d] = cmd[d] /\ drain'[d] = drain[d]
  BY <1>1, <1>2 DEF Command
<1>4. /\ InFlight(<<c, part>>)' /\ Coming(<<c, part>>)'.body = body
      /\ \A f \in Emitters \ {<<c, part>>} : /\ InFlight(f)' = InFlight(f)
                                             /\ Coming(f)' = Coming(f)
  BY <1>1, DrawnFrom
<1>5. ~InFlight(Handler(c)) /\ ~InFlight(Task(c))
  BY <1>1, <1>2 DEF SourceOK
<1>6. SourceOK(c)'
  <2>1. CASE part = "handler"
    BY <1>1, <1>3, <1>4, <1>5, <2>1, PartsEmit, OtherEmitters DEF SourceOK
  <2>2. CASE part = "task"
    <3>1. cmd[c].kind = "job"
      BY <1>1, <2>2 DEF StageOK
    <3> QED
      BY <1>1, <1>3, <1>4, <1>5, <2>2, <3>1, PartsEmit, OtherEmitters DEF SourceOK
  <2> QED
    BY <2>1, <2>2
<1>7. StageOK(c)' /\ Onward(c)
  BY <1>1, <1>2, <1>3 DEF StageOK, Onward, Unlaunched, Answering, AllDrained
<1>8. \A x \in Events : x.body = body => ReachedOK(x)'
  BY DEF ReachedOK, Channels
<1>9. /\ ~Before(body, body)
      /\ \A x \in Events : IsEvent(x) => ~Before(body, x.body)
  BY DEF Before, Channels
<1>10. \A f \in Emitters : InFlight(f) => ~Before(Coming(f).body, body)
  <2> SUFFICES ASSUME NEW f \in Emitters, InFlight(f), Before(Coming(f).body, body)
               PROVE  FALSE
    OBVIOUS
  <2>1. /\ Coming(f).body.of = c
        /\ Coming(f).body.what \in Channels \cup {"started"}
    BY DEF Before, Channels
  <2>2. CASE Coming(f).body.what = "started"
    BY <1>1, <1>2, <2>1, <2>2, ComingFrom
  <2>3. CASE Coming(f).body.what \in Channels
    <3>1. PICK s \in Channels : drain[c][s].pc = "telling"
      BY <1>1, <2>1, <2>3, ComingFrom
    <3> QED
      BY <1>1, <1>2, <3>1 DEF StageOK, Answering, AllDrained
  <2> QED
    BY <2>1, <2>2, <2>3
<1> QED
  BY <1>3, <1>6, <1>7, <1>8, <1>9, <1>10, DrawStory DEF Parts

LEMMA EndStory ==
    ASSUME EventsInv, EventsInv', StoryInv, NEW c \in Commands,
           Tell(c) \/ Report(c)
    PROVE  StoryInv'
<1>1. /\ << >> \in Seq(1..WriteBound)
      /\ cmd[c] \in Command /\ record[c] \in Record
  BY DEF EventsInv, CommandInv, CmdType
<1>2. CASE Tell(c)
  <2>1. PICK body : body = Body(c, "finished", << >>, cmd[c].ending)
    OBVIOUS
  <2>2. body \in Bodies /\ body.of = c /\ body.what = "finished"
    BY <1>1, <2>1 DEF Body, Bodies, Command
  <2>3. /\ Draw(<<c, "handler">>, body) /\ cmd[c].pc = "finish"
        /\ Goto(c, "finished") /\ drain' = drain
    BY <1>2, <2>1 DEF Tell, Handler
  <2> QED
    BY <2>2, <2>3, FinishedStory
<1>3. CASE Report(c)
  <2>1. PICK body : body = Body(c, "finished", << >>, record[c])
    OBVIOUS
  <2>2. body \in Bodies /\ body.of = c /\ body.what = "finished"
    BY <1>1, <2>1 DEF Body, Bodies
  <2>3. /\ Draw(<<c, "task">>, body) /\ cmd[c].pc = "report"
        /\ Goto(c, "finished") /\ drain' = drain
    BY <1>3, <2>1 DEF Report, Task
  <2> QED
    BY <2>2, <2>3, FinishedStory
<1> QED
  BY <1>2, <1>3

LEMMA CancelStory ==
    ASSUME EventsInv, EventsInv', StoryInv, NEW c \in Commands, Cancel(c)
    PROVE  StoryInv'
<1>0. PICK body : body = Body(c, "cancel_requested", << >>, "none")
  OBVIOUS
<1>1. /\ HubInv /\ SourceOK(c) /\ StageOK(c) /\ DrainType
      /\ \A s \in Channels : drain[c][s].read \in Nat
  BY DEF StoryInv, Stages, EventsInv, DrainType, Drain
<1>2. << >> \in Seq(1..WriteBound)
  OBVIOUS
<1>3. /\ body \in Bodies /\ body.of = c /\ body.what = "cancel_requested"
  BY <1>0, <1>2 DEF Body, Bodies, Ending
<1>4. Draw(<<c, "cancel">>, body) /\ cmd' = cmd /\ drain' = drain
  BY <1>0 DEF Cancel
<1>5. /\ InFlight(<<c, "cancel">>)' /\ Coming(<<c, "cancel">>)'.body = body
      /\ \A f \in Emitters \ {<<c, "cancel">>} : /\ InFlight(f)' = InFlight(f)
                                                 /\ Coming(f)' = Coming(f)
  BY <1>1, <1>3, <1>4, DrawnFrom, PartsEmit
<1>6. SourceOK(c)'
  BY <1>1, <1>3, <1>4, <1>5, PartsEmit, OtherEmitters DEF SourceOK
<1>7. StageOK(c)' /\ Onward(c)
  BY <1>1, <1>4 DEF StageOK, Onward, Unlaunched, Answering, AllDrained
<1>8. \A x \in Events : x.body = body => ReachedOK(x)'
  BY <1>3 DEF ReachedOK, Channels
<1>9. /\ ~Before(body, body)
      /\ \A x \in Events : IsEvent(x) => ~Before(body, x.body)
      /\ \A f \in Emitters : InFlight(f) => ~Before(Coming(f).body, body)
  BY <1>3 DEF Before, Channels
<1> QED
  BY <1>3, <1>4, <1>6, <1>7, <1>8, <1>9, DrawStory, OtherEmitters

(* A chunk is told while its drain reads: after the start, before the end, *)
(* and after all that was read before.                                     *)
LEMMA TellChunkStory ==
    ASSUME EventsInv, EventsInv', StoryInv, NEW c \in Commands, NEW s \in Channels,
           NEW q \in Drain, drain' = [drain EXCEPT ![c][s] = q],
           NEW n \in 1..Chunk, TellChunk(c, s, n), Tells(drain[c][s], q, n)
    PROVE  StoryInv'
<1>0. PICK d, body : d = drain[c][s] /\ body = Body(c, s, Ahead(d, n), "none")
  OBVIOUS
<1>1. /\ HubInv /\ Stages /\ Truth /\ SourceOK(c) /\ StageOK(c) /\ DrainType
      /\ d \in Drain /\ <<c, s>> \in Emitters /\ s \in Parts
      /\ \A x \in Channels : drain[c][x].read \in Nat
  <2>1. <<c, s>> \in Emitters /\ s \in Parts
    BY CommandsAssumption DEF Parts
  <2> QED
    BY <1>0, <2>1 DEF StoryInv, Stages, EventsInv, DrainType, Drain
<1>2. /\ Readable(d, n) /\ d.pc = "reading" /\ cmd[c].kind = "job"
      /\ Draw(<<c, s>>, body) /\ cmd' = cmd
      /\ q.pc = "telling" /\ q.read = d.read + n /\ q.chunk = Ahead(d, n)
  BY <1>0 DEF TellChunk, Tells, Readable
<1>3. /\ Ahead(d, n) \in Seq(1..WriteBound) /\ n \in Nat /\ d.read \in Nat
      /\ Ahead(d, n) # << >> /\ Ahead(d, n)[1] = d.read + 1 /\ n >= 1
  <2>1. Ahead(d, n) \in Seq(1..WriteBound)
    BY <1>1, <1>2, AheadType DEF Chunks
  <2>2. n \in Nat /\ n >= 1 /\ d.read \in Nat
    BY <1>1, CommandsAssumption DEF Drain
  <2>3. Ahead(d, n)[1] = d.read + 1 /\ 1 \in DOMAIN Ahead(d, n)
    BY <2>2 DEF Ahead
  <2> QED
    BY <2>1, <2>2, <2>3
<1>4. /\ body \in Bodies /\ body.of = c /\ body.what = s
      /\ body.bytes = Ahead(d, n)
  BY <1>0, <1>3 DEF Body, Bodies, Ending, Channels
<1>5. /\ InFlight(<<c, s>>)' /\ Coming(<<c, s>>)'.body = body
      /\ ~InFlight(<<c, s>>)
      /\ \A f \in Emitters \ {<<c, s>>} : /\ InFlight(f)' = InFlight(f)
                                          /\ Coming(f)' = Coming(f)
  BY <1>1, <1>2, <1>4, DrawnFrom
<1>6. /\ drain'[c][s] = q
      /\ \A x \in Channels \ {s} : drain'[c][x] = drain[c][x]
      /\ \A b \in Commands \ {c} : cmd'[b] = cmd[b] /\ drain'[b] = drain[b]
  BY <1>1, <1>2 DEF DrainType
<1>7. /\ cmd[c].pc \notin Unlaunched \cup Answering
      /\ ~(cmd[c].kind = "job" /\ cmd[c].pc = "gone")
  BY <1>0, <1>1, <1>2 DEF StageOK, AllDrained
<1>8. SourceOK(c)'
  <2>1. ASSUME NEW x \in Channels, InFlight(<<c, x>>)'
        PROVE  LET b == Coming(<<c, x>>)'.body
               IN  /\ b.of = c /\ b.what = x
                   /\ drain'[c][x].pc = "telling" /\ b.bytes = drain'[c][x].chunk
    <3>1. CASE x = s
      BY <1>2, <1>4, <1>5, <1>6, <3>1
    <3>2. CASE x # s
      BY <1>1, <1>5, <1>6, <2>1, <3>2, PartsEmit DEF SourceOK
    <3> QED
      BY <3>1, <3>2
  <2>2. Channels' = Channels
    BY DEF Channels
  <2> QED
    BY <1>1, <1>2, <1>5, <2>1, <2>2, PartsEmit, OtherEmitters DEF SourceOK
<1>9. StageOK(c)'
  BY <1>1, <1>2, <1>7 DEF StageOK
<1>10. Onward(c)
  <2> SUFFICES ASSUME NEW x \in Channels
               PROVE  /\ drain[c][x].pc # "off" => drain'[c][x].pc # "off"
                      /\ drain[c][x].read <= drain'[c][x].read
    BY <1>2 DEF Onward
  <2>1. CASE x = s
    BY <1>0, <1>2, <1>3, <1>6, <2>1
  <2>2. CASE x # s
    BY <1>1, <1>6, <2>2
  <2> QED
    BY <2>1, <2>2
<1>11. \A x \in Events : x.body = body => ReachedOK(x)'
  <2>1. s # "started"
    BY DEF Channels
  <2>2. d.read + 1 <= q.read
    BY <1>2, <1>3
  <2> QED
    BY <1>2, <1>3, <1>4, <1>6, <2>1, <2>2 DEF ReachedOK
<1>12. ~Before(body, body)
  <2>1. ~(d.read + 1 < d.read + 1)
    BY <1>3
  <2> QED
    BY <1>3, <1>4, <2>1 DEF Before, Channels
<1>13. \A x \in Events : IsEvent(x) => ~Before(body, x.body)
  <2> SUFFICES ASSUME NEW x \in Events, IsEvent(x), Before(body, x.body)
               PROVE  FALSE
    OBVIOUS
  <2>1. /\ x.body.of = c
        /\ \/ x.body.what = "finished"
           \/ x.body.what = s /\ d.read + 1 < x.body.bytes[1]
    BY <1>3, <1>4 DEF Before, Channels
  <2>2. CASE x.body.what = "finished"
    BY <1>1, <1>2, <1>7, <2>1, <2>2, EventSays DEF Ended, Answering
  <2>3. CASE x.body.what = s /\ d.read + 1 < x.body.bytes[1]
    <3>1. x.body.bytes # << >> /\ x.body.bytes[1] <= d.read
      BY <1>0, <1>1, <2>1, <2>3, EventSays
    <3>2. x.body.bytes \in Seq(1..WriteBound) /\ 1 \in 1..Len(x.body.bytes)
      BY <3>1 DEF Events, Bodies
    <3>3. x.body.bytes[1] \in 1..WriteBound
      BY <3>2, ElementOfSeq
    <3>4. x.body.bytes[1] \in Nat
      BY <3>3
    <3> QED
      BY <1>3, <2>3, <3>1, <3>4
  <2> QED
    BY <2>1, <2>2, <2>3
<1>14. \A f \in Emitters : InFlight(f) => ~Before(Coming(f).body, body)
  <2> SUFFICES ASSUME NEW f \in Emitters, InFlight(f), Before(Coming(f).body, body)
               PROVE  FALSE
    OBVIOUS
  <2>1. /\ Coming(f).body.of = c /\ Coming(f).body.what \in {"started", s}
    BY <1>4 DEF Before, Channels
  <2> QED
    BY <1>1, <1>5, <1>7, <2>1, ComingFrom DEF Unlaunched
<1> QED
  BY <1>1, <1>2, <1>4, <1>6, <1>8, <1>9, <1>10, <1>11, <1>12, <1>13, <1>14,
     DrawStory
-----------------------------------------------------------------------------
(* Results: what is kept                                                   *)

LEMMA FirstsFacts ==
    ASSUME NEW n \in Nat
    PROVE  /\ Least(Limit, n) \in Nat
           /\ Firsts(n) \in Seq(Nat) /\ Len(Firsts(n)) = Least(Limit, n)
           /\ \A i \in 1..Least(Limit, n) : Firsts(n)[i] = i
<1>1. Least(Limit, n) \in Nat
  BY CommandsAssumption DEF Least
<1>2. PICK m \in Nat : m = Least(Limit, n)
  BY <1>1
<1>3. Firsts(n) = [i \in 1..m |-> i]
  BY <1>2 DEF Firsts
<1>4. Firsts(n) \in [1..m -> Nat]
  BY <1>3
<1>5. Firsts(n) \in Seq(Nat)
  BY <1>2, <1>4, SeqDef
<1>6. Len(Firsts(n)) = m
  <2>1. DOMAIN Firsts(n) = 1..m
    BY <1>3
  <2> QED
    BY <1>2, <1>5, <2>1, LenProperties
<1> QED
  BY <1>2, <1>3, <1>5, <1>6

(* What fits of n bytes that come after the first h.                       *)
LEMMA RoomLeft ==
    ASSUME NEW h \in Nat, NEW n \in Nat, n >= 1, NEW l, l = Least(Limit, h)
    PROVE  LET m == Least(Limit - l, n)
           IN  /\ m \in Nat /\ m <= n /\ l \in Nat
               /\ l + m = Least(Limit, h + n)
               /\ m >= 1 => l = h
               /\ (h > Limit \/ n > Limit - l) <=> h + n > Limit
<1>1. Limit \in Nat
  BY CommandsAssumption
<1>2. CASE h < Limit
  <2>1. l = h
    BY <1>1, <1>2 DEF Least
  <2>2. CASE Limit - h < n
    <3>1. Least(Limit - l, n) = Limit - h /\ Least(Limit, h + n) = Limit
      BY <1>1, <1>2, <2>1, <2>2 DEF Least
    <3> QED
      BY <1>1, <1>2, <2>1, <2>2, <3>1
  <2>3. CASE ~(Limit - h < n)
    <3>1. Least(Limit - l, n) = n /\ Least(Limit, h + n) = h + n
      BY <1>1, <1>2, <2>1, <2>3 DEF Least
    <3> QED
      BY <1>1, <1>2, <2>1, <2>3, <3>1
  <2> QED
    BY <2>2, <2>3
<1>3. CASE ~(h < Limit)
  <2>1. l = Limit /\ Least(Limit, h + n) = Limit
    BY <1>1, <1>3 DEF Least
  <2>2. Least(Limit - l, n) = 0
    BY <1>1, <2>1 DEF Least
  <2> QED
    BY <1>1, <1>3, <2>1, <2>2
<1> QED
  BY <1>2, <1>3

(* The first h bytes, and m of those that follow.                          *)
LEMMA FirstsAndMore ==
    ASSUME NEW h \in Nat, NEW bytes \in Chunks, Numbered(bytes, h),
           NEW m \in Nat, m <= Len(bytes), m >= 1 => Least(Limit, h) = h
    PROVE  Firsts(h) \o SubSeq(bytes, 1, m) = [i \in 1..Least(Limit, h) + m |-> i]
<1>1. PICK old, more, l : /\ old = Firsts(h) /\ more = SubSeq(bytes, 1, m)
                          /\ l = Least(Limit, h)
  OBVIOUS
<1>2. /\ l \in Nat /\ old \in Seq(Nat) /\ Len(old) = l
      /\ \A i \in 1..l : old[i] = i
  BY <1>1, FirstsFacts
<1>3. /\ more \in Seq(Nat) /\ Len(more) = m
      /\ \A i \in 1..m : more[i] = h + i
  <2>1. Len(bytes) \in Nat
    BY LenProperties DEF Chunks
  <2>2. \A i \in 1..m : bytes[i] = h + i /\ bytes[i] \in Nat
    BY <2>1 DEF Numbered
  <2>3. /\ SubSeq(bytes, 1, m) \in Seq(Nat)
        /\ Len(SubSeq(bytes, 1, m)) = IF 1 <= m THEN m - 1 + 1 ELSE 0
        /\ \A i \in 1..m - 1 + 1 : SubSeq(bytes, 1, m)[i] = bytes[1 + i - 1]
    <3>1. 1 \in Int /\ m \in Int /\ \A i \in 1..m : bytes[i] \in Nat
      BY <2>2
    <3> QED
      BY <3>1, SubSeqProperties
  <2>4. Len(more) = m
    BY <1>1, <2>3
  <2>5. \A i \in 1..m : more[i] = bytes[i]
    BY <1>1, <2>3
  <2> QED
    BY <1>1, <2>2, <2>3, <2>4, <2>5
<1>4. PICK all : all = old \o more
  OBVIOUS
<1>5. /\ all \in Seq(Nat) /\ Len(all) = l + m
      /\ \A i \in 1..l + m : all[i] = IF i <= l THEN old[i] ELSE more[i - l]
  <2>1. /\ old \o more \in Seq(Nat)
        /\ Len(old \o more) = Len(old) + Len(more)
        /\ \A i \in 1..Len(old) + Len(more) :
             (old \o more)[i] = IF i <= Len(old) THEN old[i]
                                                ELSE more[i - Len(old)]
    <3>1. old \in Seq(Nat) /\ more \in Seq(Nat)
      BY <1>2, <1>3
    <3> QED
      BY <3>1, ConcatProperties
  <2> QED
    BY <1>2, <1>3, <1>4, <2>1
<1>6. \A i \in 1..l + m : all[i] = i
  <2> SUFFICES ASSUME NEW i \in 1..l + m
               PROVE  all[i] = i
    OBVIOUS
  <2>1. CASE i <= l
    BY <1>2, <1>5, <2>1
  <2>2. CASE ~(i <= l)
    <3>1. i - l \in 1..m /\ m >= 1
      BY <1>2, <2>2
    <3>2. l = h
      BY <1>1, <3>1
    <3>3. all[i] = h + (i - l)
      BY <1>3, <1>5, <2>2, <3>1
    <3> QED
      BY <3>2, <3>3
  <2> QED
    BY <2>1, <2>2
<1>7. all = [i \in 1..l + m |-> i]
  <2>1. PICK n \in Nat : n = l + m
    BY <1>2
  <2>2. [i \in 1..n |-> i] \in [1..n -> Nat]
    OBVIOUS
  <2>3. [i \in 1..n |-> i] \in Seq(Nat) /\ Len([i \in 1..n |-> i]) = n
    <3>1. [i \in 1..n |-> i] \in Seq(Nat)
      BY <2>2, SeqDef
    <3>2. DOMAIN [i \in 1..n |-> i] = 1..n
      OBVIOUS
    <3> QED
      BY <3>1, <3>2, LenProperties
  <2> QED
    BY <1>5, <1>6, <2>1, <2>3, SeqEqual
<1> QED
  BY <1>1, <1>4, <1>7

LEMMA KeptMore ==
    ASSUME NEW d \in Drain, NEW bytes \in Chunks, NEW h \in Nat,
           Len(bytes) >= 1, Numbered(bytes, h), WasKept(d, h)
    PROVE  WasKept(Kept(d, bytes), h + Len(bytes))
<1>1. PICK n, l, m : n = Len(bytes) /\ l = Least(Limit, h) /\ m = Least(Limit - l, n)
  OBVIOUS
<1>2. n \in Nat /\ n >= 1
  BY <1>1, LenProperties DEF Chunks
<1>3. /\ m \in Nat /\ m <= n /\ l \in Nat
      /\ l + m = Least(Limit, h + n)
      /\ m >= 1 => l = h
      /\ (h > Limit \/ n > Limit - l) <=> h + n > Limit
  BY <1>1, <1>2, RoomLeft
<1>4. Firsts(h) \o SubSeq(bytes, 1, m) = Firsts(h + n)
  <2>1. Firsts(h) \o SubSeq(bytes, 1, m) = [i \in 1..Least(Limit, h) + m |-> i]
    <3>1. m \in Nat /\ m <= Len(bytes)
      BY <1>1, <1>3
    <3>2. m >= 1 => Least(Limit, h) = h
      BY <1>1, <1>3
    <3> HIDE <1>1, <1>3
    <3> QED
      BY <3>1, <3>2, FirstsAndMore, Zenon
  <2> QED
    BY <1>1, <1>3, <2>1 DEF Firsts
<1>5. d.kept = Firsts(h) /\ Len(d.kept) = l
  BY <1>1, FirstsFacts DEF WasKept
<1>6. PICK all, cut : /\ all = d.kept \o SubSeq(bytes, 1, m)
                      /\ cut = (d.truncated \/ n > Limit - l)
  OBVIOUS
<1>7. Kept(d, bytes) = [d EXCEPT !.kept = all, !.truncated = cut]
  BY <1>1, <1>5, <1>6 DEF Kept
<1>8. Kept(d, bytes).kept = all /\ Kept(d, bytes).truncated = cut
  BY <1>7 DEF Drain
<1>9. cut <=> h + n > Limit
  BY <1>3, <1>6 DEF WasKept
<1> QED
  BY <1>1, <1>4, <1>5, <1>6, <1>8, <1>9 DEF WasKept

LEMMA DrainNumbers ==
    ASSUME NEW d \in Drain
    PROVE  /\ d.read \in Nat /\ d.written \in Nat /\ Len(d.chunk) \in Nat
           /\ d.chunk \in Chunks /\ (d.chunk = << >> <=> Len(d.chunk) = 0)
<1>1. d.chunk \in Seq(1..WriteBound) /\ d.read \in Nat /\ d.written \in Nat
  BY DEF Drain
<1> QED
  BY <1>1, LenProperties DEF Chunks

LEMMA AheadNumbers ==
    ASSUME NEW d \in Drain, NEW n \in 1..Chunk, Readable(d, n)
    PROVE  /\ Ahead(d, n) \in Chunks /\ Len(Ahead(d, n)) = n /\ n \in Nat /\ n >= 1
           /\ Numbered(Ahead(d, n), d.read)
<1>1. n \in Nat /\ n >= 1 /\ Ahead(d, n) \in Chunks
  BY CommandsAssumption, AheadType
<1>2. DOMAIN Ahead(d, n) = 1..n
  BY DEF Ahead
<1>3. Len(Ahead(d, n)) = n
  BY <1>1, <1>2, LenProperties DEF Chunks
<1>4. Numbered(Ahead(d, n), d.read)
  <2>1. \A i \in 1..n : Ahead(d, n)[i] = d.read + i
    BY DEF Ahead
  <2> QED
    BY <1>3, <2>1 DEF Numbered
<1> QED
  BY <1>1, <1>3, <1>4

(* A reading drain has kept of all that it read.                           *)
LEMMA NothingPending ==
    ASSUME NEW d \in Drain, NEW held, DrainOK(d, held), d.pc # "telling"
    PROVE  Len(d.chunk) = 0 /\ d.chunk = << >> /\ Handled(d) = d.read
<1>1. d.chunk = << >>
  BY DEF DrainOK
<1>2. Len(d.chunk) = 0 /\ d.read \in Nat
  BY <1>1, DrainNumbers
<1> QED
  BY <1>1, <1>2 DEF Handled

LEMMA ReadsOK ==
    ASSUME NEW d \in Drain, NEW q \in Drain, NEW held, DrainOK(d, held),
           NEW n \in 1..Chunk, Reads(d, q, n)
    PROVE  DrainOK(q, held) /\ q.pc = "reading"
<1>1. /\ d.pc = "reading" /\ d.read + n <= d.written
      /\ q.pc = "reading" /\ q.read = d.read + n
      /\ q.written = d.written /\ q.chunk = d.chunk
      /\ q.kept = Kept(d, Ahead(d, n)).kept
      /\ q.truncated = Kept(d, Ahead(d, n)).truncated
  BY DEF Reads, Readable
<1>2. d.chunk = << >> /\ Handled(d) = d.read
  BY <1>1, NothingPending
<1>3. /\ Ahead(d, n) \in Chunks /\ Len(Ahead(d, n)) = n /\ n \in Nat /\ n >= 1
      /\ Numbered(Ahead(d, n), d.read) /\ d.read \in Nat
  BY AheadNumbers, DrainNumbers DEF Reads
<1>4. WasKept(d, d.read)
  BY <1>2 DEF DrainOK
<1>5. WasKept(Kept(d, Ahead(d, n)), d.read + n)
  BY <1>3, <1>4, KeptMore
<1>6. WasKept(q, q.read)
  BY <1>1, <1>5 DEF WasKept
<1>7. Len(q.chunk) = 0 /\ Handled(q) = q.read
  <2>1. Len(q.chunk) = 0 /\ q.read \in Nat
    BY <1>1, <1>2, DrainNumbers
  <2> QED
    BY <2>1 DEF Handled
<1>8. q.read <= q.written /\ Len(q.chunk) <= q.read
  BY <1>1, <1>3, <1>7
<1>9. Numbered(q.chunk, Handled(q))
  BY <1>7 DEF Numbered
<1> QED
  BY <1>1, <1>2, <1>6, <1>7, <1>8, <1>9 DEF DrainOK

LEMMA TellsOK ==
    ASSUME NEW d \in Drain, NEW q \in Drain, NEW held, DrainOK(d, held),
           NEW n \in 1..Chunk, Tells(d, q, n)
    PROVE  DrainOK(q, held) /\ Handled(q) = d.read
<1>1. /\ d.pc = "reading" /\ d.read + n <= d.written
      /\ q.pc = "telling" /\ q.read = d.read + n
      /\ q.written = d.written /\ q.chunk = Ahead(d, n)
      /\ q.kept = d.kept /\ q.truncated = d.truncated
  BY DEF Tells, Readable
<1>2. Handled(d) = d.read
  BY <1>1, NothingPending
<1>3. /\ Len(q.chunk) = n /\ n \in Nat /\ n >= 1
      /\ Numbered(q.chunk, d.read) /\ d.read \in Nat /\ q.chunk # << >>
  BY <1>1, AheadNumbers, DrainNumbers DEF Tells
<1>4. Handled(q) = d.read /\ q.read <= q.written /\ Len(q.chunk) <= q.read
  BY <1>1, <1>3 DEF Handled
<1>5. WasKept(q, Handled(q))
  BY <1>1, <1>2, <1>4 DEF WasKept, DrainOK
<1> QED
  BY <1>1, <1>3, <1>4, <1>5 DEF DrainOK

LEMMA KeepsOK ==
    ASSUME NEW d \in Drain, NEW q \in Drain, NEW held, DrainOK(d, held), Keeps(d, q)
    PROVE  DrainOK(q, held) /\ q.read = d.read
<1>1. /\ d.pc = "telling" /\ q.pc = "reading" /\ q.chunk = << >>
      /\ q.read = d.read /\ q.written = d.written
      /\ q.kept = Kept(d, d.chunk).kept
      /\ q.truncated = Kept(d, d.chunk).truncated
  BY DEF Keeps
<1>2. PICK h, n : h = Handled(d) /\ n = Len(d.chunk)
  OBVIOUS
<1>3. /\ n \in Nat /\ n >= 1 /\ d.read \in Nat /\ d.chunk \in Chunks
      /\ n <= d.read /\ Numbered(d.chunk, h) /\ WasKept(d, h)
      /\ d.read <= d.written
  BY <1>1, <1>2, DrainNumbers DEF DrainOK
<1>4. h \in Nat /\ h + n = d.read
  BY <1>2, <1>3 DEF Handled
<1>5. WasKept(Kept(d, d.chunk), h + n)
  BY <1>2, <1>3, <1>4, KeptMore
<1>6. WasKept(q, q.read)
  BY <1>1, <1>4, <1>5 DEF WasKept
<1>7. Len(q.chunk) = 0 /\ Handled(q) = q.read
  <2>1. Len(q.chunk) = 0 /\ q.read \in Nat
    BY <1>1, DrainNumbers
  <2> QED
    BY <2>1 DEF Handled
<1>8. q.read <= q.written /\ Len(q.chunk) <= q.read
  BY <1>1, <1>3, <1>7
<1>9. Numbered(q.chunk, Handled(q))
  BY <1>7 DEF Numbered
<1> QED
  BY <1>1, <1>6, <1>7, <1>8, <1>9 DEF DrainOK

LEMMA StopsOrGrowsOK ==
    ASSUME NEW d \in Drain, NEW q \in Drain, NEW held, DrainOK(d, held),
           \/ Stops(d, q) /\ held = {}
           \/ Grows(d, q) /\ held # {}
    PROVE  DrainOK(q, held) /\ q.read = d.read
<1>1. /\ q.read = d.read /\ q.chunk = d.chunk
      /\ q.kept = d.kept /\ q.truncated = d.truncated
      /\ \/ d.pc = "reading" /\ q.pc = "ended" /\ q.written = d.written
            /\ d.read = d.written /\ held = {}
         \/ q.pc = d.pc /\ q.written = d.written + 1 /\ held # {}
  BY DEF Stops, Grows
<1>2. d.read \in Nat /\ d.written \in Nat
  BY DrainNumbers
<1>3. Handled(q) = Handled(d)
  BY <1>1 DEF Handled
<1>4. /\ WasKept(q, Handled(q)) /\ Numbered(q.chunk, Handled(q))
      /\ Len(q.chunk) <= q.read /\ (d.pc = "telling" <=> q.chunk # << >>)
      /\ d.read <= d.written
  BY <1>1, <1>3 DEF WasKept, DrainOK
<1>5. q.read <= q.written
  BY <1>1, <1>2, <1>4
<1> QED
  BY <1>1, <1>3, <1>4, <1>5 DEF DrainOK

-----------------------------------------------------------------------------
(* Results: what is told                                                   *)

LEMMA ToldStays ==
    ASSUME log' = log
    PROVE  \A c, s : Told(c, s)' = Told(c, s)
BY DEF Told

(* One more event in the log.                                              *)
LEMMA ToldMore ==
    ASSUME NEW x, Range(log') = Range(log) \cup {x}, NEW c, NEW s
    PROVE  Told(c, s)' = IF x.body.of = c /\ x.body.what = s
                         THEN Told(c, s) \cup Range(x.body.bytes) ELSE Told(c, s)
<1>1. CASE x.body.of = c /\ x.body.what = s
  <2>1. {y \in Range(log') : y.body.of = c /\ y.body.what = s}
          = {y \in Range(log) : y.body.of = c /\ y.body.what = s} \cup {x}
    BY <1>1
  <2> QED
    BY <1>1, <2>1 DEF Told
<1>2. CASE ~(x.body.of = c /\ x.body.what = s)
  <2>1. {y \in Range(log') : y.body.of = c /\ y.body.what = s}
          = {y \in Range(log) : y.body.of = c /\ y.body.what = s}
    BY <1>2
  <2> QED
    BY <1>2, <2>1 DEF Told
<1> QED
  BY <1>1, <1>2

LEMMA WholeStays ==
    ASSUME NEW c \in Commands, NEW s \in Channels, WholeOK(c, s),
           drain'[c][s] = drain[c][s], cmd'[c].kind = cmd[c].kind,
           holders[c] = {} => holders'[c] = {}, log' = log,
           emission'[<<c, s>>].phase = "drawn" <=> emission[<<c, s>>].phase = "drawn"
    PROVE  WholeOK(c, s)'
<1>1. DrainOK(drain'[c][s], holders'[c])
  BY DEF WholeOK, DrainOK
<1>2. DrainOK(drain[c][s], holders[c])'
  BY <1>1 DEF DrainOK, Handled, WasKept, Numbered, Firsts, Least
<1>3. Told(c, s)' = Told(c, s)
  BY ToldStays
<1>4. ToldUpTo(c, s)' = ToldUpTo(c, s)
  BY DEF ToldUpTo, Handled
<1> QED
  BY <1>2, <1>3, <1>4 DEF WholeOK

(* The step of another command, or of none.                                *)
LEMMA ResultsStay ==
    ASSUME ResultInv, NEW M \in SUBSET Commands,
           \A c \in Commands \ M, s \in Channels :
             /\ drain'[c][s] = drain[c][s] /\ cmd'[c].kind = cmd[c].kind
             /\ holders[c] = {} => holders'[c] = {}
             /\ emission'[<<c, s>>].phase = "drawn"
                  <=> emission[<<c, s>>].phase = "drawn",
           log' = log, \A c \in M, s \in Channels : WholeOK(c, s)'
    PROVE  ResultInv'
<1>1. ASSUME NEW c \in Commands \ M, NEW s \in Channels
      PROVE  WholeOK(c, s)'
  BY WholeStays DEF ResultInv
<1>2. \A c \in Commands, s \in Channels : WholeOK(c, s)'
  BY <1>1
<1>3. Channels' = Channels
  BY DEF Channels
<1> QED
  BY <1>2, <1>3 DEF ResultInv
-----------------------------------------------------------------------------
(* Results: the steps                                                      *)

LEMMA QuietResults ==
    ASSUME EventsInv, ResultInv, NEW c \in Commands,
           \/ LaunchFails(c) \/ Exited(c) \/ TimesOut(c) \/ CancelSeen(c)
           \/ Kill(c) \/ Drained(c) \/ Reply(c) \/ Finish(c)
           \/ ReportNothing(c) \/ Done(c) \/ Prune(c) \/ Exit(c) \/ Fork(c)
           \/ \E holder \in {"child", "descendant"} : Close(c, holder)
    PROVE  ResultInv'
<1>1. cmd \in [Commands -> Command]
      /\ holders \in [Commands -> SUBSET {"child", "descendant"}]
  BY DEF EventsInv, CommandInv, CmdType
<1>2. UNCHANGED hubVars /\ drain' = drain
  BY DEF LaunchFails, Exited, TimesOut, CancelSeen, Ends, Kill, Drained,
         Reply, Finish, ReportNothing, Done, Prune, Exit, Fork, Close
<1>3. log' = log /\ emission' = emission
  BY <1>2 DEF hubVars
<1>4. \A d \in Commands : cmd'[d].kind = cmd[d].kind
  BY <1>1 DEF LaunchFails, Exited, TimesOut, CancelSeen, Ends, Kill, Drained, Goto,
              Reply, Finish, ReportNothing, Done, Prune, Exit, Fork, Close, Command
<1>5. \A d \in Commands : holders[d] = {} => holders'[d] = {}
  BY <1>1 DEF LaunchFails, Exited, TimesOut, CancelSeen, Ends, Kill, Drained, Goto,
              Reply, Finish, ReportNothing, Done, Prune, Exit, Fork, Close
<1>6. {} \in SUBSET Commands
  OBVIOUS
<1>7. \A d \in Commands \ {}, s \in Channels :
        /\ drain'[d][s] = drain[d][s] /\ cmd'[d].kind = cmd[d].kind
        /\ holders[d] = {} => holders'[d] = {}
        /\ emission'[<<d, s>>].phase = "drawn"
             <=> emission[<<d, s>>].phase = "drawn"
  BY <1>2, <1>3, <1>4, <1>5
<1> QED
  BY <1>3, <1>6, <1>7, ResultsStay

(* What was never drained was never told.                                  *)
LEMMA OffTellsNothing ==
    ASSUME EventsInv, Stages, NEW c \in Commands, NEW s \in Channels,
           drain[c][s].pc = "off"
    PROVE  Told(c, s) = {} /\ ~InFlight(<<c, s>>)
<1>1. ~InFlight(<<c, s>>)
  BY DEF Stages, SourceOK
<1>2. \A x \in Range(log) : ~(x.body.of = c /\ x.body.what = s)
  <2>1. \A x \in Range(log) : x \in Events /\ IsEvent(x)
    BY DEF EventsInv, HubInv, HubType, IsEvent, Range
  <2> QED
    BY <2>1, EventSays DEF EventsInv
<1> QED
  BY <1>1, <1>2 DEF Told

LEMMA ArriveResults ==
    ASSUME EventsInv, Stages, ResultInv, NEW c \in Commands, NEW kind \in Kinds[c],
           Arrive(c, kind)
    PROVE  ResultInv'
<1>1. /\ cmd \in [Commands -> Command] /\ cmd[c].pc = "idle"
      /\ \A d \in Commands \ {c} : cmd'[d] = cmd[d]
      /\ UNCHANGED hubVars /\ drain' = drain /\ holders' = holders
  BY DEF Arrive, EventsInv, CommandInv, CmdType
<1>2. log' = log /\ emission' = emission
  BY <1>1 DEF hubVars
<1>3. ASSUME NEW s \in Channels
      PROVE  WholeOK(c, s)'
  <2>1. drain[c][s].pc = "off" /\ DrainOK(drain[c][s], holders[c])
    BY <1>1 DEF Stages, StageOK, Unlaunched, ResultInv, WholeOK
  <2>2. Told(c, s) = {} /\ ~InFlight(<<c, s>>) /\ drain[c][s].read = 0
    BY <2>1, OffTellsNothing DEF DrainOK
  <2>3. Told(c, s)' = 1..ToldUpTo(c, s)'
    <3>1. ToldUpTo(c, s)' = 0
      BY <1>1, <1>2, <2>2 DEF ToldUpTo, InFlight, IsQuiet
    <3>2. Told(c, s)' = {}
      BY <1>2, <2>2, ToldStays
    <3> QED
      BY <3>1, <3>2
  <2>4. DrainOK(drain[c][s], holders[c])'
    BY <1>1, <2>1 DEF DrainOK, Handled, WasKept, Numbered, Firsts, Least
  <2> QED
    BY <2>3, <2>4 DEF WholeOK
<1>4. {c} \in SUBSET Commands
  OBVIOUS
<1>5. \A d \in Commands \ {c}, s \in Channels :
        /\ drain'[d][s] = drain[d][s] /\ cmd'[d].kind = cmd[d].kind
        /\ holders[d] = {} => holders'[d] = {}
        /\ emission'[<<d, s>>].phase = "drawn"
             <=> emission[<<d, s>>].phase = "drawn"
  BY <1>1, <1>2
<1>6. \A b \in {c}, s \in Channels : WholeOK(b, s)'
  BY <1>3
<1> QED
  BY <1>2, <1>4, <1>5, <1>6, ResultsStay

LEMMA NewDrainOK ==
    ASSUME NEW held
    PROVE  DrainOK([NoDrain EXCEPT !.pc = "reading"], held)
<1>1. PICK q : q = [NoDrain EXCEPT !.pc = "reading"]
  OBVIOUS
<1>2. /\ q.pc = "reading" /\ q.written = 0 /\ q.read = 0 /\ q.kept = << >>
      /\ q.chunk = << >> /\ q.truncated = FALSE
  BY <1>1 DEF NoDrain
<1>3. Len(q.chunk) = 0 /\ Handled(q) = 0
  <2>1. Len(q.chunk) = 0 /\ q.read = 0
    BY <1>2
  <2>2. q.read - Len(q.chunk) = 0
    BY <2>1
  <2> QED
    BY <2>1, <2>2 DEF Handled
<1>4. Firsts(0) = << >>
  <2>1. Firsts(0) \in Seq(Nat) /\ Len(Firsts(0)) = Least(Limit, 0)
    BY FirstsFacts
  <2>2. Least(Limit, 0) = 0
    BY CommandsAssumption DEF Least
  <2> QED
    BY <2>1, <2>2
<1>5. WasKept(q, Handled(q))
  BY <1>2, <1>3, <1>4, CommandsAssumption DEF WasKept
<1>6. Numbered(q.chunk, Handled(q)) /\ q.read <= q.written /\ Len(q.chunk) <= q.read
  BY <1>2, <1>3 DEF Numbered
<1>7. DrainOK(q, held)
  BY <1>2, <1>5, <1>6 DEF DrainOK
<1> QED
  BY <1>1, <1>7

LEMMA LaunchResults ==
    ASSUME EventsInv, Stages, ResultInv, NEW c \in Commands, Launch(c)
    PROVE  ResultInv'
<1>1. PICK q : q = [NoDrain EXCEPT !.pc = "reading"]
  OBVIOUS
<1>2. /\ cmd \in [Commands -> Command] /\ drain \in [Commands -> [Channels -> Drain]]
      /\ holders \in [Commands -> SUBSET {"child", "descendant"}]
      /\ cmd[c].pc = "launch" /\ UNCHANGED hubVars
      /\ cmd' = [cmd EXCEPT ![c].pc = "wait"]
      /\ drain' = [drain EXCEPT ![c] = [s \in Channels |-> q]]
      /\ holders' = [holders EXCEPT ![c] = {"child"}]
  BY <1>1 DEF Launch, Goto, EventsInv, CommandInv, CmdType, DrainType
<1>3. log' = log /\ emission' = emission
  BY <1>2 DEF hubVars
<1>4. /\ \A d \in Commands : cmd'[d].kind = cmd[d].kind
      /\ \A d \in Commands \ {c} : drain'[d] = drain[d] /\ holders'[d] = holders[d]
      /\ \A s \in Channels : drain'[c][s] = q
  BY <1>2 DEF Command
<1>5. ASSUME NEW s \in Channels
      PROVE  WholeOK(c, s)'
  <2>1. drain[c][s].pc = "off"
    BY <1>2 DEF Stages, StageOK, Unlaunched
  <2>2. Told(c, s) = {} /\ ~InFlight(<<c, s>>) /\ q.read = 0
    BY <1>1, <2>1, OffTellsNothing DEF NoDrain
  <2>3. Told(c, s)' = 1..ToldUpTo(c, s)'
    <3>1. ToldUpTo(c, s)' = 0
      BY <1>3, <1>4, <2>2 DEF ToldUpTo, InFlight, IsQuiet
    <3>2. Told(c, s)' = {}
      BY <1>3, <2>2, ToldStays
    <3> QED
      BY <3>1, <3>2
  <2>4. DrainOK(drain'[c][s], holders'[c])
    BY <1>1, <1>4, NewDrainOK
  <2>5. DrainOK(drain[c][s], holders[c])'
    BY <2>4 DEF DrainOK, Handled, WasKept, Numbered, Firsts, Least
  <2> QED
    BY <2>3, <2>5 DEF WholeOK
<1>6. {c} \in SUBSET Commands
  OBVIOUS
<1>7. \A d \in Commands \ {c}, s \in Channels :
        /\ drain'[d][s] = drain[d][s] /\ cmd'[d].kind = cmd[d].kind
        /\ holders[d] = {} => holders'[d] = {}
        /\ emission'[<<d, s>>].phase = "drawn"
             <=> emission[<<d, s>>].phase = "drawn"
  BY <1>3, <1>4
<1>8. \A b \in {c}, s \in Channels : WholeOK(b, s)'
  BY <1>5
<1> QED
  BY <1>3, <1>6, <1>7, <1>8, ResultsStay

(* An emitter other than a drain draws a number, or is dropped.            *)
LEMMA OtherResults ==
    ASSUME EventsInv, ResultInv, NEW c \in Commands,
           \/ Announce(c) \/ Tell(c) \/ Report(c) \/ Cancel(c) \/ Abandon(c)
           \/ CancelForgotten(c)
    PROVE  ResultInv'
<1>1. /\ cmd \in [Commands -> Command]
      /\ holders \in [Commands -> SUBSET {"child", "descendant"}]
      /\ emission \in [Emitters -> {Quiet} \cup Emission]
  BY DEF EventsInv, CommandInv, CmdType, HubInv, HubType
<1>2. /\ drain' = drain
      /\ \A d \in Commands : cmd'[d].kind = cmd[d].kind
      /\ \A d \in Commands : holders[d] = {} => holders'[d] = {}
  BY <1>1 DEF Announce, Tell, Report, Cancel, Abandon, CancelForgotten, Goto,
              Command, commandVars
<1>3. /\ log' = log
      /\ \E e \in {Handler(c), Task(c), <<c, "cancel">>} : \E x :
           emission' = [emission EXCEPT ![e] = x]
  <2>1. CASE Announce(c) \/ Tell(c) \/ Report(c) \/ Cancel(c)
    BY <2>1 DEF Announce, Tell, Report, Cancel, Draw
  <2>2. CASE CancelForgotten(c)
    BY <2>2 DEF CancelForgotten, Forget
  <2>3. CASE Abandon(c)
    <3>1. CASE Forget(Handler(c))
      BY <3>1 DEF Forget
    <3>2. CASE UNCHANGED hubVars
      <4>1. emission' = [emission EXCEPT ![Handler(c)] = emission[Handler(c)]]
        BY <1>1, <3>2 DEF hubVars
      <4> QED
        BY <3>2, <4>1 DEF hubVars
    <3> QED
      BY <2>3, <3>1, <3>2 DEF Abandon
  <2> QED
    BY <2>1, <2>2, <2>3
<1>4. \A d \in Commands, s \in Channels : emission'[<<d, s>>] = emission[<<d, s>>]
  <2>1. \A d \in Commands, s \in Channels :
          <<d, s>> \in Emitters \ {Handler(c), Task(c), <<c, "cancel">>}
    BY PartsEmit DEF Handler, Task, Channels
  <2> QED
    BY <1>1, <1>3, <2>1
<1>5. {} \in SUBSET Commands
  OBVIOUS
<1>6. \A d \in Commands \ {}, s \in Channels :
        /\ drain'[d][s] = drain[d][s] /\ cmd'[d].kind = cmd[d].kind
        /\ holders[d] = {} => holders'[d] = {}
        /\ emission'[<<d, s>>].phase = "drawn"
             <=> emission[<<d, s>>].phase = "drawn"
  BY <1>2, <1>4
<1> QED
  BY <1>3, <1>5, <1>6, ResultsStay

(* One drain of command c moves.                                           *)
LEMMA DrainMoveResults ==
    ASSUME EventsInv, Stages, ResultInv, NEW c \in Commands, NEW s \in Channels,
           NEW q \in Drain, drain' = [drain EXCEPT ![c][s] = q],
           \/ \E n \in 1..Chunk : \/ ReadChunk(c, s, n) /\ Reads(drain[c][s], q, n)
                                  \/ TellChunk(c, s, n) /\ Tells(drain[c][s], q, n)
           \/ KeepChunk(c, s) /\ Keeps(drain[c][s], q)
           \/ PipeEnds(c, s) /\ Stops(drain[c][s], q)
           \/ Write(c, s) /\ Grows(drain[c][s], q)
    PROVE  ResultInv'
<1>0. PICK d : d = drain[c][s]
  OBVIOUS
<1>1. /\ d \in Drain /\ DrainOK(d, holders[c])
      /\ drain \in [Commands -> [Channels -> Drain]]
      /\ emission \in [Emitters -> {Quiet} \cup Emission]
      /\ cmd[c].kind = "job" => Told(c, s) = 1..ToldUpTo(c, s)
  BY <1>0 DEF EventsInv, DrainType, ResultInv, WholeOK, HubInv, HubType
<1>2. UNCHANGED <<cmd, holders, log>>
  BY DEF ReadChunk, TellChunk, KeepChunk, PipeEnds, Write, hubVars, Draw
<1>3. /\ drain'[c][s] = q
      /\ \A b \in Commands, x \in Channels :
           <<b, x>> # <<c, s>> => drain'[b][x] = drain[b][x]
  BY <1>1
<1>4. \A b \in Commands, x \in Channels :
        <<b, x>> # <<c, s>> => emission'[<<b, x>>] = emission[<<b, x>>]
  <2>1. CASE UNCHANGED hubVars
    BY <2>1 DEF hubVars
  <2>2. ASSUME NEW n \in 1..Chunk, TellChunk(c, s, n)
        PROVE  \A b \in Commands, x \in Channels :
                 <<b, x>> # <<c, s>> => emission'[<<b, x>>] = emission[<<b, x>>]
    <3>1. PICK y : emission' = [emission EXCEPT ![<<c, s>>] = y]
      BY <2>2 DEF TellChunk, Draw
    <3>2. \A b \in Commands, x \in Channels : <<b, x>> \in Emitters
      BY PartsEmit
    <3> QED
      BY <1>1, <3>1, <3>2
  <2> QED
    BY <2>1, <2>2 DEF ReadChunk, KeepChunk, PipeEnds, Write
<1>5. /\ DrainOK(q, holders[c])
      /\ cmd[c].kind = "job" => ToldUpTo(c, s)' = ToldUpTo(c, s)
  <2>1. ASSUME NEW n \in 1..Chunk, ReadChunk(c, s, n), Reads(d, q, n)
        PROVE  DrainOK(q, holders[c]) /\ cmd[c].kind # "job"
    BY <1>1, <2>1, ReadsOK DEF ReadChunk
  <2>2. ASSUME NEW n \in 1..Chunk, TellChunk(c, s, n), Tells(d, q, n)
        PROVE  DrainOK(q, holders[c]) /\ ToldUpTo(c, s)' = ToldUpTo(c, s)
    <3>1. DrainOK(q, holders[c]) /\ Handled(q) = d.read
      BY <1>1, <2>2, TellsOK
    <3>2. emission[<<c, s>>].phase = "none" /\ emission'[<<c, s>>].phase = "drawn"
      BY <1>1, <2>2, PartsEmit DEF TellChunk, Draw, IsQuiet
    <3>3. ToldUpTo(c, s) = d.read
      BY <1>0, <3>2 DEF ToldUpTo
    <3>4. ToldUpTo(c, s)' = Handled(q)
      BY <1>3, <3>2 DEF ToldUpTo, Handled
    <3> QED
      BY <3>1, <3>3, <3>4
  <2>3. ASSUME KeepChunk(c, s), Keeps(d, q)
        PROVE  DrainOK(q, holders[c]) /\ ToldUpTo(c, s)' = ToldUpTo(c, s)
    <3>1. DrainOK(q, holders[c]) /\ q.read = d.read
      BY <1>1, <2>3, KeepsOK
    <3>2. emission[<<c, s>>].phase = "none" /\ emission' = emission
      BY <2>3 DEF KeepChunk, IsQuiet, hubVars
    <3> QED
      BY <1>0, <1>3, <3>1, <3>2 DEF ToldUpTo
  <2>4. ASSUME (PipeEnds(c, s) /\ Stops(d, q)) \/ (Write(c, s) /\ Grows(d, q))
        PROVE  DrainOK(q, holders[c]) /\ ToldUpTo(c, s)' = ToldUpTo(c, s)
    <3>1. /\ \/ Stops(d, q) /\ holders[c] = {}
             \/ Grows(d, q) /\ holders[c] # {}
          /\ emission' = emission
      BY <2>4 DEF PipeEnds, Write, hubVars
    <3>2. DrainOK(q, holders[c]) /\ q.read = d.read
      BY <1>1, <3>1, StopsOrGrowsOK
    <3>3. q.chunk = d.chunk
      BY <3>1 DEF Stops, Grows
    <3> QED
      BY <1>0, <1>3, <3>1, <3>2, <3>3 DEF ToldUpTo, Handled
  <2>5. \/ \E n \in 1..Chunk : \/ ReadChunk(c, s, n) /\ Reads(d, q, n)
                               \/ TellChunk(c, s, n) /\ Tells(d, q, n)
        \/ KeepChunk(c, s) /\ Keeps(d, q)
        \/ PipeEnds(c, s) /\ Stops(d, q)
        \/ Write(c, s) /\ Grows(d, q)
    BY <1>0
  <2>6. CASE \E n \in 1..Chunk : ReadChunk(c, s, n) /\ Reads(d, q, n)
    BY <2>1, <2>6
  <2>7. CASE \E n \in 1..Chunk : TellChunk(c, s, n) /\ Tells(d, q, n)
    BY <2>2, <2>7
  <2>8. CASE KeepChunk(c, s) /\ Keeps(d, q)
    BY <2>3, <2>8
  <2>9. CASE (PipeEnds(c, s) /\ Stops(d, q)) \/ (Write(c, s) /\ Grows(d, q))
    BY <2>4, <2>9
  <2> QED
    BY <2>5, <2>6, <2>7, <2>8, <2>9
<1>6. WholeOK(c, s)'
  <2>1. DrainOK(drain[c][s], holders[c])'
    BY <1>2, <1>3, <1>5 DEF DrainOK, Handled, WasKept, Numbered, Firsts, Least
  <2>2. Told(c, s)' = Told(c, s)
    BY <1>2, ToldStays
  <2> QED
    BY <1>1, <1>2, <1>5, <2>1, <2>2 DEF WholeOK
<1>7. ASSUME NEW x \in Channels
      PROVE  WholeOK(c, x)'
  <2>1. CASE x = s
    BY <1>6, <2>1
  <2>2. CASE x # s
    BY <1>2, <1>3, <1>4, <2>2, WholeStays DEF ResultInv
  <2> QED
    BY <2>1, <2>2
<1>8. {c} \in SUBSET Commands
  OBVIOUS
<1>9. \A b \in Commands \ {c}, x \in Channels :
        /\ drain'[b][x] = drain[b][x] /\ cmd'[b].kind = cmd[b].kind
        /\ holders[b] = {} => holders'[b] = {}
        /\ emission'[<<b, x>>].phase = "drawn"
             <=> emission[<<b, x>>].phase = "drawn"
  BY <1>2, <1>3, <1>4
<1>10. \A b \in {c}, x \in Channels : WholeOK(b, x)'
  BY <1>7
<1> QED
  BY <1>2, <1>8, <1>9, <1>10, ResultsStay

(* The event of a chunk is pushed: now all that was read has been told.    *)
LEMMA PushResults ==
    ASSUME EventsInv, Stages, ResultInv, NEW e \in Emitters, Push(e),
           UNCHANGED commandVars
    PROVE  ResultInv'
<1>1. PICK x : x = Coming(e)
  OBVIOUS
<1>2. /\ InFlight(e) /\ emission[e].phase = "drawn" /\ log' = Append(log, x)
      /\ emission' = [emission EXCEPT ![e].phase = "pushed"]
  BY <1>1 DEF Push, InFlight, IsQuiet, Coming
<1>3. /\ emission \in [Emitters -> {Quiet} \cup Emission] /\ log \in Seq(Events)
      /\ UNCHANGED <<cmd, holders, drain>>
  BY DEF EventsInv, HubInv, HubType, commandVars
<1>4. x \in Events /\ emission[e] \in Emission
  BY <1>1, <1>2, <1>3, QuietFacts DEF Coming, InFlight, IsQuiet
<1>5. Range(log') = Range(log) \cup {x}
  BY <1>2, <1>3, <1>4, RangeOfAppend
<1>6. emission'[e].phase = "pushed" /\ \A f \in Emitters \ {e} : emission'[f] = emission[f]
  BY <1>2, <1>3, <1>4 DEF Emission
<1>7. ASSUME NEW c \in Commands, NEW s \in Channels
      PROVE  WholeOK(c, s)'
  <2>0. <<c, s>> \in Emitters
    BY PartsEmit
  <2>1. WholeOK(c, s) /\ DrainOK(drain[c][s], holders[c])'
    <3>1. WholeOK(c, s)
      BY DEF ResultInv
    <3> QED
      BY <1>3, <3>1 DEF WholeOK, DrainOK, Handled, WasKept, Numbered, Firsts, Least
  <2>2. Told(c, s)' = IF x.body.of = c /\ x.body.what = s
                      THEN Told(c, s) \cup Range(x.body.bytes) ELSE Told(c, s)
    BY <1>5, ToldMore
  <2>3. ASSUME cmd[c].kind = "job"
        PROVE  Told(c, s)' = 1..ToldUpTo(c, s)'
    <3>1. CASE e = <<c, s>>
      <4>1. PICK d : d = drain[c][s]
        OBVIOUS
      <4>2. /\ x.body.of = c /\ x.body.what = s /\ x.body.bytes = d.chunk
        <5>1. SourceOK(c) /\ InFlight(<<c, s>>)
          BY <1>2, <3>1 DEF Stages
        <5> QED
          BY <1>1, <3>1, <4>1, <5>1 DEF SourceOK
      <4>3. Told(c, s) = 1..Handled(d)
        BY <1>2, <2>1, <2>3, <3>1, <4>1 DEF WholeOK, ToldUpTo
      <4>4. ToldUpTo(c, s)' = d.read
        BY <1>3, <1>6, <3>1, <4>1 DEF ToldUpTo
      <4>5. PICK h, n : h = Handled(d) /\ n = Len(d.chunk)
        OBVIOUS
      <4>6. /\ n \in Nat /\ d.read \in Nat /\ n <= d.read /\ Numbered(d.chunk, h)
            /\ d.chunk \in Chunks
        BY <2>1, <4>1, <4>5, DrainNumbers
        DEF EventsInv, DrainType, WholeOK, DrainOK
      <4>7. h \in Nat /\ d.read = h + n
        BY <4>5, <4>6 DEF Handled
      <4>8. Range(d.chunk) = h + 1..h + n
        <5>1. DOMAIN d.chunk = 1..n /\ \A i \in 1..n : d.chunk[i] = h + i
          BY <4>5, <4>6, LenProperties DEF Chunks, Numbered
        <5>2. Range(d.chunk) = {d.chunk[i] : i \in 1..n}
          BY <5>1 DEF Range
        <5>3. \A y \in h + 1..h + n : y - h \in 1..n /\ d.chunk[y - h] = y
          BY <4>6, <4>7, <5>1
        <5>4. \A i \in 1..n : d.chunk[i] \in h + 1..h + n
          BY <4>6, <4>7, <5>1
        <5> QED
          BY <5>2, <5>3, <5>4
      <4>9. Told(c, s)' = 1..h \cup (h + 1..h + n)
        BY <2>2, <4>2, <4>3, <4>5, <4>8
      <4>10. 1..h \cup (h + 1..h + n) = 1..h + n
        BY <4>6, <4>7
      <4> QED
        BY <4>4, <4>7, <4>9, <4>10
    <3>2. CASE e # <<c, s>>
      <4>1. ~(x.body.of = c /\ x.body.what = s)
        BY <1>1, <1>2, <3>2, ComingFrom
      <4>2. ToldUpTo(c, s)' = ToldUpTo(c, s)
        BY <1>3, <1>6, <2>0, <3>2 DEF ToldUpTo, Handled
      <4> QED
        BY <2>1, <2>2, <2>3, <4>1, <4>2 DEF WholeOK
    <3> QED
      BY <3>1, <3>2
  <2> QED
    BY <1>3, <2>1, <2>3 DEF WholeOK
<1>8. Channels' = Channels
  BY DEF Channels
<1> QED
  BY <1>7, <1>8 DEF ResultInv

LEMMA HubResults ==
    ASSUME EventsInv, Stages, ResultInv, UNCHANGED commandVars,
           \/ UNCHANGED hubVars
           \/ \E e \in Emitters : Push(e) \/ Send(e)
           \/ \E k \in Clients : Watch(k)
    PROVE  ResultInv'
<1>1. ASSUME log' = log,
             \A c \in Commands, s \in Channels :
               emission'[<<c, s>>].phase = "drawn"
                 <=> emission[<<c, s>>].phase = "drawn"
      PROVE  ResultInv'
  <2>1. {} \in SUBSET Commands
    OBVIOUS
  <2>2. \A d \in Commands \ {}, s \in Channels :
          /\ drain'[d][s] = drain[d][s] /\ cmd'[d].kind = cmd[d].kind
          /\ holders[d] = {} => holders'[d] = {}
          /\ emission'[<<d, s>>].phase = "drawn"
               <=> emission[<<d, s>>].phase = "drawn"
    BY <1>1 DEF commandVars
  <2> QED
    BY <1>1, <2>1, <2>2, ResultsStay
<1>2. CASE UNCHANGED hubVars
  BY <1>1, <1>2 DEF hubVars
<1>3. ASSUME NEW k \in Clients, Watch(k)
      PROVE  ResultInv'
  <2>1. log' = log /\ emission' = emission
    BY <1>3 DEF Watch, Subscribe, Receive, Leave
  <2> QED
    BY <1>1, <2>1
<1>4. ASSUME NEW e \in Emitters, Send(e)
      PROVE  ResultInv'
  <2>1. /\ log' = log /\ emission[e].phase = "pushed"
        /\ emission' = [emission EXCEPT ![e] = Quiet]
        /\ emission \in [Emitters -> {Quiet} \cup Emission]
    BY <1>4 DEF Send, EventsInv, HubInv, HubType
  <2>2. \A f \in Emitters : emission'[f].phase = "drawn"
                              <=> emission[f].phase = "drawn"
    BY <2>1, QuietFacts
  <2> QED
    BY <1>1, <2>1, <2>2, PartsEmit
<1> QED
  BY <1>2, <1>3, <1>4, PushResults
-----------------------------------------------------------------------------
(* All together once more                                                  *)

TellingInv == StoryInv /\ ResultInv

LEMMA InitTelling ==
    ASSUME Init
    PROVE  TellingInv
<1>1. /\ \A e \in Emitters : ~InFlight(e)
      /\ \A x : ~IsEvent(x)
      /\ log = << >> /\ \A k \in Clients : feed[k] = << >>
  <2>1. Range(<< >>) = {}
    BY DEF Range
  <2> QED
    BY <2>1 DEF Init, HubInit, InFlight, IsQuiet, Quiet, IsEvent
<1>2. ASSUME NEW c \in Commands
      PROVE  SourceOK(c) /\ StageOK(c)
  <2>1. /\ cmd[c].pc = "idle" /\ cmd[c].ending = "none" /\ cmd[c].kind = "none"
        /\ \A s \in Channels : drain[c][s].pc = "off"
    BY DEF Init, NoDrain
  <2>2. SourceOK(c)
    BY <1>1, PartsEmit DEF SourceOK
  <2>3. StageOK(c)
    BY <2>1 DEF StageOK, Unlaunched, Answering
  <2> QED
    BY <2>2, <2>3
<1>3. Stages /\ NumbersOK
  BY <1>1, <1>2 DEF Stages, NumbersOK
<1>4. PlacesOK
  BY <1>1, EmptyInPlace DEF PlacesOK
<1>5. ASSUME NEW c \in Commands, NEW s \in Channels
      PROVE  WholeOK(c, s)
  <2>1. drain[c][s] = NoDrain
    BY DEF Init
  <2>2. PICK d : d = NoDrain
    OBVIOUS
  <2>3. /\ d.pc = "off" /\ d.written = 0 /\ d.read = 0 /\ d.kept = << >>
        /\ d.chunk = << >> /\ d.truncated = FALSE
    BY <2>2 DEF NoDrain
  <2>4. Len(d.chunk) = 0 /\ Handled(d) = 0
    <3>1. Len(d.chunk) = 0 /\ d.read = 0
      BY <2>3
    <3>2. d.read - Len(d.chunk) = 0
      BY <3>1
    <3> QED
      BY <3>1, <3>2 DEF Handled
  <2>5. Firsts(0) = << >>
    <3>1. Firsts(0) \in Seq(Nat) /\ Len(Firsts(0)) = Least(Limit, 0)
      BY FirstsFacts
    <3>2. Least(Limit, 0) = 0
      BY CommandsAssumption DEF Least
    <3> QED
      BY <3>1, <3>2
  <2>6. WasKept(d, Handled(d))
    BY <2>3, <2>4, <2>5, CommandsAssumption DEF WasKept
  <2>7. Numbered(d.chunk, Handled(d)) /\ d.read <= d.written /\ Len(d.chunk) <= d.read
    BY <2>3, <2>4 DEF Numbered
  <2>8. DrainOK(d, holders[c])
    BY <2>3, <2>6, <2>7 DEF DrainOK
  <2>9. cmd[c].kind # "job"
    BY DEF Init
  <2> QED
    BY <2>1, <2>2, <2>8, <2>9 DEF WholeOK
<1>6. ResultInv
  BY <1>5 DEF ResultInv
<1> QED
  BY <1>3, <1>4, <1>6 DEF TellingInv, StoryInv

(* The steps that make no event move nothing in the story but its stages.  *)
LEMMA SilentStory ==
    ASSUME EventsInv, StoryInv, Stages',
           \/ UNCHANGED hubVars
           \/ \E e \in Emitters : Push(e) \/ Send(e) \/ Forget(e)
           \/ \E k \in Clients : Watch(k)
    PROVE  StoryInv'
<1>1. HubInv /\ NumbersOK /\ PlacesOK
  BY DEF EventsInv, StoryInv
<1>2. NumbersOK' /\ PlacesOK'
  BY <1>1, HubStory
<1> QED
  BY <1>2 DEF StoryInv

LEMMA HubOnlyStory ==
    ASSUME EventsInv, StoryInv, UNCHANGED commandVars,
           \/ UNCHANGED hubVars
           \/ \E e \in Emitters : Push(e) \/ Send(e) \/ Forget(e)
           \/ \E k \in Clients : Watch(k)
    PROVE  StoryInv'
<1>1. HubInv /\ NumbersOK /\ PlacesOK /\ Stages
  BY DEF EventsInv, StoryInv
<1>2. /\ \A x : IsEvent(x)' => IsEvent(x)
      /\ \A f \in Emitters : InFlight(f)' => InFlight(f) /\ Coming(f)' = Coming(f)
  BY <1>1, HubStory
<1>3. UNCHANGED <<cmd, drain>>
  BY DEF commandVars
<1>4. Stages'
  BY <1>1, <1>2, <1>3, StagesHub
<1> QED
  BY <1>4, SilentStory

LEMMA WorkTelling ==
    ASSUME EventsInv, EventsInv', TellingInv, NEW c \in Commands,
           (\E kind \in Kinds[c] : Arrive(c, kind)) \/ Work(c) \/ Abandon(c)
             \/ Cancel(c)
    PROVE  TellingInv'
<1>1. StoryInv /\ Stages /\ ResultInv
  BY DEF TellingInv, StoryInv
<1>2. CASE \/ \E kind \in Kinds[c] : Arrive(c, kind)
           \/ LaunchFails(c) \/ Exited(c) \/ TimesOut(c) \/ CancelSeen(c)
           \/ Kill(c) \/ Drained(c) \/ Reply(c) \/ Finish(c)
           \/ ReportNothing(c) \/ Done(c)
  <2>1. UNCHANGED hubVars
    BY <1>2 DEF Arrive, LaunchFails, Exited, TimesOut, CancelSeen, Ends, Kill,
                Drained, Reply, Finish, ReportNothing, Done
  <2>2. Stages'
    BY <1>1, <1>2, QuietWorkStory
  <2>3. StoryInv'
    BY <1>1, <2>1, <2>2, SilentStory
  <2>4. ResultInv'
    BY <1>1, <1>2, ArriveResults, QuietResults
  <2> QED
    BY <2>3, <2>4 DEF TellingInv
<1>3. CASE Launch(c)
  <2>1. UNCHANGED hubVars
    BY <1>3 DEF Launch
  <2>2. Stages' /\ ResultInv'
    BY <1>1, <1>3, LaunchStory, LaunchResults
  <2> QED
    BY <1>1, <2>1, <2>2, SilentStory DEF TellingInv
<1>4. CASE Abandon(c)
  <2>1. UNCHANGED hubVars \/ Forget(Handler(c))
    BY <1>4 DEF Abandon
  <2>2. Stages' /\ ResultInv'
    BY <1>1, <1>4, AbandonStory, OtherResults
  <2> QED
    BY <1>1, <2>1, <2>2, SilentStory, PartsEmit DEF TellingInv
<1>5. CASE Announce(c) \/ Tell(c) \/ Report(c) \/ Cancel(c)
  <2>1. StoryInv'
    BY <1>1, <1>5, AnnounceStory, EndStory, CancelStory
  <2>2. ResultInv'
    BY <1>1, <1>5, OtherResults
  <2> QED
    BY <2>1, <2>2 DEF TellingInv
<1> QED
  BY <1>2, <1>3, <1>4, <1>5 DEF Work

LEMMA DrainTelling ==
    ASSUME EventsInv, EventsInv', TellingInv, NEW c \in Commands,
           NEW s \in Channels, DrainWork(c, s) \/ Write(c, s)
    PROVE  TellingInv'
<1>1. StoryInv /\ Stages /\ ResultInv /\ DrainType
  BY DEF TellingInv, StoryInv, EventsInv
<1>2. PICK q \in Drain :
        /\ drain' = [drain EXCEPT ![c][s] = q]
        /\ \/ \E n \in 1..Chunk : \/ ReadChunk(c, s, n) /\ Reads(drain[c][s], q, n)
                                  \/ TellChunk(c, s, n) /\ Tells(drain[c][s], q, n)
           \/ KeepChunk(c, s) /\ Keeps(drain[c][s], q)
           \/ PipeEnds(c, s) /\ Stops(drain[c][s], q)
           \/ Write(c, s) /\ Grows(drain[c][s], q)
  BY <1>1, DrainMoves
<1>3. ResultInv'
  BY <1>1, <1>2, DrainMoveResults
<1>4. CASE \E n \in 1..Chunk : TellChunk(c, s, n) /\ Tells(drain[c][s], q, n)
  BY <1>1, <1>2, <1>3, <1>4, TellChunkStory DEF TellingInv
<1>5. CASE \/ \E n \in 1..Chunk : ReadChunk(c, s, n) /\ Reads(drain[c][s], q, n)
           \/ KeepChunk(c, s) /\ Keeps(drain[c][s], q)
           \/ PipeEnds(c, s) /\ Stops(drain[c][s], q)
           \/ Write(c, s) /\ Grows(drain[c][s], q)
  <2>1. UNCHANGED hubVars
    BY <1>5 DEF ReadChunk, KeepChunk, PipeEnds, Write
  <2>2. Stages'
    BY <1>1, <1>2, <1>5, QuietDrainStory
  <2> QED
    BY <1>1, <1>3, <2>1, <2>2, SilentStory DEF TellingInv
<1> QED
  BY <1>2, <1>4, <1>5

(* Nothing is told and no drain moves.                                     *)
LEMMA ElsewhereTelling ==
    ASSUME EventsInv, TellingInv, NEW c \in Commands,
           \/ Prune(c) \/ Exit(c) \/ Fork(c)
           \/ \E holder \in {"child", "descendant"} : Close(c, holder)
    PROVE  TellingInv'
<1>1. StoryInv /\ Stages /\ NumbersOK /\ PlacesOK /\ ResultInv /\ HubInv
  BY DEF TellingInv, StoryInv, EventsInv
<1>2. UNCHANGED hubVars /\ UNCHANGED <<cmd, drain>>
  BY DEF Prune, Exit, Fork, Close
<1>3. /\ \A x : IsEvent(x)' => IsEvent(x)
      /\ \A f \in Emitters : InFlight(f)' => InFlight(f) /\ Coming(f)' = Coming(f)
  BY <1>1, <1>2, HubStory
<1>4. Stages'
  BY <1>1, <1>2, <1>3, StagesHub
<1>5. StoryInv'
  BY <1>1, <1>2, <1>4, SilentStory
<1>6. ResultInv'
  BY <1>1, QuietResults
<1> QED
  BY <1>5, <1>6 DEF TellingInv

LEMMA HubTelling ==
    ASSUME EventsInv, TellingInv, UNCHANGED commandVars,
           \/ UNCHANGED hubVars
           \/ \E c \in Commands, part \in Parts : Publish(<<c, part>>)
           \/ \E k \in Clients : Watch(k)
    PROVE  TellingInv'
<1>1. StoryInv /\ Stages /\ ResultInv
  BY DEF TellingInv, StoryInv
<1>2. \/ UNCHANGED hubVars
      \/ \E e \in Emitters : Push(e) \/ Send(e)
      \/ \E k \in Clients : Watch(k)
  BY PartsEmit DEF Publish
<1>3. StoryInv' /\ ResultInv'
  BY <1>1, <1>2, HubOnlyStory, HubResults
<1> QED
  BY <1>3 DEF TellingInv

LEMMA NextTelling ==
    ASSUME EventsInv, EventsInv', TellingInv, [Next]_vars
    PROVE  TellingInv'
<1>1. CASE UNCHANGED vars
  BY <1>1, HubTelling DEF vars
<1>2. ASSUME NEW c \in Commands,
             (\E kind \in Kinds[c] : Arrive(c, kind)) \/ Runtime(c) \/ Process(c)
               \/ Abandon(c) \/ Cancel(c) \/ CancelForgotten(c) \/ Prune(c)
      PROVE  TellingInv'
  <2>1. CASE Runtime(c)
    BY <2>1, WorkTelling, DrainTelling, HubTelling DEF Runtime
  <2>2. CASE CancelForgotten(c)
    <3>1. Forget(<<c, "cancel">>) /\ UNCHANGED commandVars
      BY <2>2 DEF CancelForgotten
    <3>2. StoryInv'
      BY <3>1, HubOnlyStory, PartsEmit DEF TellingInv
    <3>3. ResultInv'
      BY <2>2, OtherResults DEF TellingInv
    <3> QED
      BY <3>2, <3>3 DEF TellingInv
  <2>3. CASE Process(c)
    BY <2>3, DrainTelling, ElsewhereTelling DEF Process
  <2> QED
    BY <1>2, <2>1, <2>2, <2>3, WorkTelling, ElsewhereTelling
<1>3. CASE \E k \in Clients : Watch(k) /\ UNCHANGED commandVars
  BY <1>3, HubTelling
<1> QED
  BY <1>1, <1>2, <1>3 DEF Next

THEOREM TellingInvariant == Spec => [](EventsInv /\ TellingInv)
<1>1. Init => EventsInv /\ TellingInv
  BY InitEvents, InitTelling
<1>2. EventsInv /\ TellingInv /\ [Next]_vars => (EventsInv /\ TellingInv)'
  BY NextEvents, NextTelling
<1> QED
  BY <1>1, <1>2, PTL DEF Spec

(* For any number of commands, clients and bytes, and for rings, channels  *)
(* and buffers of any size: the story of each command is told in its       *)
(* order, in the ring and to every client that streams, and so are its     *)
(* numbers (events.rs:42-54, command.rs:49, :90).                          *)
THEOREM StoriesAreInOrder == Spec => []StoryInOrder
<1>1. EventsInv /\ TellingInv => StoryInOrder
  <2> SUFFICES ASSUME EventsInv, TellingInv
               PROVE  StoryInOrder
    OBVIOUS
  <2>1. /\ HubType /\ LoggedOK /\ NumbersOK /\ PlacesOK
        /\ \A x \in Range(log) : x \in Events /\ IsEvent(x)
    BY DEF EventsInv, HubInv, HubType, TellingInv, StoryInv, IsEvent, Range
  <2>2. ASSUME NEW events \in Seq(Events), Range(events) \subseteq Range(log),
               InPlace(events)
        PROVE  Ordered(events)
    <3> SUFFICES ASSUME NEW i \in 1..Len(events), NEW j \in 1..Len(events),
                        Before(events[i].body, events[j].body)
                 PROVE  i < j /\ events[i].seq < events[j].seq
      BY DEF Ordered
    <3>1. events[i] \in Range(events) /\ events[j] \in Range(events)
      BY DEF Range
    <3>2. i < j
      BY <2>2 DEF InPlace
    <3>3. events[i].seq < events[j].seq
      BY <2>1, <2>2, <3>1 DEF NumbersOK
    <3> QED
      BY <3>2, <3>3
  <2>3. Ordered(log)
    BY <2>1, <2>2 DEF HubType, PlacesOK
  <2>4. \A k \in streaming : Ordered(feed[k])
    BY <2>1, <2>2 DEF HubType, LoggedOK, PlacesOK
  <2>5. ASSUME NEW i \in 1..Len(log), NEW j \in 1..Len(log),
               Before(log[i].body, log[j].body)
        PROVE  ~Unsent(log[i])
    <3> SUFFICES ASSUME NEW e \in Emitters,
                        emission[e] = [phase |-> "pushed", event |-> log[i]]
                 PROVE  FALSE
      BY DEF Unsent
    <3>1. InFlight(e) /\ Coming(e) = log[i]
      BY DEF InFlight, IsQuiet, Coming
    <3>2. log[j] \in Range(log)
      BY <2>1 DEF HubType, Range
    <3> QED
      BY <2>1, <2>5, <3>1, <3>2 DEF NumbersOK
  <2> QED
    BY <2>3, <2>4, <2>5 DEF StoryInOrder
<1> QED
  BY <1>1, TellingInvariant, PTL

(* For any number of commands and bytes, limits and buffers of any size:   *)
(* the result of a command is the first Limit bytes of each channel, with  *)
(* the right mark, and the events of a job told all of them                *)
(* (command.rs:83-91, raw_command.rs:102-145).                             *)
THEOREM ResultsAreWhole == Spec => []ResultIsWhole
<1>1. EventsInv /\ TellingInv => ResultIsWhole
  <2> SUFFICES ASSUME EventsInv, TellingInv, NEW c \in Commands, NEW s \in Channels,
                      cmd[c].pc \in Answering, cmd[c].ending # "unlaunched"
               PROVE  LET d == drain[c][s]
                      IN  /\ d.kept = [i \in 1..Least(Limit, d.written) |-> i]
                          /\ d.truncated <=> d.written > Limit
                          /\ cmd[c].kind = "job" => Told(c, s) = 1..d.written
    BY DEF ResultIsWhole, Answering
  <2>1. PICK d : d = drain[c][s]
    OBVIOUS
  <2>2. d \in Drain /\ d.pc = "ended" /\ WholeOK(c, s) /\ DrainOK(d, holders[c])
    BY <2>1 DEF EventsInv, DrainType, TellingInv, StoryInv, Stages, StageOK,
                AllDrained, ResultInv, WholeOK
  <2>3. Handled(d) = d.read /\ d.read = d.written
    BY <2>2, NothingPending DEF DrainOK
  <2>4. d.kept = [i \in 1..Least(Limit, d.written) |-> i]
        /\ (d.truncated <=> d.written > Limit)
    BY <2>2, <2>3 DEF DrainOK, WasKept, Firsts
  <2>5. cmd[c].kind = "job" => Told(c, s) = 1..d.written
    BY <2>1, <2>2, <2>3 DEF WholeOK, ToldUpTo
  <2> QED
    BY <2>1, <2>4, <2>5
<1> QED
  BY <1>1, TellingInvariant, PTL
=============================================================================
