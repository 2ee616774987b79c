----------------------------- MODULE AuditRunProofs -----------------------------
(***************************************************************************)
(* What holds of a recorded run for any processes and any capacities: its  *)
(* types, that the target is watched before it runs, that nothing in the   *)
(* run's cgroup is missed, that events come in order, and that a trace     *)
(* with a summary is whole or says by how much it is not.                  *)
(***************************************************************************)
EXTENDS AuditRun, SequenceTheorems, FiniteSetTheorems, TLAPS

-----------------------------------------------------------------------------
(* The parts of the inductive invariant.                                   *)

Early == {"hello", "spawn", "stop", "observe", "ack", "resume"}
Live  == {"wait", "read", "done"}
Last  == {"lastFollow", "lastDrain", "summary"}

\* The helper observes what it was told to.
Watching == IF cgroup THEN scope ELSE Root \in tracked

\* Every increment under way read a count of earlier accesses only.
CountsLag ==
  /\ dropped <= accesses
  /\ \A entry \in counting : entry.read < entry.access /\ entry.access <= accesses

\* What is in the pipe and where the helper is while bailey is in each phase.
Greeting ==
  /\ pc = "hello" => helper \in {"load", "scope", "gone"} /\ Len(pipe) <= 1
  /\ pc = "hello" /\ helper = "load" => pipe = <<>>
  /\ pc \in {"spawn", "stop", "observe"} => helper \in {"scope", "gone"} /\ pipe = <<>>
  /\ pc \in {"hello", "spawn", "stop", "observe"} => stdin = "open"
  /\ pc = "ack" => helper \in {"scope", "ack", "follow", "drain", "poll", "gone"}
  /\ pc = "ack" => Len(pipe) <= 1 /\ (helper \in {"scope", "ack"} => pipe = <<>>)
  /\ pc = "resume" => helper \in {"follow", "drain", "poll", "gone"} /\ pipe = <<>>
  /\ pc \in Early \cup {"wait"} => stdin # "closed"
  /\ pc \in Live => helper \notin {"load", "scope", "ack"}
  /\ pc = "done" => helper = "gone" /\ pipe = <<>>
  /\ helper \in Last => stdin = "closed"

\* The helper has set its scope when it says so, and bailey has been told so
\* when it lets the target go.
Told ==
  /\ helper \in {"ack", "follow", "drain", "poll"} \cup Last => Watching
  /\ pc = "ack" /\ pipe # <<>> => Watching
  /\ pc \in {"resume"} \cup Live => Watching

\* Nothing runs before the target is let go, so there is nothing to record.
Held ==
  /\ pc \in Early =>
       /\ \A p \in Procs : proc[p] # "running"
       /\ ring = <<>> /\ dropped = 0 /\ counting = {} /\ accesses = 0
       /\ due = {} /\ missed = {} /\ events = <<>> /\ lost = 0 /\ ~summary
  /\ pc \in {"read", "done"} => proc[Root] = "gone"

-----------------------------------------------------------------------------
(* What becomes of a record.                                               *)

IsRecord(i)  == i \in 1..Len(pipe) /\ pipe[i].tag = "record"
IsSummary(i) == i \in 1..Len(pipe) /\ pipe[i].tag = "summary"

\* What is in the sequences has been made.
Past ==
  /\ \A i \in 1..Len(events) : events[i] <= accesses
  /\ \A i \in 1..Len(pipe) : IsRecord(i) => pipe[i].value <= accesses
  /\ \A i \in 1..Len(ring) : ring[i] <= accesses

EventsOrdered == \A i, j \in 1..Len(events) : i < j => events[i] < events[j]

PipeOrdered ==
  \A i, j \in 1..Len(pipe) :
    i < j /\ IsRecord(i) /\ IsRecord(j) => pipe[i].value < pipe[j].value

RingOrdered == \A i, j \in 1..Len(ring) : i < j => ring[i] < ring[j]

EventsBeforePipe ==
  \A i \in 1..Len(events), j \in 1..Len(pipe) : IsRecord(j) => events[i] < pipe[j].value

EventsBeforeRing ==
  \A i \in 1..Len(events), j \in 1..Len(ring) : events[i] < ring[j]

PipeBeforeRing ==
  \A i \in 1..Len(pipe), j \in 1..Len(ring) : IsRecord(i) => pipe[i].value < ring[j]

\* Accesses go from the ring through the pipe to the trace in order.
InOrder ==
  /\ Past /\ EventsOrdered /\ PipeOrdered /\ RingOrdered
  /\ EventsBeforePipe /\ EventsBeforeRing /\ PipeBeforeRing

\* The summary is the last thing the helper writes, and it writes it when the
\* target is gone.
SummaryIsLast ==
  pc \in Live =>
    /\ \A i \in 1..Len(pipe) : IsRecord(i) \/ IsSummary(i)
    /\ \A i \in 1..Len(pipe) :
         IsSummary(i) => i = Len(pipe) /\ helper = "gone" /\ ~summary /\ pc = "read"
    /\ summary => pipe = <<>> /\ helper = "gone" /\ pc # "wait"

Said == summary \/ \E i \in 1..Len(pipe) : IsSummary(i)

\* An access that is owed to the trace.
Traced(n) == \E i \in 1..Len(events) : events[i] = n
Piped(n)  == \E i \in 1..Len(pipe) : IsRecord(i) /\ pipe[i].value = n
Ringed(n) == \E i \in 1..Len(ring) : ring[i] = n

\* It is on its way, or a loss is on record.
NothingForgotten ==
  pc \in Live =>
    /\ \A n \in due : n <= accesses
    /\ ~Said /\ dropped = 0 /\ lost = 0 =>
         \A n \in due : Traced(n) \/ Piped(n) \/ Ringed(n)
    /\ helper = "summary" => \A n \in due : ~Ringed(n)
    /\ \A i \in 1..Len(pipe) :
         IsSummary(i) /\ pipe[i].value = 0 /\ lost = 0 =>
           \A n \in due : Traced(n) \/ Piped(n)
    /\ summary /\ lost = 0 => \A n \in due : Traced(n)

Kept == Len(events) + Len(pipe) + Len(ring) + lost

\* No access is accounted for twice, whether it is kept or counted.
NothingInvented ==
  pc \in Live =>
    /\ ~Said => Kept + dropped <= accesses
    /\ ~Said => \A entry \in counting : Kept + entry.read < accesses
    /\ \A i \in 1..Len(pipe) : IsSummary(i) => Kept - 1 + pipe[i].value <= accesses
    /\ summary => Kept <= accesses

-----------------------------------------------------------------------------
(* Sequences.                                                              *)

\* What a sequence is when one more is appended to it.
LEMMA AppendFacts ==
  ASSUME NEW S, NEW s \in Seq(S), NEW x \in S
  PROVE  /\ Append(s, x) \in Seq(S) /\ Len(s) \in Nat /\ Len(Append(s, x)) = Len(s) + 1
         /\ \A i \in 1..Len(s) : Append(s, x)[i] = s[i]
         /\ Append(s, x)[Len(s) + 1] = x
BY AppendProperties, LenProperties

\* What a sequence is when its first element is taken.
LEMMA TailFacts ==
  ASSUME NEW S, NEW s \in Seq(S), s # <<>>
  PROVE  /\ Tail(s) \in Seq(S) /\ Len(s) \in Nat \ {0} /\ Len(Tail(s)) = Len(s) - 1
         /\ Head(s) = s[1] /\ Head(s) \in S
         /\ \A i \in 1..Len(Tail(s)) : Tail(s)[i] = s[i + 1]
BY HeadTailProperties, LenProperties, EmptySeq

\* A sequence with no element is empty.
LEMMA EmptyFacts ==
  ASSUME NEW S, NEW s \in Seq(S)
  PROVE  /\ Len(s) \in Nat
         /\ Len(s) = 0 <=> s = <<>>
BY LenProperties, EmptySeq

-----------------------------------------------------------------------------
(* Types.                                                                  *)

CtlType ==
  /\ pc \in Early \cup {"wait", "read"} \cup Over
  /\ helper \in {"load", "scope", "ack", "follow", "drain", "poll", "summary", "gone"} \cup Last
  /\ cgroup \in BOOLEAN /\ scope \in BOOLEAN /\ summary \in BOOLEAN
  /\ stdin \in {"open", "scope", "closed"}

SeqType ==
  /\ pipe \in Seq(Frames) /\ Len(pipe) <= PipeCap
  /\ ring \in Seq(Numbers) /\ Len(ring) <= RingCap
  /\ events \in Seq(Numbers) /\ Len(events) <= MaxEvents

TargetType ==
  /\ tracked \subseteq Procs
  /\ proc \in [Procs -> {"unborn", "born", "stopped", "running", "gone"}]
  /\ parent \in [Procs -> Procs]

NumberType ==
  /\ counting \subseteq [by : Procs, access : Numbers, read : Numbers]
  /\ accesses \in Numbers /\ due \subseteq Numbers /\ missed \subseteq Numbers
  /\ dropped \in Nat /\ lost \in Nat /\ crashes \in Nat

Types == CtlType /\ SeqType /\ TargetType /\ NumberType

\* The types, in the parts the steps are checked against.
LEMMA TypeParts == TypeOK <=> Types
BY DEF TypeOK, Types, CtlType, SeqType, TargetType, NumberType, Early, Last, Over

\* The numbers the bounds allow.
LEMMA NumbersFacts ==
  /\ Numbers = 0..MaxAccesses /\ MaxAccesses \in Nat
  /\ \A n \in Numbers : n \in Nat /\ n <= MaxAccesses
  /\ \A n \in Nat : n <= MaxAccesses => n \in Numbers
BY BoundsAssumption DEF Numbers

\* What a frame is.
LEMMA FrameFacts ==
  /\ \A f \in Frames : /\ f.tag \in {"hello", "ack", "record", "summary"}
                       /\ f.value \in Numbers
  /\ \A k \in {"hello", "ack", "record", "summary"}, n \in Numbers :
       Frame(k, n) \in Frames /\ Frame(k, n).tag = k /\ Frame(k, n).value = n
BY DEF Frames, Frame

\* Every step leaves bailey, the helper and what is between them in a label they have.
LEMMA CtlStep ==
  ASSUME CtlType, [Next]_vars
  PROVE  CtlType'
<1> USE DEF target, maps, seen, trace, Over
<1>1. CASE ReadHello
  BY <1>1 DEF ReadHello, Fail, Stop, Released, Closed, CtlType, Early, Last
<1>2. CASE Spawn
  BY <1>2 DEF Spawn, Fail, Stop, Released, CtlType, Early, Last
<1>3. CASE WaitForStop
  BY <1>3 DEF WaitForStop, Fail, Stop, Released, CtlType, Early, Last
<1>4. CASE SendScope
  BY <1>4 DEF SendScope, Fail, Stop, Released, CtlType, Early, Last
<1>5. CASE ReadAck
  BY <1>5 DEF ReadAck, Fail, Stop, Released, Closed, CtlType, Early, Last
<1>6. CASE Resume
  BY <1>6 DEF Resume, Fail, Stop, Released, CtlType, Early, Last
<1>7. CASE Wait
  BY <1>7 DEF Wait, CtlType, Early, Last
<1>8. CASE ReadFrame
  BY <1>8 DEF ReadFrame, CtlType, Early, Last
<1>9. CASE ReadEnd
  BY <1>9 DEF ReadEnd, Closed, CtlType, Early, Last
<1>10. CASE HelperLoad
  BY <1>10 DEF HelperLoad, Write, Room, CtlType, Early, Last
<1>11. CASE HelperScope
  BY <1>11 DEF HelperScope, CtlType, Early, Last
<1>12. CASE HelperAck
  BY <1>12 DEF HelperAck, Write, Room, CtlType, Early, Last
<1>13. CASE HelperFollow
  BY <1>13 DEF HelperFollow, CtlType, Early, Last
<1>14. CASE HelperDrain
  BY <1>14 DEF HelperDrain, Write, Room, CtlType, Early, Last
<1>15. CASE HelperPoll
  BY <1>15 DEF HelperPoll, CtlType, Early, Last
<1>16. CASE HelperSummary
  BY <1>16 DEF HelperSummary, Write, Room, CtlType, Early, Last
<1>17. CASE Trap
  BY <1>17 DEF Trap, CtlType, Early, Last
<1>18. ASSUME NEW p \in Procs, Fork(p) PROVE CtlType'
  BY <1>18 DEF Fork, Free, CtlType, Early, Last
<1>19. ASSUME NEW p \in Procs, Exit(p) PROVE CtlType'
  BY <1>19 DEF Exit, Free, CtlType, Early, Last
<1>20. ASSUME NEW p \in Procs, Access(p) PROVE CtlType'
  BY <1>20 DEF Access, Free, Owe, Attached, InScope, CtlType, Early, Last
<1>21. ASSUME NEW p \in Procs, CountDrop(p) PROVE CtlType'
  BY <1>21 DEF CountDrop, Owe, CtlType, Early, Last
<1>22. CASE Killed
  BY <1>22 DEF Killed, Stop, Released, CtlType, Early, Last
<1>23. CASE HelperDies
  BY <1>23 DEF HelperDies, CtlType, Early, Last
<1>24. CASE UNCHANGED vars
  BY <1>24 DEF vars, CtlType, Early, Last
<1> QED
  BY <1>1, <1>2, <1>3, <1>4, <1>5, <1>6, <1>7, <1>8, <1>9, <1>10, <1>11, <1>12, <1>13, <1>14,
       <1>15, <1>16, <1>17, <1>18, <1>19, <1>20, <1>21, <1>22, <1>23, <1>24 DEF Next,
       BaileyStep, HelperStep, TargetStep

\* Every step leaves the processes in a state they have.
LEMMA TargetStays ==
  ASSUME TargetType, [Next]_vars
  PROVE  TargetType'
<1> USE DEF target, maps, seen, trace, Over
<1>1. CASE ReadHello
  BY <1>1, RootAssumption DEF ReadHello, Fail, Stop, Released, Closed, TargetType
<1>2. CASE Spawn
  BY <1>2, RootAssumption DEF Spawn, Fail, Stop, Released, TargetType
<1>3. CASE WaitForStop
  BY <1>3, RootAssumption DEF WaitForStop, Fail, Stop, Released, TargetType
<1>4. CASE SendScope
  BY <1>4, RootAssumption DEF SendScope, Fail, Stop, Released, TargetType
<1>5. CASE ReadAck
  BY <1>5, RootAssumption DEF ReadAck, Fail, Stop, Released, Closed, TargetType
<1>6. CASE Resume
  BY <1>6, RootAssumption DEF Resume, Fail, Stop, Released, TargetType
<1>7. CASE Wait
  BY <1>7, RootAssumption DEF Wait, TargetType
<1>8. CASE ReadFrame
  BY <1>8, RootAssumption DEF ReadFrame, TargetType
<1>9. CASE ReadEnd
  BY <1>9, RootAssumption DEF ReadEnd, Closed, TargetType
<1>10. CASE HelperLoad
  BY <1>10, RootAssumption DEF HelperLoad, Write, Room, TargetType
<1>11. CASE HelperScope
  BY <1>11, RootAssumption DEF HelperScope, TargetType
<1>12. CASE HelperAck
  BY <1>12, RootAssumption DEF HelperAck, Write, Room, TargetType
<1>13. CASE HelperFollow
  <2>1. tracked' \subseteq Procs
    BY <1>13 DEF HelperFollow, Descendants, TargetType
  <2> QED
    BY <1>13, <2>1 DEF HelperFollow, TargetType
<1>14. CASE HelperDrain
  BY <1>14, RootAssumption DEF HelperDrain, Write, Room, TargetType
<1>15. CASE HelperPoll
  BY <1>15, RootAssumption DEF HelperPoll, TargetType
<1>16. CASE HelperSummary
  BY <1>16, RootAssumption DEF HelperSummary, Write, Room, TargetType
<1>17. CASE Trap
  BY <1>17, RootAssumption DEF Trap, TargetType
<1>18. ASSUME NEW p \in Procs, Fork(p) PROVE TargetType'
  BY <1>18, RootAssumption DEF Fork, Free, TargetType
<1>19. ASSUME NEW p \in Procs, Exit(p) PROVE TargetType'
  BY <1>19, RootAssumption DEF Exit, Free, TargetType
<1>20. ASSUME NEW p \in Procs, Access(p) PROVE TargetType'
  BY <1>20, RootAssumption DEF Access, Free, Owe, Attached, InScope, TargetType
<1>21. ASSUME NEW p \in Procs, CountDrop(p) PROVE TargetType'
  BY <1>21, RootAssumption DEF CountDrop, Owe, TargetType
<1>22. CASE Killed
  BY <1>22, RootAssumption DEF Killed, Stop, Released, TargetType
<1>23. CASE HelperDies
  BY <1>23, RootAssumption DEF HelperDies, TargetType
<1>24. CASE UNCHANGED vars
  BY <1>24 DEF vars, TargetType
<1> QED
  BY <1>1, <1>2, <1>3, <1>4, <1>5, <1>6, <1>7, <1>8, <1>9, <1>10, <1>11, <1>12, <1>13, <1>14,
       <1>15, <1>16, <1>17, <1>18, <1>19, <1>20, <1>21, <1>22, <1>23, <1>24 DEF Next,
       BaileyStep, HelperStep, TargetStep

\* Every step leaves the counts in the numbers they are of.
LEMMA NumberStep ==
  ASSUME Types, CountsLag, [Next]_vars
  PROVE  NumberType'
<1> USE DEF target, maps, seen, trace, Over
<1>1. CASE ReadHello
  BY <1>1, NumbersFacts DEF ReadHello, Fail, Stop, Released, Closed, Types, NumberType
<1>2. CASE Spawn
  BY <1>2, NumbersFacts DEF Spawn, Fail, Stop, Released, Types, NumberType
<1>3. CASE WaitForStop
  BY <1>3, NumbersFacts DEF WaitForStop, Fail, Stop, Released, Types, NumberType
<1>4. CASE SendScope
  BY <1>4, NumbersFacts DEF SendScope, Fail, Stop, Released, Types, NumberType
<1>5. CASE ReadAck
  BY <1>5, NumbersFacts DEF ReadAck, Fail, Stop, Released, Closed, Types, NumberType
<1>6. CASE Resume
  BY <1>6, NumbersFacts DEF Resume, Fail, Stop, Released, Types, NumberType
<1>7. CASE Wait
  BY <1>7, NumbersFacts DEF Wait, Types, NumberType
<1>8. CASE ReadFrame
  <2>1. Head(pipe) \in Frames
    BY <1>8, TailFacts DEF ReadFrame, Types, SeqType
  <2>2. Head(pipe).value \in Nat
    BY <2>1, FrameFacts, NumbersFacts
  <2> QED
    BY <1>8, <2>2 DEF ReadFrame, Types, NumberType
<1>9. CASE ReadEnd
  BY <1>9, NumbersFacts DEF ReadEnd, Closed, Types, NumberType
<1>10. CASE HelperLoad
  BY <1>10, NumbersFacts DEF HelperLoad, Write, Room, Types, NumberType
<1>11. CASE HelperScope
  BY <1>11, NumbersFacts DEF HelperScope, Types, NumberType
<1>12. CASE HelperAck
  BY <1>12, NumbersFacts DEF HelperAck, Write, Room, Types, NumberType
<1>13. CASE HelperFollow
  BY <1>13, NumbersFacts DEF HelperFollow, Types, NumberType
<1>14. CASE HelperDrain
  BY <1>14, NumbersFacts DEF HelperDrain, Write, Room, Types, NumberType
<1>15. CASE HelperPoll
  BY <1>15, NumbersFacts DEF HelperPoll, Types, NumberType
<1>16. CASE HelperSummary
  BY <1>16, NumbersFacts DEF HelperSummary, Write, Room, Types, NumberType
<1>17. CASE Trap
  BY <1>17, NumbersFacts DEF Trap, Types, NumberType
<1>18. ASSUME NEW p \in Procs, Fork(p) PROVE NumberType'
  BY <1>18, NumbersFacts DEF Fork, Free, Types, NumberType
<1>19. ASSUME NEW p \in Procs, Exit(p) PROVE NumberType'
  BY <1>19, NumbersFacts DEF Exit, Free, Types, NumberType
<1>20. ASSUME NEW p \in Procs, Access(p) PROVE NumberType'
  <2>1. accesses + 1 \in Numbers
    BY <1>20, NumbersFacts DEF Access, Types, NumberType
  <2>2. dropped \in Numbers
    BY NumbersFacts DEF Types, NumberType, CountsLag
  <2>3. due' \subseteq Numbers /\ missed' \subseteq Numbers
    BY <1>20, <2>1 DEF Access, Owe, Types, NumberType
  <2>4. [by |-> p, access |-> accesses + 1, read |-> dropped]
          \in [by : Procs, access : Numbers, read : Numbers]
    BY <2>1, <2>2
  <2>5. counting' \subseteq [by : Procs, access : Numbers, read : Numbers]
    BY <1>20, <2>4 DEF Access, Types, NumberType
  <2> QED
    BY <1>20, <2>1, <2>3, <2>5 DEF Access, Types, NumberType
<1>21. ASSUME NEW p \in Procs, CountDrop(p) PROVE NumberType'
  <2>1. PICK entry \in counting : /\ counting' = counting \ {entry}
                                  /\ dropped' = entry.read + 1
                                  /\ Owe(entry.access)
    BY <1>21 DEF CountDrop
  <2>2. entry.access \in Numbers /\ entry.read \in Numbers
    BY DEF Types, NumberType
  <2>3. due' \subseteq Numbers
    BY <2>1, <2>2 DEF Owe, Types, NumberType
  <2>4. dropped' \in Nat
    BY <2>1, <2>2, NumbersFacts
  <2> QED
    BY <1>21, <2>1, <2>3, <2>4 DEF CountDrop, Types, NumberType
<1>22. CASE Killed
  BY <1>22, NumbersFacts DEF Killed, Stop, Released, Types, NumberType
<1>23. CASE HelperDies
  BY <1>23, NumbersFacts DEF HelperDies, Types, NumberType
<1>24. CASE UNCHANGED vars
  BY <1>24 DEF vars, Types, NumberType
<1> QED
  BY <1>1, <1>2, <1>3, <1>4, <1>5, <1>6, <1>7, <1>8, <1>9, <1>10, <1>11, <1>12, <1>13, <1>14,
       <1>15, <1>16, <1>17, <1>18, <1>19, <1>20, <1>21, <1>22, <1>23, <1>24 DEF Next,
       BaileyStep, HelperStep, TargetStep

\* Every step leaves the pipe, the ring and the trace within what they hold.
LEMMA SeqStep ==
  ASSUME Types, CountsLag, [Next]_vars
  PROVE  SeqType'
<1> USE DEF target, maps, seen, trace, Over
<1>1. CASE ReadHello
  <2>1. pipe \in Seq(Frames)
    BY DEF Types, SeqType
  <2>2. CASE pipe' = pipe
    BY <1>1, <2>2 DEF ReadHello, Types, SeqType
  <2>3. CASE pipe # <<>> /\ pipe' = Tail(pipe)
    <3>1. pipe' \in Seq(Frames) /\ Len(pipe') <= Len(pipe) /\ Len(pipe) \in Nat /\ Len(pipe') \in Nat
      BY <2>1, <2>3, TailFacts
    <3>2. Len(pipe') <= PipeCap
      BY <3>1, CapAssumption DEF Types, SeqType
    <3> QED
      BY <1>1, <3>1, <3>2 DEF ReadHello, Types, SeqType
  <2> QED
    BY <1>1, <2>2, <2>3 DEF ReadHello
<1>2. CASE Spawn
  BY <1>2 DEF Spawn, Fail, Stop, Released, Types, SeqType
<1>3. CASE WaitForStop
  BY <1>3 DEF WaitForStop, Fail, Stop, Released, Types, SeqType
<1>4. CASE SendScope
  BY <1>4 DEF SendScope, Fail, Stop, Released, Types, SeqType
<1>5. CASE ReadAck
  <2>1. pipe \in Seq(Frames)
    BY DEF Types, SeqType
  <2>2. CASE pipe' = pipe
    BY <1>5, <2>2 DEF ReadAck, Types, SeqType
  <2>3. CASE pipe # <<>> /\ pipe' = Tail(pipe)
    <3>1. pipe' \in Seq(Frames) /\ Len(pipe') <= Len(pipe) /\ Len(pipe) \in Nat /\ Len(pipe') \in Nat
      BY <2>1, <2>3, TailFacts
    <3>2. Len(pipe') <= PipeCap
      BY <3>1, CapAssumption DEF Types, SeqType
    <3> QED
      BY <1>5, <3>1, <3>2 DEF ReadAck, Types, SeqType
  <2> QED
    BY <1>5, <2>2, <2>3 DEF ReadAck
<1>6. CASE Resume
  BY <1>6 DEF Resume, Fail, Stop, Released, Types, SeqType
<1>7. CASE Wait
  BY <1>7 DEF Wait, Types, SeqType
<1>8. CASE ReadFrame
  <2>1. /\ pipe' \in Seq(Frames) /\ Head(pipe) \in Frames
        /\ Len(pipe') <= Len(pipe) /\ Len(pipe) \in Nat /\ Len(pipe') \in Nat
    BY <1>8, TailFacts DEF ReadFrame, Types, SeqType
  <2>2. Len(pipe') <= PipeCap
    BY <2>1, CapAssumption DEF Types, SeqType
  <2>3. events' \in Seq(Numbers) /\ Len(events') <= MaxEvents
    <3>1. CASE events' = events
      BY <3>1 DEF Types, SeqType
    <3>2. CASE Len(events) < MaxEvents /\ events' = Append(events, Head(pipe).value)
      BY <2>1, <3>2, FrameFacts, AppendFacts, CapAssumption DEF Types, SeqType
    <3> QED
      BY <1>8, <3>1, <3>2 DEF ReadFrame
  <2> QED
    BY <1>8, <2>1, <2>2, <2>3 DEF ReadFrame, Types, SeqType
<1>9. CASE ReadEnd
  BY <1>9 DEF ReadEnd, Closed, Types, SeqType
<1>10. CASE HelperLoad
  <2>1. pipe \in Seq(Frames) /\ 0 \in Numbers
    BY NumbersFacts DEF Types, SeqType, NumberType, CountsLag
  <2>2. Frame("hello", 0) \in Frames
    BY <2>1, FrameFacts, NumbersFacts
  <2>3. CASE pipe' = pipe
    BY <1>10, <2>3 DEF HelperLoad, Types, SeqType
  <2>4. CASE Room /\ pipe' = Append(pipe, Frame("hello", 0))
    <3>1. pipe' \in Seq(Frames) /\ Len(pipe') = Len(pipe) + 1 /\ Len(pipe) \in Nat
      BY <2>1, <2>2, <2>4, AppendFacts
    <3>2. Len(pipe') <= PipeCap
      BY <2>4, <3>1, CapAssumption DEF Room
    <3> QED
      BY <1>10, <3>1, <3>2 DEF HelperLoad, Types, SeqType
  <2> QED
    BY <1>10, <2>3, <2>4 DEF HelperLoad, Write
<1>11. CASE HelperScope
  BY <1>11 DEF HelperScope, Types, SeqType
<1>12. CASE HelperAck
  <2>1. pipe \in Seq(Frames) /\ 0 \in Numbers
    BY NumbersFacts DEF Types, SeqType, NumberType, CountsLag
  <2>2. Frame("ack", 0) \in Frames
    BY <2>1, FrameFacts, NumbersFacts
  <2>3. CASE pipe' = pipe
    BY <1>12, <2>3 DEF HelperAck, Types, SeqType
  <2>4. CASE Room /\ pipe' = Append(pipe, Frame("ack", 0))
    <3>1. pipe' \in Seq(Frames) /\ Len(pipe') = Len(pipe) + 1 /\ Len(pipe) \in Nat
      BY <2>1, <2>2, <2>4, AppendFacts
    <3>2. Len(pipe') <= PipeCap
      BY <2>4, <3>1, CapAssumption DEF Room
    <3> QED
      BY <1>12, <3>1, <3>2 DEF HelperAck, Types, SeqType
  <2> QED
    BY <1>12, <2>3, <2>4 DEF HelperAck, Write
<1>13. CASE HelperFollow
  BY <1>13 DEF HelperFollow, Types, SeqType
<1>14. CASE HelperDrain
  <2>1. CASE ring = <<>>
    BY <1>14, <2>1 DEF HelperDrain, Types, SeqType
  <2>2. CASE ring # <<>>
    <3>1. /\ ring' \in Seq(Numbers) /\ Head(ring) \in Numbers
          /\ Len(ring') <= Len(ring) /\ Len(ring) \in Nat /\ Len(ring') \in Nat
      BY <1>14, <2>2, TailFacts DEF HelperDrain, Types, SeqType
    <3>2. Len(ring') <= RingCap
      BY <3>1, CapAssumption DEF Types, SeqType
    <3>3. Frame("record", Head(ring)) \in Frames
      BY <3>1, FrameFacts
    <3>4. pipe' \in Seq(Frames) /\ Len(pipe') <= PipeCap
      <4>1. CASE pipe' = pipe
        BY <4>1 DEF Types, SeqType
      <4>2. CASE Room /\ pipe' = Append(pipe, Frame("record", Head(ring)))
        BY <3>3, <4>2, AppendFacts, CapAssumption DEF Room, Types, SeqType
      <4> QED
        BY <1>14, <2>2, <4>1, <4>2 DEF HelperDrain, Write
    <3> QED
      BY <1>14, <3>1, <3>2, <3>4 DEF HelperDrain, Types, SeqType
  <2> QED
    BY <2>1, <2>2
<1>15. CASE HelperPoll
  BY <1>15 DEF HelperPoll, Types, SeqType
<1>16. CASE HelperSummary
  <2>1. pipe \in Seq(Frames) /\ dropped \in Numbers
    BY NumbersFacts DEF Types, SeqType, NumberType, CountsLag
  <2>2. Frame("summary", dropped) \in Frames
    BY <2>1, FrameFacts, NumbersFacts
  <2>3. CASE pipe' = pipe
    BY <1>16, <2>3 DEF HelperSummary, Types, SeqType
  <2>4. CASE Room /\ pipe' = Append(pipe, Frame("summary", dropped))
    <3>1. pipe' \in Seq(Frames) /\ Len(pipe') = Len(pipe) + 1 /\ Len(pipe) \in Nat
      BY <2>1, <2>2, <2>4, AppendFacts
    <3>2. Len(pipe') <= PipeCap
      BY <2>4, <3>1, CapAssumption DEF Room
    <3> QED
      BY <1>16, <3>1, <3>2 DEF HelperSummary, Types, SeqType
  <2> QED
    BY <1>16, <2>3, <2>4 DEF HelperSummary, Write
<1>17. CASE Trap
  BY <1>17 DEF Trap, Types, SeqType
<1>18. ASSUME NEW p \in Procs, Fork(p) PROVE SeqType'
  BY <1>18 DEF Fork, Free, Types, SeqType
<1>19. ASSUME NEW p \in Procs, Exit(p) PROVE SeqType'
  BY <1>19 DEF Exit, Free, Types, SeqType
<1>20. ASSUME NEW p \in Procs, Access(p) PROVE SeqType'
  <2>1. accesses + 1 \in Numbers
    BY <1>20, NumbersFacts DEF Access, Types, NumberType
  <2>2. CASE ring' = ring
    BY <1>20, <2>2 DEF Access, Types, SeqType
  <2>3. CASE Len(ring) < RingCap /\ ring' = Append(ring, accesses + 1)
    <3>1. ring' \in Seq(Numbers) /\ Len(ring') <= RingCap
      BY <2>1, <2>3, AppendFacts, CapAssumption DEF Types, SeqType
    <3> QED
      BY <1>20, <3>1 DEF Access, Types, SeqType
  <2> QED
    BY <1>20, <2>2, <2>3 DEF Access
<1>21. ASSUME NEW p \in Procs, CountDrop(p) PROVE SeqType'
  BY <1>21 DEF CountDrop, Owe, Types, SeqType
<1>22. CASE Killed
  BY <1>22 DEF Killed, Stop, Released, Types, SeqType
<1>23. CASE HelperDies
  BY <1>23 DEF HelperDies, Types, SeqType
<1>24. CASE UNCHANGED vars
  BY <1>24 DEF vars, Types, SeqType
<1> QED
  BY <1>1, <1>2, <1>3, <1>4, <1>5, <1>6, <1>7, <1>8, <1>9, <1>10, <1>11, <1>12, <1>13, <1>14,
       <1>15, <1>16, <1>17, <1>18, <1>19, <1>20, <1>21, <1>22, <1>23, <1>24 DEF Next,
       BaileyStep, HelperStep, TargetStep

\* Every step leaves the increments under way behind the accesses made.
LEMMA CountsStep ==
  ASSUME Types, CountsLag, [Next]_vars
  PROVE  CountsLag'
<1> USE DEF target, maps, seen, trace, Over
<1>1. CASE ReadHello
  BY <1>1, NumbersFacts DEF ReadHello, Fail, Stop, Released, Closed, Types, NumberType,
       CountsLag
<1>2. CASE Spawn
  BY <1>2, NumbersFacts DEF Spawn, Fail, Stop, Released, Types, NumberType, CountsLag
<1>3. CASE WaitForStop
  BY <1>3, NumbersFacts DEF WaitForStop, Fail, Stop, Released, Types, NumberType, CountsLag
<1>4. CASE SendScope
  BY <1>4, NumbersFacts DEF SendScope, Fail, Stop, Released, Types, NumberType, CountsLag
<1>5. CASE ReadAck
  BY <1>5, NumbersFacts DEF ReadAck, Fail, Stop, Released, Closed, Types, NumberType, CountsLag
<1>6. CASE Resume
  BY <1>6, NumbersFacts DEF Resume, Fail, Stop, Released, Types, NumberType, CountsLag
<1>7. CASE Wait
  BY <1>7, NumbersFacts DEF Wait, Types, NumberType, CountsLag
<1>8. CASE ReadFrame
  BY <1>8, NumbersFacts DEF ReadFrame, Types, NumberType, CountsLag
<1>9. CASE ReadEnd
  BY <1>9, NumbersFacts DEF ReadEnd, Closed, Types, NumberType, CountsLag
<1>10. CASE HelperLoad
  BY <1>10, NumbersFacts DEF HelperLoad, Write, Room, Types, NumberType, CountsLag
<1>11. CASE HelperScope
  BY <1>11, NumbersFacts DEF HelperScope, Types, NumberType, CountsLag
<1>12. CASE HelperAck
  BY <1>12, NumbersFacts DEF HelperAck, Write, Room, Types, NumberType, CountsLag
<1>13. CASE HelperFollow
  BY <1>13, NumbersFacts DEF HelperFollow, Types, NumberType, CountsLag
<1>14. CASE HelperDrain
  BY <1>14, NumbersFacts DEF HelperDrain, Write, Room, Types, NumberType, CountsLag
<1>15. CASE HelperPoll
  BY <1>15, NumbersFacts DEF HelperPoll, Types, NumberType, CountsLag
<1>16. CASE HelperSummary
  BY <1>16, NumbersFacts DEF HelperSummary, Write, Room, Types, NumberType, CountsLag
<1>17. CASE Trap
  BY <1>17, NumbersFacts DEF Trap, Types, NumberType, CountsLag
<1>18. ASSUME NEW p \in Procs, Fork(p) PROVE CountsLag'
  BY <1>18, NumbersFacts DEF Fork, Free, Types, NumberType, CountsLag
<1>19. ASSUME NEW p \in Procs, Exit(p) PROVE CountsLag'
  BY <1>19, NumbersFacts DEF Exit, Free, Types, NumberType, CountsLag
<1>20. ASSUME NEW p \in Procs, Access(p) PROVE CountsLag'
  BY <1>20, NumbersFacts DEF Access, Free, Owe, Attached, InScope, Types, NumberType, CountsLag
<1>21. ASSUME NEW p \in Procs, CountDrop(p) PROVE CountsLag'
  BY <1>21, NumbersFacts DEF CountDrop, Owe, Types, NumberType, CountsLag
<1>22. CASE Killed
  BY <1>22, NumbersFacts DEF Killed, Stop, Released, Types, NumberType, CountsLag
<1>23. CASE HelperDies
  BY <1>23, NumbersFacts DEF HelperDies, Types, NumberType, CountsLag
<1>24. CASE UNCHANGED vars
  BY <1>24 DEF vars, Types, NumberType, CountsLag
<1> QED
  BY <1>1, <1>2, <1>3, <1>4, <1>5, <1>6, <1>7, <1>8, <1>9, <1>10, <1>11, <1>12, <1>13, <1>14,
       <1>15, <1>16, <1>17, <1>18, <1>19, <1>20, <1>21, <1>22, <1>23, <1>24 DEF Next,
       BaileyStep, HelperStep, TargetStep

\* Every step keeps the types.
LEMMA TypesStep ==
  ASSUME Types, CountsLag, [Next]_vars
  PROVE  Types'
BY CtlStep, SeqStep, TargetStays, NumberStep DEF Types
-----------------------------------------------------------------------------
(* Bailey and the helper.                                                 *)

\* What is in the pipe after a read and after a write.
LEMMA PipeMoves ==
  ASSUME Types
  PROVE  /\ Len(pipe) \in Nat
         /\ pipe = <<>> <=> Len(pipe) = 0
         /\ pipe # <<>> => Len(Tail(pipe)) = Len(pipe) - 1
         /\ pipe # <<>> /\ Len(pipe) <= 1 => Tail(pipe) = <<>>
         /\ \A f \in Frames : Len(Append(pipe, f)) = Len(pipe) + 1 /\ Append(pipe, f) # <<>>
<1>1. pipe \in Seq(Frames)
  BY DEF Types, SeqType
<1>2. Len(pipe) \in Nat /\ (pipe = <<>> <=> Len(pipe) = 0)
  BY <1>1, EmptyFacts
<1>3. ASSUME pipe # <<>>
      PROVE  Len(Tail(pipe)) = Len(pipe) - 1 /\ (Len(pipe) <= 1 => Tail(pipe) = <<>>)
  BY <1>1, <1>2, <1>3, TailFacts, EmptyFacts
<1>4. ASSUME NEW f \in Frames
      PROVE  Len(Append(pipe, f)) = Len(pipe) + 1 /\ Append(pipe, f) # <<>>
  BY <1>1, <1>2, AppendFacts, EmptyFacts
<1> QED
  BY <1>2, <1>3, <1>4

\* The frames that are not records of an access.
LEMMA PlainFrames ==
  ASSUME Types, CountsLag
  PROVE  /\ Frame("hello", 0) \in Frames /\ Frame("ack", 0) \in Frames
         /\ Frame("summary", dropped) \in Frames
<1>1. 0 \in Numbers /\ dropped \in Numbers
  BY NumbersFacts DEF Types, NumberType, CountsLag
<1> QED
  BY <1>1, FrameFacts

\* Every step keeps the exchange of bailey and the helper in its phases.
LEMMA GreetingStep ==
  ASSUME Types, CountsLag, Greeting, Held, [Next]_vars
  PROVE  Greeting'
<1> USE DEF target, maps, seen, trace, Over
<1>1. CASE ReadHello
  BY <1>1, PipeMoves, PlainFrames DEF ReadHello, Fail, Stop, Released, Closed, Greeting, Early,
       Live, Last
<1>2. CASE Spawn
  BY <1>2, PipeMoves, PlainFrames DEF Spawn, Fail, Stop, Released, Greeting, Early, Live, Last
<1>3. CASE WaitForStop
  BY <1>3, PipeMoves, PlainFrames DEF WaitForStop, Fail, Stop, Released, Greeting, Early, Live,
       Last
<1>4. CASE SendScope
  BY <1>4, PipeMoves, PlainFrames DEF SendScope, Fail, Stop, Released, Greeting, Early, Live,
       Last
<1>5. CASE ReadAck
  BY <1>5, PipeMoves, PlainFrames DEF ReadAck, Fail, Stop, Released, Closed, Greeting, Early,
       Live, Last
<1>6. CASE Resume
  BY <1>6, PipeMoves, PlainFrames DEF Resume, Fail, Stop, Released, Greeting, Early, Live, Last
<1>7. CASE Wait
  BY <1>7, PipeMoves, PlainFrames DEF Wait, Greeting, Early, Live, Last
<1>8. CASE ReadFrame
  BY <1>8, PipeMoves, PlainFrames DEF ReadFrame, Greeting, Early, Live, Last
<1>9. CASE ReadEnd
  BY <1>9, PipeMoves, PlainFrames DEF ReadEnd, Closed, Greeting, Early, Live, Last
<1>10. CASE HelperLoad
  BY <1>10, PipeMoves, PlainFrames DEF HelperLoad, Write, Room, Greeting, Early, Live, Last
<1>11. CASE HelperScope
  BY <1>11, PipeMoves, PlainFrames DEF HelperScope, Greeting, Early, Live, Last
<1>12. CASE HelperAck
  BY <1>12, PipeMoves, PlainFrames DEF HelperAck, Write, Room, Greeting, Early, Live, Last
<1>13. CASE HelperFollow
  BY <1>13, PipeMoves, PlainFrames DEF HelperFollow, Greeting, Early, Live, Last
<1>14. CASE HelperDrain
  <2>1. ring # <<>> => pc \notin Early
    BY DEF Held
  <2>2. CASE ring = <<>>
    BY <1>14, <2>2 DEF HelperDrain, Greeting, Early, Live, Last
  <2>3. CASE ring # <<>>
    BY <1>14, <2>1, <2>3 DEF HelperDrain, Write, Room, Greeting, Early, Live, Last
  <2> QED
    BY <2>2, <2>3
<1>15. CASE HelperPoll
  BY <1>15, PipeMoves, PlainFrames DEF HelperPoll, Greeting, Early, Live, Last
<1>16. CASE HelperSummary
  BY <1>16, PipeMoves, PlainFrames DEF HelperSummary, Write, Room, Greeting, Early, Live, Last
<1>17. CASE Trap
  BY <1>17, PipeMoves, PlainFrames DEF Trap, Greeting, Early, Live, Last
<1>18. ASSUME NEW p \in Procs, Fork(p) PROVE Greeting'
  BY <1>18, PipeMoves, PlainFrames DEF Fork, Free, Greeting, Early, Live, Last
<1>19. ASSUME NEW p \in Procs, Exit(p) PROVE Greeting'
  BY <1>19, PipeMoves, PlainFrames DEF Exit, Free, Greeting, Early, Live, Last
<1>20. ASSUME NEW p \in Procs, Access(p) PROVE Greeting'
  BY <1>20, PipeMoves, PlainFrames DEF Access, Free, Owe, Attached, InScope, Greeting, Early,
       Live, Last
<1>21. ASSUME NEW p \in Procs, CountDrop(p) PROVE Greeting'
  BY <1>21, PipeMoves, PlainFrames DEF CountDrop, Owe, Greeting, Early, Live, Last
<1>22. CASE Killed
  BY <1>22, PipeMoves, PlainFrames DEF Killed, Stop, Released, Greeting, Early, Live, Last
<1>23. CASE HelperDies
  BY <1>23, PipeMoves, PlainFrames DEF HelperDies, Greeting, Early, Live, Last
<1>24. CASE UNCHANGED vars
  BY <1>24 DEF vars, Greeting, Early, Live, Last
<1> QED
  BY <1>1, <1>2, <1>3, <1>4, <1>5, <1>6, <1>7, <1>8, <1>9, <1>10, <1>11, <1>12, <1>13, <1>14,
       <1>15, <1>16, <1>17, <1>18, <1>19, <1>20, <1>21, <1>22, <1>23, <1>24 DEF Next,
       BaileyStep, HelperStep, TargetStep

\* Every step after which bailey or the helper relies on the scope finds it set.
LEMMA ToldStep ==
  ASSUME Types, Greeting, Told, Held, [Next]_vars
  PROVE  Told'
<1> USE DEF target, maps, seen, trace, Over
<1>1. CASE ReadHello
  BY <1>1 DEF ReadHello, Fail, Stop, Released, Closed, Told, Greeting, Watching, Early, Live,
       Last
<1>2. CASE Spawn
  BY <1>2 DEF Spawn, Fail, Stop, Released, Told, Greeting, Watching, Early, Live, Last
<1>3. CASE WaitForStop
  BY <1>3 DEF WaitForStop, Fail, Stop, Released, Told, Greeting, Watching, Early, Live, Last
<1>4. CASE SendScope
  BY <1>4 DEF SendScope, Fail, Stop, Released, Told, Greeting, Watching, Early, Live, Last
<1>5. CASE ReadAck
  <2>1. CASE pc' = "failed"
    BY <1>5, <2>1 DEF ReadAck, Fail, Stop, Told, Watching, Early, Live, Last
  <2>2. CASE pc' = "resume"
    BY <1>5, <2>2 DEF ReadAck, Fail, Stop, Told, Watching, Early, Live, Last
  <2> QED
    BY <1>5, <2>1, <2>2 DEF ReadAck, Fail, Stop
<1>6. CASE Resume
  BY <1>6 DEF Resume, Fail, Stop, Released, Told, Greeting, Watching, Early, Live, Last
<1>7. CASE Wait
  BY <1>7 DEF Wait, Told, Greeting, Watching, Early, Live, Last
<1>8. CASE ReadFrame
  BY <1>8 DEF ReadFrame, Told, Greeting, Watching, Early, Live, Last
<1>9. CASE ReadEnd
  BY <1>9 DEF ReadEnd, Closed, Told, Greeting, Watching, Early, Live, Last
<1>10. CASE HelperLoad
  BY <1>10 DEF HelperLoad, Write, Room, Told, Greeting, Watching, Early, Live, Last
<1>11. CASE HelperScope
  BY <1>11 DEF HelperScope, Told, Greeting, Watching, Early, Live, Last
<1>12. CASE HelperAck
  BY <1>12 DEF HelperAck, Write, Room, Told, Greeting, Watching, Early, Live, Last
<1>13. CASE HelperFollow
  <2>1. Root \in tracked => Root \in tracked'
    BY <1>13, RootAssumption DEF HelperFollow, Descendants
  <2> QED
    BY <1>13, <2>1 DEF HelperFollow, Told, Greeting, Watching, Early, Live, Last
<1>14. CASE HelperDrain
  <2>1. ring # <<>> => pc \notin Early
    BY DEF Held
  <2> QED
    BY <1>14, <2>1 DEF HelperDrain, Write, Told, Greeting, Watching, Early, Live, Last
<1>15. CASE HelperPoll
  BY <1>15 DEF HelperPoll, Told, Greeting, Watching, Early, Live, Last
<1>16. CASE HelperSummary
  BY <1>16 DEF HelperSummary, Write, Room, Told, Greeting, Watching, Early, Live, Last
<1>17. CASE Trap
  BY <1>17 DEF Trap, Told, Greeting, Watching, Early, Live, Last
<1>18. ASSUME NEW p \in Procs, Fork(p) PROVE Told'
  BY <1>18 DEF Fork, Free, Told, Greeting, Watching, Early, Live, Last
<1>19. ASSUME NEW p \in Procs, Exit(p) PROVE Told'
  BY <1>19 DEF Exit, Free, Told, Greeting, Watching, Early, Live, Last
<1>20. ASSUME NEW p \in Procs, Access(p) PROVE Told'
  BY <1>20 DEF Access, Free, Owe, Attached, InScope, Told, Greeting, Watching, Early, Live,
       Last
<1>21. ASSUME NEW p \in Procs, CountDrop(p) PROVE Told'
  BY <1>21 DEF CountDrop, Owe, Told, Greeting, Watching, Early, Live, Last
<1>22. CASE Killed
  BY <1>22 DEF Killed, Stop, Released, Told, Greeting, Watching, Early, Live, Last
<1>23. CASE HelperDies
  BY <1>23 DEF HelperDies, Told, Greeting, Watching, Early, Live, Last
<1>24. CASE UNCHANGED vars
  BY <1>24 DEF vars, Told, Greeting, Watching, Early, Live, Last
<1> QED
  BY <1>1, <1>2, <1>3, <1>4, <1>5, <1>6, <1>7, <1>8, <1>9, <1>10, <1>11, <1>12, <1>13, <1>14,
       <1>15, <1>16, <1>17, <1>18, <1>19, <1>20, <1>21, <1>22, <1>23, <1>24 DEF Next,
       BaileyStep, HelperStep, TargetStep

\* Every step before the target is let go leaves nothing recorded.
LEMMA HeldStep ==
  ASSUME Types, Greeting, Held, [Next]_vars
  PROVE  Held'
<1> USE DEF target, maps, seen, trace, Over
<1>1. CASE ReadHello
  BY <1>1, RootAssumption DEF ReadHello, Fail, Stop, Released, Closed, Held, Types, TargetType,
       Early
<1>2. CASE Spawn
  BY <1>2, RootAssumption DEF Spawn, Fail, Stop, Released, Held, Types, TargetType, Early
<1>3. CASE WaitForStop
  BY <1>3, RootAssumption DEF WaitForStop, Fail, Stop, Released, Held, Types, TargetType, Early
<1>4. CASE SendScope
  BY <1>4, RootAssumption DEF SendScope, Fail, Stop, Released, Held, Types, TargetType, Early
<1>5. CASE ReadAck
  BY <1>5, RootAssumption DEF ReadAck, Fail, Stop, Released, Closed, Held, Types, TargetType,
       Early
<1>6. CASE Resume
  BY <1>6, RootAssumption DEF Resume, Fail, Stop, Released, Held, Types, TargetType, Early
<1>7. CASE Wait
  BY <1>7, RootAssumption DEF Wait, Held, Types, TargetType, Early
<1>8. CASE ReadFrame
  BY <1>8, RootAssumption DEF ReadFrame, Held, Types, TargetType, Early
<1>9. CASE ReadEnd
  BY <1>9, RootAssumption DEF ReadEnd, Closed, Held, Types, TargetType, Early
<1>10. CASE HelperLoad
  BY <1>10, RootAssumption DEF HelperLoad, Write, Room, Held, Types, TargetType, Early
<1>11. CASE HelperScope
  BY <1>11, RootAssumption DEF HelperScope, Held, Types, TargetType, Early
<1>12. CASE HelperAck
  BY <1>12, RootAssumption DEF HelperAck, Write, Room, Held, Types, TargetType, Early
<1>13. CASE HelperFollow
  BY <1>13, RootAssumption DEF HelperFollow, Held, Types, TargetType, Early
<1>14. CASE HelperDrain
  BY <1>14, RootAssumption DEF HelperDrain, Write, Room, Held, Types, TargetType, Early
<1>15. CASE HelperPoll
  BY <1>15, RootAssumption DEF HelperPoll, Held, Types, TargetType, Early
<1>16. CASE HelperSummary
  BY <1>16, RootAssumption DEF HelperSummary, Write, Room, Held, Types, TargetType, Early
<1>17. CASE Trap
  BY <1>17, RootAssumption DEF Trap, Held, Types, TargetType, Early
<1>18. ASSUME NEW p \in Procs, Fork(p) PROVE Held'
  BY <1>18, RootAssumption DEF Fork, Free, Held, Types, TargetType, Early
<1>19. ASSUME NEW p \in Procs, Exit(p) PROVE Held'
  BY <1>19, RootAssumption DEF Exit, Free, Held, Types, TargetType, Early
<1>20. ASSUME NEW p \in Procs, Access(p) PROVE Held'
  BY <1>20, RootAssumption DEF Access, Free, Owe, Attached, InScope, Held, Types, TargetType,
       Early
<1>21. ASSUME NEW p \in Procs, CountDrop(p) PROVE Held'
  BY <1>21, RootAssumption DEF CountDrop, Owe, Held, Types, TargetType, Early
<1>22. CASE Killed
  BY <1>22, RootAssumption DEF Killed, Stop, Released, Held, Types, TargetType, Early
<1>23. CASE HelperDies
  BY <1>23, RootAssumption DEF HelperDies, Held, Types, TargetType, Early
<1>24. CASE UNCHANGED vars
  BY <1>24 DEF vars, Held, Types, TargetType, Early
<1> QED
  BY <1>1, <1>2, <1>3, <1>4, <1>5, <1>6, <1>7, <1>8, <1>9, <1>10, <1>11, <1>12, <1>13, <1>14,
       <1>15, <1>16, <1>17, <1>18, <1>19, <1>20, <1>21, <1>22, <1>23, <1>24 DEF Next,
       BaileyStep, HelperStep, TargetStep

-----------------------------------------------------------------------------
(* The order of the accesses.                                             *)

\* The numbers in the sequences are numbers.
LEMMA Entries ==
  ASSUME Types
  PROVE  /\ Len(pipe) \in Nat /\ Len(ring) \in Nat /\ Len(events) \in Nat
         /\ \A i \in 1..Len(pipe) : pipe[i].value \in Nat
         /\ \A i \in 1..Len(ring) : ring[i] \in Nat
         /\ \A i \in 1..Len(events) : events[i] \in Nat
         /\ accesses \in Nat
<1>1. /\ pipe \in Seq(Frames) /\ ring \in Seq(Numbers) /\ events \in Seq(Numbers)
      /\ accesses \in Numbers
  BY DEF Types, SeqType, NumberType
<1>2. /\ \A i \in 1..Len(pipe) : pipe[i] \in Frames
      /\ \A i \in 1..Len(ring) : ring[i] \in Numbers
      /\ \A i \in 1..Len(events) : events[i] \in Numbers
  BY <1>1, ElementOfSeq
<1> QED
  BY <1>1, <1>2, FrameFacts, NumbersFacts, LenProperties

\* Taking a frame that is not kept leaves the order of the rest.
LEMMA TakeKeepsOrder ==
  ASSUME Types, InOrder, pipe # <<>>, pipe' = Tail(pipe),
         UNCHANGED <<events, ring, accesses>>
  PROVE  InOrder'
<1>1. /\ Len(pipe) \in Nat /\ Len(pipe') = Len(pipe) - 1
      /\ \A i \in 1..Len(pipe') : pipe'[i] = pipe[i + 1]
  BY TailFacts DEF Types, SeqType
<1>2. \A i \in 1..Len(pipe') : i + 1 \in 1..Len(pipe) /\ (IsRecord(i)' => IsRecord(i + 1))
  BY <1>1 DEF IsRecord
<1> QED
  BY <1>1, <1>2, Entries
     DEF InOrder, Past, EventsOrdered, PipeOrdered, RingOrdered, EventsBeforePipe,
         EventsBeforeRing, PipeBeforeRing

\* A frame that is no record adds nothing to be in order.
LEMMA PlainKeepsOrder ==
  ASSUME Types, InOrder, NEW f \in Frames, f.tag # "record",
         pipe' = Append(pipe, f) \/ pipe' = pipe,
         UNCHANGED <<events, ring, accesses>>
  PROVE  InOrder'
<1>1. CASE pipe' = pipe
  BY <1>1
     DEF InOrder, Past, EventsOrdered, PipeOrdered, RingOrdered, EventsBeforePipe,
         EventsBeforeRing, PipeBeforeRing, IsRecord
<1>2. CASE pipe' = Append(pipe, f)
  <2>1. /\ Len(pipe) \in Nat /\ Len(pipe') = Len(pipe) + 1 /\ pipe'[Len(pipe) + 1] = f
        /\ \A i \in 1..Len(pipe) : pipe'[i] = pipe[i]
    BY <1>2, AppendFacts DEF Types, SeqType
  <2>2. \A i \in 1..Len(pipe') : IsRecord(i)' => i \in 1..Len(pipe) /\ IsRecord(i)
    BY <2>1 DEF IsRecord
  <2> QED
    BY <2>1, <2>2
       DEF InOrder, Past, EventsOrdered, PipeOrdered, RingOrdered, EventsBeforePipe,
           EventsBeforeRing, PipeBeforeRing
<1> QED
  BY <1>1, <1>2

\* The record that leaves the ring is later than those in the pipe, and those
\* that stay are later than it.
LEMMA DrainKeepsOrder ==
  ASSUME Types, InOrder, ring # <<>>, ring' = Tail(ring),
         pipe' = Append(pipe, Frame("record", Head(ring))) \/ pipe' = pipe,
         UNCHANGED <<events, accesses>>
  PROVE  InOrder'
<1>1. /\ Len(ring) \in Nat \ {0} /\ Len(ring') = Len(ring) - 1
      /\ Head(ring) = ring[1] /\ ring[1] \in Numbers
      /\ \A i \in 1..Len(ring') : ring'[i] = ring[i + 1]
  BY TailFacts DEF Types, SeqType
<1>2. CASE pipe' = pipe
  BY <1>1, <1>2, Entries
     DEF InOrder, Past, EventsOrdered, PipeOrdered, RingOrdered, EventsBeforePipe,
         EventsBeforeRing, PipeBeforeRing, IsRecord
<1>3. CASE pipe' = Append(pipe, Frame("record", Head(ring)))
  <2>1. /\ Frame("record", ring[1]) \in Frames
        /\ Frame("record", ring[1]).value = ring[1]
    BY <1>1, FrameFacts
  <2>2. /\ Len(pipe) \in Nat /\ Len(pipe') = Len(pipe) + 1
        /\ pipe'[Len(pipe) + 1] = Frame("record", ring[1])
        /\ \A i \in 1..Len(pipe) : pipe'[i] = pipe[i]
    BY <1>1, <1>3, <2>1, AppendFacts DEF Types, SeqType
  <2>3. \A i \in 1..Len(pipe') :
          \/ i = Len(pipe) + 1 /\ pipe'[i].value = ring[1]
          \/ i \in 1..Len(pipe) /\ pipe'[i] = pipe[i] /\ (IsRecord(i)' <=> IsRecord(i))
    BY <2>1, <2>2 DEF IsRecord
  <2>4. /\ ring[1] \in Nat /\ 1 \in 1..Len(ring)
        /\ \A i \in 1..Len(pipe) : pipe[i].value \in Nat
        /\ \A i \in 1..Len(events) : events[i] \in Nat
    BY <1>1, Entries
  <2>11. Past'
    BY <1>1, <2>2, <2>3, Entries DEF InOrder, Past
  <2>12. EventsOrdered'
    BY <1>1, <2>2, <2>3, Entries DEF InOrder, EventsOrdered
  <2>13. PipeOrdered'
    <3>1. \A i \in 1..Len(pipe) : IsRecord(i) => pipe[i].value < ring[1]
      BY <2>4 DEF InOrder, PipeBeforeRing
    <3> QED
      BY <2>2, <2>3, <3>1 DEF InOrder, PipeOrdered
  <2>14. RingOrdered'
    BY <1>1, <2>2, <2>3, Entries DEF InOrder, RingOrdered
  <2>15. EventsBeforePipe'
    <3>1. \A i \in 1..Len(events) : events[i] < ring[1]
      BY <2>4 DEF InOrder, EventsBeforeRing
    <3>2. events' = events
      OBVIOUS
    <3> QED
      BY <2>2, <2>3, <3>1, <3>2 DEF InOrder, EventsBeforePipe
  <2>16. EventsBeforeRing'
    BY <1>1, <2>2, <2>3, Entries DEF InOrder, EventsBeforeRing
  <2>17. PipeBeforeRing'
    BY <1>1, <2>2, <2>3, Entries DEF InOrder, PipeBeforeRing, RingOrdered
  <2> QED
    BY <2>11, <2>12, <2>13, <2>14, <2>15, <2>16, <2>17 DEF InOrder
<1> QED
  BY <1>2, <1>3

\* The record that joins the trace is later than those in it, and those that
\* stay in the pipe are later than it.
LEMMA KeepKeepsOrder ==
  ASSUME Types, InOrder, pipe # <<>>, pipe' = Tail(pipe), Head(pipe).tag = "record",
         events' = Append(events, Head(pipe).value),
         UNCHANGED <<ring, accesses>>
  PROVE  InOrder'
<1>1. /\ Len(pipe) \in Nat \ {0} /\ Len(pipe') = Len(pipe) - 1
      /\ Head(pipe) = pipe[1] /\ pipe[1] \in Frames
      /\ \A i \in 1..Len(pipe') : pipe'[i] = pipe[i + 1]
  BY TailFacts DEF Types, SeqType
<1>2. pipe[1].value \in Numbers /\ IsRecord(1)
  BY <1>1, FrameFacts DEF IsRecord
<1>3. /\ Len(events) \in Nat /\ Len(events') = Len(events) + 1
      /\ events'[Len(events) + 1] = pipe[1].value
      /\ \A i \in 1..Len(events) : events'[i] = events[i]
  BY <1>1, <1>2, AppendFacts DEF Types, SeqType
<1>4. \A i \in 1..Len(pipe') : /\ i + 1 \in 1..Len(pipe) /\ pipe'[i] = pipe[i + 1]
                               /\ IsRecord(i)' => IsRecord(i + 1)
  BY <1>1 DEF IsRecord
<1>5. \A i \in 1..Len(events') :
        \/ i = Len(events) + 1 /\ events'[i] = pipe[1].value
        \/ i \in 1..Len(events) /\ events'[i] = events[i]
  BY <1>3
<1>11. Past'
  BY <1>1, <1>2, <1>3, <1>4, <1>5, Entries DEF InOrder, Past
<1>12. EventsOrdered'
  BY <1>1, <1>2, <1>3, <1>4, <1>5, Entries DEF InOrder, EventsOrdered, EventsBeforePipe
<1>13. PipeOrdered'
  BY <1>1, <1>2, <1>3, <1>4, <1>5, Entries DEF InOrder, PipeOrdered
<1>14. RingOrdered'
  BY <1>1, <1>2, <1>3, <1>4, <1>5, Entries DEF InOrder, RingOrdered
<1>15. EventsBeforePipe'
  BY <1>1, <1>2, <1>3, <1>4, <1>5, Entries DEF InOrder, EventsBeforePipe, PipeOrdered
<1>16. EventsBeforeRing'
  BY <1>1, <1>2, <1>3, <1>4, <1>5, Entries DEF InOrder, EventsBeforeRing, PipeBeforeRing
<1>17. PipeBeforeRing'
  BY <1>1, <1>2, <1>3, <1>4, <1>5, Entries DEF InOrder, PipeBeforeRing
<1> QED
  BY <1>11, <1>12, <1>13, <1>14, <1>15, <1>16, <1>17 DEF InOrder

\* A new access is later than all that were made.
LEMMA AccessKeepsOrder ==
  ASSUME Types, InOrder, accesses' = accesses + 1, accesses + 1 \in Numbers,
         ring' = Append(ring, accesses + 1) \/ ring' = ring,
         UNCHANGED <<events, pipe>>
  PROVE  InOrder'
<1>1. CASE ring' = ring
  <2>11. Past'
    BY <1>1, Entries DEF InOrder, IsRecord, Past
  <2>12. EventsOrdered'
    BY <1>1, Entries DEF InOrder, IsRecord, EventsOrdered
  <2>13. PipeOrdered'
    BY <1>1, Entries DEF InOrder, IsRecord, PipeOrdered
  <2>14. RingOrdered'
    BY <1>1, Entries DEF InOrder, IsRecord, RingOrdered, Past
  <2>15. EventsBeforePipe'
    BY <1>1, Entries DEF InOrder, IsRecord, EventsBeforePipe
  <2>16. EventsBeforeRing'
    BY <1>1, Entries DEF InOrder, IsRecord, EventsBeforeRing, Past
  <2>17. PipeBeforeRing'
    BY <1>1, Entries DEF InOrder, IsRecord, PipeBeforeRing, Past
  <2> QED
    BY <2>11, <2>12, <2>13, <2>14, <2>15, <2>16, <2>17 DEF InOrder

<1>2. CASE ring' = Append(ring, accesses + 1)
  <2>1. /\ Len(ring) \in Nat /\ Len(ring') = Len(ring) + 1
        /\ ring'[Len(ring) + 1] = accesses + 1
        /\ \A i \in 1..Len(ring) : ring'[i] = ring[i]
    BY <1>2, AppendFacts DEF Types, SeqType
  <2>2. \A i \in 1..Len(ring') :
          \/ i = Len(ring) + 1 /\ ring'[i] = accesses + 1
          \/ i \in 1..Len(ring) /\ ring'[i] = ring[i]
    BY <2>1
  <2>3. events' = events /\ pipe' = pipe /\ \A i : IsRecord(i)' = IsRecord(i)
    BY DEF IsRecord
  <2>4. /\ accesses \in Nat /\ accesses' = accesses + 1
        /\ \A i \in 1..Len(ring) : ring[i] \in Nat /\ ring[i] <= accesses
        /\ \A i \in 1..Len(events) : events[i] \in Nat /\ events[i] <= accesses
        /\ \A i \in 1..Len(pipe) : /\ pipe[i].value \in Nat
                                   /\ IsRecord(i) => pipe[i].value <= accesses
    BY Entries DEF InOrder, Past
  <2>11. Past'
    <3>1. \A i \in 1..Len(ring') : ring'[i] <= accesses'
      BY <2>1, <2>2, <2>4
    <3>2. \A i \in 1..Len(events') : events'[i] <= accesses'
      BY <2>3, <2>4
    <3>3. \A i \in 1..Len(pipe') : IsRecord(i)' => pipe'[i].value <= accesses'
      BY <2>3, <2>4
    <3> QED
      BY <3>1, <3>2, <3>3 DEF Past
  <2>12. EventsOrdered'
    BY <2>1, <2>2, <2>3, Entries DEF InOrder, EventsOrdered
  <2>13. PipeOrdered'
    BY <2>1, <2>2, <2>3, Entries DEF InOrder, PipeOrdered
  <2>14. RingOrdered'
    BY <2>1, <2>2, <2>4 DEF InOrder, RingOrdered
  <2>15. EventsBeforePipe'
    BY <2>1, <2>2, <2>3, Entries DEF InOrder, EventsBeforePipe
  <2>16. EventsBeforeRing'
    BY <2>1, <2>2, <2>3, <2>4 DEF InOrder, EventsBeforeRing
  <2>17. PipeBeforeRing'
    BY <2>1, <2>2, <2>3, <2>4 DEF InOrder, PipeBeforeRing
  <2> QED
    BY <2>11, <2>12, <2>13, <2>14, <2>15, <2>16, <2>17 DEF InOrder
<1> QED
  BY <1>1, <1>2

\* Every step keeps the accesses in order.
LEMMA OrderStep ==
  ASSUME Types, CountsLag, InOrder, [Next]_vars
  PROVE  InOrder'
<1> USE DEF target, maps, seen, trace, Over
<1>1. CASE ReadHello
  <2>1. CASE pipe' = pipe
    BY <1>1, <2>1
       DEF ReadHello, Fail, Stop, InOrder, IsRecord, Past, EventsOrdered, PipeOrdered,
           RingOrdered, EventsBeforePipe, EventsBeforeRing, PipeBeforeRing
  <2>2. CASE pipe # <<>> /\ pipe' = Tail(pipe)
    BY <1>1, <2>2, TakeKeepsOrder DEF ReadHello
  <2> QED
    BY <1>1, <2>1, <2>2 DEF ReadHello
<1>2. CASE Spawn
  BY <1>2 DEF Spawn, Fail, Stop, Released, InOrder, IsRecord, Past, EventsOrdered, PipeOrdered,
       RingOrdered, EventsBeforePipe, EventsBeforeRing, PipeBeforeRing
<1>3. CASE WaitForStop
  BY <1>3 DEF WaitForStop, Fail, Stop, Released, InOrder, IsRecord, Past, EventsOrdered,
       PipeOrdered, RingOrdered, EventsBeforePipe, EventsBeforeRing, PipeBeforeRing
<1>4. CASE SendScope
  BY <1>4 DEF SendScope, Fail, Stop, Released, InOrder, IsRecord, Past, EventsOrdered,
       PipeOrdered, RingOrdered, EventsBeforePipe, EventsBeforeRing, PipeBeforeRing
<1>5. CASE ReadAck
  <2>1. CASE pipe' = pipe
    BY <1>5, <2>1
       DEF ReadAck, Fail, Stop, InOrder, IsRecord, Past, EventsOrdered, PipeOrdered,
           RingOrdered, EventsBeforePipe, EventsBeforeRing, PipeBeforeRing
  <2>2. CASE pipe # <<>> /\ pipe' = Tail(pipe)
    BY <1>5, <2>2, TakeKeepsOrder DEF ReadAck
  <2> QED
    BY <1>5, <2>1, <2>2 DEF ReadAck
<1>6. CASE Resume
  BY <1>6 DEF Resume, Fail, Stop, Released, InOrder, IsRecord, Past, EventsOrdered,
       PipeOrdered, RingOrdered, EventsBeforePipe, EventsBeforeRing, PipeBeforeRing
<1>7. CASE Wait
  BY <1>7 DEF Wait, InOrder, IsRecord, Past, EventsOrdered, PipeOrdered, RingOrdered,
       EventsBeforePipe, EventsBeforeRing, PipeBeforeRing
<1>8. CASE ReadFrame
  <2>1. CASE events' = events
    BY <1>8, <2>1, TakeKeepsOrder DEF ReadFrame
  <2>2. CASE Head(pipe).tag = "record" /\ events' = Append(events, Head(pipe).value)
    BY <1>8, <2>2, KeepKeepsOrder DEF ReadFrame
  <2> QED
    BY <1>8, <2>1, <2>2 DEF ReadFrame
<1>9. CASE ReadEnd
  BY <1>9 DEF ReadEnd, Closed, InOrder, IsRecord, Past, EventsOrdered, PipeOrdered,
       RingOrdered, EventsBeforePipe, EventsBeforeRing, PipeBeforeRing
<1>10. CASE HelperLoad
  <2>1. Frame("hello", 0) \in Frames /\ Frame("hello", 0).tag # "record"
    BY PlainFrames DEF Frame
  <2>2. pipe' = Append(pipe, Frame("hello", 0)) \/ pipe' = pipe
    BY <1>10 DEF HelperLoad, Write
  <2> QED
    BY <1>10, <2>1, <2>2, PlainKeepsOrder DEF HelperLoad
<1>11. CASE HelperScope
  BY <1>11 DEF HelperScope, InOrder, IsRecord, Past, EventsOrdered, PipeOrdered, RingOrdered,
       EventsBeforePipe, EventsBeforeRing, PipeBeforeRing
<1>12. CASE HelperAck
  <2>1. Frame("ack", 0) \in Frames /\ Frame("ack", 0).tag # "record"
    BY PlainFrames DEF Frame
  <2>2. pipe' = Append(pipe, Frame("ack", 0)) \/ pipe' = pipe
    BY <1>12 DEF HelperAck, Write
  <2> QED
    BY <1>12, <2>1, <2>2, PlainKeepsOrder DEF HelperAck
<1>13. CASE HelperFollow
  BY <1>13 DEF HelperFollow, InOrder, IsRecord, Past, EventsOrdered, PipeOrdered, RingOrdered,
       EventsBeforePipe, EventsBeforeRing, PipeBeforeRing
<1>14. CASE HelperDrain
  <2>1. CASE ring = <<>>
    BY <1>14, <2>1
       DEF HelperDrain, InOrder, IsRecord, Past, EventsOrdered, PipeOrdered, RingOrdered,
           EventsBeforePipe, EventsBeforeRing, PipeBeforeRing
  <2>2. CASE ring # <<>>
    BY <1>14, <2>2, DrainKeepsOrder DEF HelperDrain, Write
  <2> QED
    BY <2>1, <2>2
<1>15. CASE HelperPoll
  BY <1>15 DEF HelperPoll, InOrder, IsRecord, Past, EventsOrdered, PipeOrdered, RingOrdered,
       EventsBeforePipe, EventsBeforeRing, PipeBeforeRing
<1>16. CASE HelperSummary
  <2>1. Frame("summary", dropped) \in Frames /\ Frame("summary", dropped).tag # "record"
    BY PlainFrames DEF Frame
  <2>2. pipe' = Append(pipe, Frame("summary", dropped)) \/ pipe' = pipe
    BY <1>16 DEF HelperSummary, Write
  <2> QED
    BY <1>16, <2>1, <2>2, PlainKeepsOrder DEF HelperSummary
<1>17. CASE Trap
  BY <1>17 DEF Trap, InOrder, IsRecord, Past, EventsOrdered, PipeOrdered, RingOrdered,
       EventsBeforePipe, EventsBeforeRing, PipeBeforeRing
<1>18. ASSUME NEW p \in Procs, Fork(p) PROVE InOrder'
  BY <1>18 DEF Fork, Free, InOrder, IsRecord, Past, EventsOrdered, PipeOrdered, RingOrdered,
       EventsBeforePipe, EventsBeforeRing, PipeBeforeRing
<1>19. ASSUME NEW p \in Procs, Exit(p) PROVE InOrder'
  BY <1>19 DEF Exit, Free, InOrder, IsRecord, Past, EventsOrdered, PipeOrdered, RingOrdered,
       EventsBeforePipe, EventsBeforeRing, PipeBeforeRing
<1>20. ASSUME NEW p \in Procs, Access(p) PROVE InOrder'
  <2>1. accesses + 1 \in Numbers
    BY <1>20, NumbersFacts DEF Access, Types, NumberType
  <2> QED
    BY <1>20, <2>1, AccessKeepsOrder DEF Access
<1>21. ASSUME NEW p \in Procs, CountDrop(p) PROVE InOrder'
  BY <1>21 DEF CountDrop, Owe, InOrder, IsRecord, Past, EventsOrdered, PipeOrdered,
       RingOrdered, EventsBeforePipe, EventsBeforeRing, PipeBeforeRing
<1>22. CASE Killed
  BY <1>22 DEF Killed, Stop, Released, InOrder, IsRecord, Past, EventsOrdered, PipeOrdered,
       RingOrdered, EventsBeforePipe, EventsBeforeRing, PipeBeforeRing
<1>23. CASE HelperDies
  BY <1>23 DEF HelperDies, InOrder, IsRecord, Past, EventsOrdered, PipeOrdered, RingOrdered,
       EventsBeforePipe, EventsBeforeRing, PipeBeforeRing
<1>24. CASE UNCHANGED vars
  BY <1>24 DEF vars, InOrder, IsRecord, Past, EventsOrdered, PipeOrdered, RingOrdered,
       EventsBeforePipe, EventsBeforeRing, PipeBeforeRing
<1> QED
  BY <1>1, <1>2, <1>3, <1>4, <1>5, <1>6, <1>7, <1>8, <1>9, <1>10, <1>11, <1>12, <1>13, <1>14,
       <1>15, <1>16, <1>17, <1>18, <1>19, <1>20, <1>21, <1>22, <1>23, <1>24 DEF Next,
       BaileyStep, HelperStep, TargetStep

\* Every step in a run with a cgroup leaves nothing missed.
LEMMA MissedStep ==
  ASSUME Types, Greeting, Told, Held, CgroupMissesNothing, [Next]_vars
  PROVE  CgroupMissesNothing'
<1> USE DEF target, maps, seen, trace, Over
<1>1. CASE ReadHello
  BY <1>1 DEF ReadHello, Fail, Stop, Released, Closed, CgroupMissesNothing
<1>2. CASE Spawn
  BY <1>2 DEF Spawn, Fail, Stop, Released, CgroupMissesNothing
<1>3. CASE WaitForStop
  BY <1>3 DEF WaitForStop, Fail, Stop, Released, CgroupMissesNothing
<1>4. CASE SendScope
  BY <1>4 DEF SendScope, Fail, Stop, Released, CgroupMissesNothing
<1>5. CASE ReadAck
  BY <1>5 DEF ReadAck, Fail, Stop, Released, Closed, CgroupMissesNothing
<1>6. CASE Resume
  BY <1>6 DEF Resume, Fail, Stop, Released, CgroupMissesNothing
<1>7. CASE Wait
  BY <1>7 DEF Wait, CgroupMissesNothing
<1>8. CASE ReadFrame
  BY <1>8 DEF ReadFrame, CgroupMissesNothing
<1>9. CASE ReadEnd
  BY <1>9 DEF ReadEnd, Closed, CgroupMissesNothing
<1>10. CASE HelperLoad
  BY <1>10 DEF HelperLoad, Write, Room, CgroupMissesNothing
<1>11. CASE HelperScope
  BY <1>11 DEF HelperScope, CgroupMissesNothing
<1>12. CASE HelperAck
  BY <1>12 DEF HelperAck, Write, Room, CgroupMissesNothing
<1>13. CASE HelperFollow
  BY <1>13 DEF HelperFollow, CgroupMissesNothing
<1>14. CASE HelperDrain
  BY <1>14 DEF HelperDrain, Write, Room, CgroupMissesNothing
<1>15. CASE HelperPoll
  BY <1>15 DEF HelperPoll, CgroupMissesNothing
<1>16. CASE HelperSummary
  BY <1>16 DEF HelperSummary, Write, Room, CgroupMissesNothing
<1>17. CASE Trap
  BY <1>17 DEF Trap, CgroupMissesNothing
<1>18. ASSUME NEW p \in Procs, Fork(p) PROVE CgroupMissesNothing'
  BY <1>18 DEF Fork, Free, CgroupMissesNothing
<1>19. ASSUME NEW p \in Procs, Exit(p) PROVE CgroupMissesNothing'
  BY <1>19 DEF Exit, Free, CgroupMissesNothing
<1>20. ASSUME NEW p \in Procs, Access(p) PROVE CgroupMissesNothing'
  <2>1. cgroup /\ pc \notin Over => scope
    BY <1>20 DEF Access, Free, Held, Told, Watching, Types, CtlType, Early, Live
  <2> QED
    BY <1>20, <2>1 DEF Access, InScope, CgroupMissesNothing
<1>21. ASSUME NEW p \in Procs, CountDrop(p) PROVE CgroupMissesNothing'
  BY <1>21 DEF CountDrop, Owe, CgroupMissesNothing
<1>22. CASE Killed
  BY <1>22 DEF Killed, Stop, Released, CgroupMissesNothing
<1>23. CASE HelperDies
  BY <1>23 DEF HelperDies, CgroupMissesNothing
<1>24. CASE UNCHANGED vars
  BY <1>24 DEF vars, CgroupMissesNothing
<1> QED
  BY <1>1, <1>2, <1>3, <1>4, <1>5, <1>6, <1>7, <1>8, <1>9, <1>10, <1>11, <1>12, <1>13, <1>14,
       <1>15, <1>16, <1>17, <1>18, <1>19, <1>20, <1>21, <1>22, <1>23, <1>24 DEF Next,
       BaileyStep, HelperStep, TargetStep

-----------------------------------------------------------------------------
(* The summary of the recording.                                           *)

\* What is in the pipe when its first frame is taken.
LEMMA TakeIndex ==
  ASSUME Types, pipe # <<>>, pipe' = Tail(pipe)
  PROVE  /\ Len(pipe) \in Nat \ {0} /\ Len(pipe') = Len(pipe) - 1
         /\ Head(pipe) = pipe[1] /\ pipe[1] \in Frames /\ 1 \in 1..Len(pipe)
         /\ \A i \in 1..Len(pipe') : /\ i + 1 \in 1..Len(pipe) /\ pipe'[i] = pipe[i + 1]
                                     /\ IsRecord(i)' <=> IsRecord(i + 1)
                                     /\ IsSummary(i)' <=> IsSummary(i + 1)
         /\ \A i \in 2..Len(pipe) : /\ i - 1 \in 1..Len(pipe') /\ pipe'[i - 1] = pipe[i]
                                    /\ IsRecord(i - 1)' <=> IsRecord(i)
<1>1. /\ Len(pipe) \in Nat \ {0} /\ Len(pipe') = Len(pipe) - 1
      /\ Head(pipe) = pipe[1] /\ pipe[1] \in Frames
      /\ \A i \in 1..Len(pipe') : pipe'[i] = pipe[i + 1]
  BY TailFacts DEF Types, SeqType
<1>2. \A i \in 1..Len(pipe') : i + 1 \in 1..Len(pipe)
  BY <1>1
<1>3. \A i \in 2..Len(pipe) : i - 1 \in 1..Len(pipe') /\ (i - 1) + 1 = i
  BY <1>1
<1>4. \A i \in 2..Len(pipe) : pipe'[i - 1] = pipe[i]
  BY <1>1, <1>3
<1>5. \A i \in 2..Len(pipe) : i \in 1..Len(pipe)
  BY <1>1
<1> QED
  BY <1>1, <1>2, <1>3, <1>4, <1>5 DEF IsRecord, IsSummary

\* What is in the pipe when a frame is written.
LEMMA WriteIndex ==
  ASSUME Types, NEW f \in Frames, pipe' = Append(pipe, f)
  PROVE  /\ Len(pipe) \in Nat /\ Len(pipe') = Len(pipe) + 1 /\ pipe'[Len(pipe')] = f
         /\ \A i \in 1..Len(pipe') : i \in 1..Len(pipe) \/ i = Len(pipe')
         /\ \A i \in 1..Len(pipe) : /\ i \in 1..Len(pipe') /\ pipe'[i] = pipe[i]
                                    /\ IsRecord(i)' <=> IsRecord(i)
                                    /\ IsSummary(i)' <=> IsSummary(i)
         /\ IsRecord(Len(pipe))' <=> f.tag = "record"
         /\ IsSummary(Len(pipe))' <=> f.tag = "summary"
<1>1. /\ Len(pipe) \in Nat /\ Len(pipe') = Len(pipe) + 1 /\ pipe'[Len(pipe')] = f
      /\ \A i \in 1..Len(pipe) : pipe'[i] = pipe[i]
  BY AppendFacts DEF Types, SeqType
<1>2. /\ \A i \in 1..Len(pipe') : i \in 1..Len(pipe) \/ i = Len(pipe')
      /\ \A i \in 1..Len(pipe) : i \in 1..Len(pipe')
      /\ Len(pipe') \in 1..Len(pipe')
  BY <1>1
<1> QED
  BY <1>1, <1>2 DEF IsRecord, IsSummary

\* The summary is written, or is being, only when the target is gone.
LEMMA SummaryAfterTarget ==
  ASSUME Greeting, Held, SummaryIsLast, pc \in Live, helper \in Last \/ Said
  PROVE  proc[Root] = "gone"
BY DEF Greeting, Held, SummaryIsLast, Said, Live, Last


\* Every step leaves the summary the last of the frames.
LEMMA SummaryStep ==
  ASSUME Types, CountsLag, Greeting, Held, SummaryIsLast, [Next]_vars
  PROVE  SummaryIsLast'
<1> USE DEF target, maps, seen, trace, Over
<1>1. CASE ReadHello
  BY <1>1 DEF ReadHello, Fail, Stop, SummaryIsLast, Live
<1>2. CASE Spawn
  BY <1>2 DEF Spawn, Fail, Stop, SummaryIsLast, Live
<1>3. CASE WaitForStop
  BY <1>3 DEF WaitForStop, Fail, Stop, SummaryIsLast, Live
<1>4. CASE SendScope
  BY <1>4 DEF SendScope, Fail, Stop, SummaryIsLast, Live
<1>5. CASE ReadAck
  BY <1>5 DEF ReadAck, Fail, Stop, SummaryIsLast, Live
<1>6. CASE Resume
  <2>1. pipe = <<>> /\ ~summary /\ pipe' = pipe /\ summary' = summary
    BY <1>6 DEF Resume, Fail, Stop, Greeting, Held, Early
  <2>2. 1..Len(pipe') = {}
    BY <2>1, PipeMoves
  <2> QED
    BY <2>1, <2>2 DEF SummaryIsLast
<1>7. CASE Wait
  BY <1>7 DEF Wait, SummaryIsLast, IsRecord, IsSummary, Live
<1>8. CASE ReadFrame
  <2>1. pipe # <<>> /\ pipe' = Tail(pipe) /\ UNCHANGED <<pc, helper>> /\ pc = "read"
    BY <1>8 DEF ReadFrame
  <2>2. ~summary
    BY <2>1 DEF SummaryIsLast, Live
  <2>3. CASE summary' = summary
    <3>1. \A i \in 1..Len(pipe) : IsRecord(i) \/ IsSummary(i)
      BY <2>1 DEF SummaryIsLast, Live
    <3>2. \A i \in 1..Len(pipe) : IsSummary(i) => i = Len(pipe) /\ helper = "gone"
      BY <2>1 DEF SummaryIsLast, Live
    <3>3. \A i \in 1..Len(pipe') : /\ IsRecord(i)' \/ IsSummary(i)'
                                   /\ IsSummary(i)' => i + 1 = Len(pipe) /\ helper = "gone"
      BY <2>1, <3>1, <3>2, TakeIndex
    <3>4. \A i \in 1..Len(pipe') : i \in Nat /\ Len(pipe') = Len(pipe) - 1 /\ Len(pipe) \in Nat
      BY <2>1, TakeIndex
    <3>5. \A i \in 1..Len(pipe') : IsSummary(i)' => i = Len(pipe') /\ helper = "gone"
      BY <3>3, <3>4
    <3> QED
      BY <2>1, <2>2, <2>3, <3>3, <3>5 DEF SummaryIsLast
  <2>4. CASE Head(pipe).tag = "summary"
    <3>1. IsSummary(1)
      BY <2>1, <2>4, TakeIndex DEF IsSummary
    <3>2. Len(pipe) = 1 /\ helper = "gone"
      BY <2>1, <3>1, TakeIndex DEF SummaryIsLast, Live
    <3>3. pipe' = <<>>
      BY <2>1, <3>2, PipeMoves
    <3>4. 1..Len(pipe') = {}
      BY <3>3, PipeMoves
    <3> QED
      BY <2>1, <3>2, <3>3, <3>4 DEF SummaryIsLast
  <2> QED
    BY <1>8, <2>3, <2>4 DEF ReadFrame
<1>9. CASE ReadEnd
  <2>1. 1..Len(pipe') = {}
    BY <1>9, PipeMoves DEF ReadEnd, Closed
  <2> QED
    BY <1>9, <2>1 DEF ReadEnd, Closed, SummaryIsLast, Live
<1>10. CASE HelperLoad
  BY <1>10 DEF HelperLoad, Greeting, SummaryIsLast, Live
<1>11. CASE HelperScope
  BY <1>11 DEF HelperScope, Greeting, SummaryIsLast, Live
<1>12. CASE HelperAck
  BY <1>12 DEF HelperAck, Greeting, SummaryIsLast, Live
<1>13. CASE HelperFollow
  BY <1>13 DEF HelperFollow, SummaryIsLast, IsRecord, IsSummary, Live
<1>14. CASE HelperDrain
  <2>1. CASE ring = <<>>
    BY <1>14, <2>1 DEF HelperDrain, SummaryIsLast, IsRecord, IsSummary
  <2>2. CASE ring # <<>>
    <3>1. pc \in Live => pipe' = Append(pipe, Frame("record", Head(ring)))
      BY <1>14, <2>2 DEF HelperDrain, Write, Greeting, Live
    <3>2. /\ Frame("record", Head(ring)) \in Frames
          /\ Frame("record", Head(ring)).tag = "record"
      BY <2>2, TailFacts, FrameFacts DEF Types, SeqType
    <3> QED
      BY <1>14, <2>2, <3>1, <3>2, WriteIndex DEF HelperDrain, SummaryIsLast
  <2> QED
    BY <2>1, <2>2
<1>15. CASE HelperPoll
  BY <1>15 DEF HelperPoll, SummaryIsLast, IsRecord, IsSummary, Live
<1>16. CASE HelperSummary
  <2>1. CASE pipe' = pipe
    BY <1>16, <2>1
       DEF HelperSummary, Write, Greeting, SummaryIsLast, IsRecord, IsSummary, Live, Last
  <2>2. CASE pc \notin Over /\ pipe' = Append(pipe, Frame("summary", dropped))
    <3>1. Frame("summary", dropped) \in Frames /\ Frame("summary", dropped).tag = "summary"
      BY <1>16, <2>2, PlainFrames, TailFacts, FrameFacts
         DEF HelperSummary, Frame, Types, SeqType
    <3> QED
      BY <1>16, <2>2, <3>1, WriteIndex
         DEF HelperSummary, Write, Greeting, SummaryIsLast, Early, Live, Last,
        Types, CtlType
  <2> QED
    BY <1>16, <2>1, <2>2 DEF HelperSummary, Write
<1>17. CASE Trap
  BY <1>17 DEF Trap, SummaryIsLast, IsRecord, IsSummary, Live
<1>18. ASSUME NEW p \in Procs, Fork(p) PROVE SummaryIsLast'
  BY <1>18 DEF Fork, Free, SummaryIsLast, IsRecord, IsSummary, Live
<1>19. ASSUME NEW p \in Procs, Exit(p) PROVE SummaryIsLast'
  BY <1>19 DEF Exit, Free, SummaryIsLast, IsRecord, IsSummary, Live
<1>20. ASSUME NEW p \in Procs, Access(p) PROVE SummaryIsLast'
  BY <1>20 DEF Access, Free, Owe, Attached, InScope, SummaryIsLast, IsRecord, IsSummary, Live
<1>21. ASSUME NEW p \in Procs, CountDrop(p) PROVE SummaryIsLast'
  BY <1>21 DEF CountDrop, Owe, SummaryIsLast, IsRecord, IsSummary, Live
<1>22. CASE Killed
  BY <1>22 DEF Killed, Fail, Stop, SummaryIsLast, Live
<1>23. CASE HelperDies
  BY <1>23 DEF HelperDies, SummaryIsLast, IsRecord, IsSummary, Live
<1>24. CASE UNCHANGED vars
  BY <1>24 DEF vars, SummaryIsLast, IsRecord, IsSummary, Live
<1> QED
  BY <1>1, <1>2, <1>3, <1>4, <1>5, <1>6, <1>7, <1>8, <1>9, <1>10, <1>11, <1>12, <1>13, <1>14,
       <1>15, <1>16, <1>17, <1>18, <1>19, <1>20, <1>21, <1>22, <1>23, <1>24 DEF Next,
       BaileyStep, HelperStep, TargetStep

-----------------------------------------------------------------------------
(* What a trace owes and what it counts.                                      *)

\* A step that moves no record and no count forgets nothing.
LEMMA StillRemembered ==
  ASSUME NothingForgotten, pc \in Live, helper' = "summary" => helper = "summary",
         UNCHANGED <<pipe, ring, events, due, accesses, dropped, lost, summary>>
  PROVE  NothingForgotten'
<1>1. /\ Said' <=> Said
      /\ \A i : IsSummary(i)' <=> IsSummary(i)
      /\ \A n : /\ Traced(n)' <=> Traced(n)
                /\ Piped(n)' <=> Piped(n)
                /\ Ringed(n)' <=> Ringed(n)
  BY DEF Said, Traced, Piped, Ringed, IsRecord, IsSummary
<1> QED
  BY <1>1 DEF NothingForgotten

\* Every step leaves an access that is owed on its way, or a loss on record.
LEMMA ForgottenStep ==
  ASSUME Types, CountsLag, Greeting, Held, SummaryIsLast, NothingForgotten, [Next]_vars
  PROVE  NothingForgotten'
<1> USE DEF target, maps, seen, trace, Over
<1>1. CASE ReadHello
  BY <1>1 DEF ReadHello, Fail, Stop, NothingForgotten, Live
<1>2. CASE Spawn
  BY <1>2 DEF Spawn, Fail, Stop, NothingForgotten, Live
<1>3. CASE WaitForStop
  BY <1>3 DEF WaitForStop, Fail, Stop, NothingForgotten, Live
<1>4. CASE SendScope
  BY <1>4 DEF SendScope, Fail, Stop, NothingForgotten, Live
<1>5. CASE ReadAck
  BY <1>5 DEF ReadAck, Fail, Stop, NothingForgotten, Live
<1>6. CASE Resume
  <2>1. due' = {} \/ pc' \notin Live
    BY <1>6 DEF Resume, Fail, Stop, Held, Early, Live
  <2> QED
    BY <2>1 DEF NothingForgotten
<1>7. CASE Wait
  BY <1>7, StillRemembered DEF Wait, Live
<1>8. CASE ReadFrame
  <2>1. /\ pc = "read" /\ pc' = "read" /\ pipe # <<>> /\ pipe' = Tail(pipe)
        /\ UNCHANGED <<helper, ring, due, accesses, dropped>>
    BY <1>8 DEF ReadFrame
  <2>2. \A n : Ringed(n)' <=> Ringed(n)
    BY <2>1 DEF Ringed
  <2>3. ~summary
    BY <2>1 DEF SummaryIsLast, Live
  <2>4. /\ \A n \in due' : n <= accesses'
        /\ helper' = "summary" => \A n \in due' : ~Ringed(n)'
    BY <2>1, <2>2 DEF NothingForgotten, Live
  <2>5. CASE Head(pipe).tag = "record" /\ events' = Append(events, Head(pipe).value)
             /\ UNCHANGED <<lost, summary>>
    <3>1. /\ Len(events) \in Nat /\ Len(events') = Len(events) + 1
          /\ events'[Len(events) + 1] = pipe[1].value
          /\ \A i \in 1..Len(events) : events'[i] = events[i]
      BY <2>1, <2>5, TakeIndex, FrameFacts, AppendFacts DEF Types, SeqType
    <3>2. \A i \in 1..Len(events) : i \in 1..Len(events')
      BY <3>1
    <3>3. Len(events) + 1 \in 1..Len(events')
      BY <3>1
    <3>4. \A n : Traced(n) \/ n = pipe[1].value => Traced(n)'
      BY <3>1, <3>2, <3>3 DEF Traced
    <3>5. \A i \in 1..Len(pipe) : i = 1 \/ i \in 2..Len(pipe)
      BY <2>1, TakeIndex
    <3>6. \A n : Piped(n) => n = pipe[1].value \/ Piped(n)'
      BY <2>1, <3>5, TakeIndex DEF Piped
    <3>7. \A i \in 1..Len(pipe') : IsSummary(i)' => IsSummary(i + 1) /\ pipe'[i] = pipe[i + 1]
                                                  /\ i + 1 \in 1..Len(pipe)
      BY <2>1, TakeIndex
    <3>8. Said => Said'
      <4>1. \A i \in 1..Len(pipe) : IsSummary(i) => i # 1
        BY <2>1, <2>5, TakeIndex DEF IsSummary
      <4>2. \A i \in 2..Len(pipe) : IsSummary(i) => IsSummary(i - 1)'
        BY <2>1, TakeIndex DEF IsSummary
      <4>3. \A i \in 2..Len(pipe) : i - 1 \in 1..Len(pipe')
        BY <2>1, TakeIndex
      <4> QED
        BY <2>3, <3>5, <4>1, <4>2, <4>3 DEF Said
    <3> QED
      BY <2>1, <2>2, <2>3, <2>4, <2>5, <3>4, <3>6, <3>7, <3>8 DEF NothingForgotten, Live
  <2>6. CASE Head(pipe).tag = "record" /\ lost' = lost + 1 /\ UNCHANGED summary
    <3>1. lost' # 0
      BY <2>6 DEF Types, NumberType
    <3> QED
      BY <2>1, <2>3, <2>4, <2>6, <3>1 DEF NothingForgotten
  <2>7. CASE Head(pipe).tag = "summary" /\ lost' = lost + Head(pipe).value /\ UNCHANGED events
    <3>1. IsSummary(1) /\ pipe[1].value \in Nat
      BY <2>1, <2>7, TakeIndex, FrameFacts, NumbersFacts DEF IsSummary
    <3>2. Len(pipe) = 1 /\ Len(pipe') = 0 /\ helper = "gone"
      <4>1. 1 = Len(pipe) /\ helper = "gone"
        BY <2>1, <3>1, TakeIndex DEF SummaryIsLast, Live
      <4>2. Len(pipe') = Len(pipe) - 1
        BY <2>1, TakeIndex
      <4> QED
        BY <4>1, <4>2
    <3>3. \A n : ~Piped(n)
      BY <3>1, <3>2 DEF Piped, IsRecord, IsSummary
    <3>4. lost' = 0 => lost = 0 /\ pipe[1].value = 0
      BY <2>1, <2>7, <3>1, TakeIndex DEF Types, NumberType
    <3>5. \A n : Traced(n)' <=> Traced(n)
      BY <2>7 DEF Traced
    <3>6. lost' = 0 => \A n \in due' : Traced(n)'
      BY <2>1, <3>1, <3>2, <3>3, <3>4, <3>5 DEF NothingForgotten, Live
    <3>7. summary' /\ Said'
      BY <1>8, <2>7 DEF ReadFrame, Said
    <3>8. 1..Len(pipe') = {}
      BY <3>2
    <3> QED
      BY <2>1, <2>4, <3>6, <3>7, <3>8 DEF NothingForgotten
  <2> QED
    BY <1>8, <2>5, <2>6, <2>7 DEF ReadFrame
<1>9. CASE ReadEnd
  BY <1>9, StillRemembered DEF ReadEnd, Live
<1>10. CASE HelperLoad
  BY <1>10 DEF HelperLoad, Greeting, NothingForgotten, Live
<1>11. CASE HelperScope
  BY <1>11 DEF HelperScope, Greeting, NothingForgotten, Live
<1>12. CASE HelperAck
  BY <1>12 DEF HelperAck, Greeting, NothingForgotten, Live
<1>13. CASE HelperFollow
  BY <1>13 DEF HelperFollow, NothingForgotten, Said, Traced, Piped, Ringed, IsRecord, IsSummary
<1>14. CASE HelperDrain
  <2> SUFFICES ASSUME pc \in Live PROVE NothingForgotten'
    BY <1>14 DEF HelperDrain, NothingForgotten
  <2>1. CASE ring = <<>>
    <3>1. 1..Len(ring') = {}
      BY <1>14, <2>1, EmptyFacts DEF HelperDrain, Types, SeqType
    <3> QED
      BY <1>14, <2>1, <3>1
         DEF HelperDrain, NothingForgotten, Said, Traced, Piped, Ringed, IsRecord, IsSummary
  <2>2. CASE ring # <<>>
    <3>1. /\ Len(ring) \in Nat \ {0} /\ Len(ring') = Len(ring) - 1
          /\ Head(ring) = ring[1] /\ ring[1] \in Numbers
          /\ \A i \in 1..Len(ring') : ring'[i] = ring[i + 1]
      BY <1>14, <2>2, TailFacts DEF HelperDrain, Types, SeqType
    <3>2. /\ pipe' = Append(pipe, Frame("record", ring[1]))
          /\ helper \in {"drain", "lastDrain"} /\ helper' = helper
          /\ UNCHANGED <<pc, due, accesses, dropped, lost, events, summary>>
      BY <1>14, <2>2, <3>1 DEF HelperDrain, Write, Greeting, Live
    <3>3. /\ Frame("record", ring[1]) \in Frames
          /\ Frame("record", ring[1]).tag = "record" /\ Frame("record", ring[1]).value = ring[1]
      BY <3>1, FrameFacts
    <3>4. ~summary /\ \A i \in 1..Len(pipe) : ~IsSummary(i)
      BY <3>2 DEF SummaryIsLast
    <3>5. ~Said /\ ~summary' /\ \A i \in 1..Len(pipe') : ~IsSummary(i)'
      BY <3>2, <3>3, <3>4, WriteIndex DEF Said
    <3>6. \A n : /\ Traced(n) => Traced(n)'
                 /\ Piped(n) \/ n = ring[1] => Piped(n)'
      <4>1. IsRecord(Len(pipe))' /\ pipe'[Len(pipe')].value = ring[1]
        BY <3>2, <3>3, WriteIndex
      <4>2. Len(pipe') \in 1..Len(pipe')
        BY <3>2, <3>3, WriteIndex
      <4>3. \A n : Piped(n) => Piped(n)'
        BY <3>2, <3>3, WriteIndex DEF Piped
      <4> QED
        BY <3>2, <4>1, <4>2, <4>3 DEF Traced, Piped
    <3>7. \A n : Ringed(n) => n = ring[1] \/ Ringed(n)'
      <4>1. \A i \in 1..Len(ring) : i = 1 \/ (i - 1 \in 1..Len(ring') /\ ring'[i - 1] = ring[i])
        BY <3>1
      <4> QED
        BY <4>1 DEF Ringed
    <3> QED
      BY <3>2, <3>5, <3>6, <3>7 DEF NothingForgotten
  <2> QED
    BY <2>1, <2>2
<1>15. CASE HelperPoll
  BY <1>15 DEF HelperPoll, NothingForgotten, Said, Traced, Piped, Ringed, IsRecord, IsSummary
<1>16. CASE HelperSummary
  <2> SUFFICES ASSUME pc \in Live PROVE NothingForgotten'
    BY <1>16 DEF HelperSummary, NothingForgotten
  <2> DEFINE frame == Frame("summary", dropped)
  <2>1. /\ pipe' = Append(pipe, frame) /\ helper = "summary" /\ helper' = "gone"
        /\ UNCHANGED <<pc, due, accesses, dropped, lost, events, ring, summary>>
    BY <1>16 DEF HelperSummary, Write, Greeting, Live
  <2>2. frame \in Frames /\ frame.tag = "summary" /\ frame.value = dropped
    BY PlainFrames DEF Frame
  <2> HIDE DEF frame
  <2>3. ~summary /\ (\A i \in 1..Len(pipe) : ~IsSummary(i)) /\ ~Said
    BY <2>1 DEF SummaryIsLast, Said
  <2>4. \A n : (Traced(n)' <=> Traced(n)) /\ (Piped(n) => Piped(n)')
    BY <2>1, <2>2, WriteIndex DEF Traced, Piped
  <2>5. \A i \in 1..Len(pipe') : IsSummary(i)' => pipe'[i].value = dropped
    BY <2>1, <2>2, <2>3, WriteIndex
  <2>6. Said'
    <3>1. Len(pipe') \in 1..Len(pipe') /\ IsSummary(Len(pipe))'
      BY <2>1, <2>2, WriteIndex
    <3> QED
      BY <3>1 DEF Said
  <2> QED
    BY <2>1, <2>3, <2>4, <2>5, <2>6 DEF NothingForgotten
<1>17. CASE Trap
  BY <1>17 DEF Trap, NothingForgotten, Said, Traced, Piped, Ringed, IsRecord, IsSummary
<1>18. ASSUME NEW p \in Procs, Fork(p) PROVE NothingForgotten'
  BY <1>18 DEF Fork, Free, NothingForgotten, Said, Traced, Piped, Ringed, IsRecord, IsSummary
<1>19. ASSUME NEW p \in Procs, Exit(p) PROVE NothingForgotten'
  BY <1>19 DEF Exit, Free, NothingForgotten, Said, Traced, Piped, Ringed, IsRecord, IsSummary
<1>20. ASSUME NEW p \in Procs, Access(p) PROVE NothingForgotten'
  <2> SUFFICES ASSUME pc \in Live PROVE NothingForgotten'
    BY <1>20 DEF Access, NothingForgotten
  <2>1. /\ accesses' = accesses + 1 /\ accesses \in Nat /\ accesses + 1 \in Numbers
        /\ due' \subseteq due \cup {accesses + 1} /\ \A n \in due : n \in Nat /\ n <= accesses
        /\ UNCHANGED <<pc, helper, pipe, dropped, lost, events, summary>>
    BY <1>20, NumbersFacts DEF Access, Owe, Types, NumberType, NothingForgotten
  <2>2. \A n \in due' : n <= accesses'
    BY <2>1
  <2>3. /\ \A n : (Traced(n)' <=> Traced(n)) /\ (Piped(n)' <=> Piped(n)) /\ (Said' <=> Said)
        /\ \A i : IsSummary(i)' <=> IsSummary(i)
    BY <2>1 DEF Traced, Piped, IsRecord, Said, IsSummary
  <2>4. CASE ring' = ring /\ due' = due
    <3>1. \A n : Ringed(n)' <=> Ringed(n)
      BY <2>4 DEF Ringed
    <3> QED
      BY <2>1, <2>2, <2>3, <2>4, <3>1 DEF NothingForgotten
  <2>5. CASE ring' = Append(ring, accesses + 1) /\ Owe(accesses + 1)
    <3>1. /\ Len(ring) \in Nat /\ Len(ring') = Len(ring) + 1
          /\ ring'[Len(ring) + 1] = accesses + 1
          /\ \A i \in 1..Len(ring) : ring'[i] = ring[i]
      BY <2>1, <2>5, AppendFacts DEF Types, SeqType
    <3>2. \A i \in 1..Len(ring) : i \in 1..Len(ring')
      BY <3>1
    <3>3. \A i \in 1..Len(ring') : i \in 1..Len(ring) \/ i = Len(ring) + 1
      BY <3>1
    <3>4. Len(ring) + 1 \in 1..Len(ring')
      BY <3>1
    <3>5. \A n : Ringed(n)' <=> Ringed(n) \/ n = accesses + 1
      BY <3>1, <3>2, <3>3, <3>4 DEF Ringed
    <3>6. helper \in Last \/ Said => due' = due
      BY <2>5, SummaryAfterTarget DEF Owe
    <3>7. helper = "summary" => \A n \in due' : ~Ringed(n)'
      BY <2>1, <3>5, <3>6 DEF NothingForgotten, Last
    <3>8. ~Said /\ dropped = 0 /\ lost = 0 =>
            \A n \in due' : Traced(n) \/ Piped(n) \/ Ringed(n)'
      BY <2>1, <3>5 DEF NothingForgotten
    <3>9. \A i \in 1..Len(pipe) : IsSummary(i) => Said
      BY DEF Said
    <3>10. summary => Said
      BY DEF Said
    <3> QED
      BY <2>1, <2>2, <2>3, <3>6, <3>7, <3>8, <3>9, <3>10 DEF NothingForgotten
  <2> QED
    BY <1>20, <2>4, <2>5 DEF Access
<1>21. ASSUME NEW p \in Procs, CountDrop(p) PROVE NothingForgotten'
  <2> SUFFICES ASSUME pc \in Live PROVE NothingForgotten'
    BY <1>21 DEF CountDrop, NothingForgotten
  <2>1. PICK entry \in counting : /\ dropped' = entry.read + 1
                                  /\ Owe(entry.access)
    BY <1>21 DEF CountDrop
  <2>2. entry.read \in Nat /\ entry.access \in Nat /\ entry.access <= accesses
    BY NumbersFacts DEF Types, NumberType, CountsLag
  <2>3. dropped' # 0
    BY <2>1, <2>2
  <2>4. UNCHANGED <<pc, helper, pipe, ring, accesses, lost, events, summary>>
    BY <1>21 DEF CountDrop
  <2>5. \A n \in due' : n <= accesses'
    BY <2>1, <2>2, <2>4 DEF Owe, NothingForgotten
  <2>6. /\ \A n : /\ Traced(n)' <=> Traced(n)
                  /\ Piped(n)' <=> Piped(n)
                  /\ Ringed(n)' <=> Ringed(n)
        /\ \A i : IsSummary(i)' <=> IsSummary(i)
    BY <2>4 DEF Traced, Piped, Ringed, IsRecord, IsSummary
  <2>7. helper \in Last \/ Said => due' = due
    BY <2>1, SummaryAfterTarget DEF Owe
  <2>8. /\ \A i \in 1..Len(pipe) : IsSummary(i) => Said
        /\ summary => Said
    BY DEF Said
  <2> QED
    BY <2>3, <2>4, <2>5, <2>6, <2>7, <2>8 DEF NothingForgotten, Last
<1>22. CASE Killed
  BY <1>22 DEF Killed, Fail, Stop, NothingForgotten, Live
<1>23. CASE HelperDies
  BY <1>23 DEF HelperDies, NothingForgotten, Said, Traced, Piped, Ringed, IsRecord, IsSummary
<1>24. CASE UNCHANGED vars
  BY <1>24 DEF vars, NothingForgotten, Said, Traced, Piped, Ringed, IsRecord, IsSummary
<1> QED
  BY <1>1, <1>2, <1>3, <1>4, <1>5, <1>6, <1>7, <1>8, <1>9, <1>10, <1>11, <1>12, <1>13, <1>14,
       <1>15, <1>16, <1>17, <1>18, <1>19, <1>20, <1>21, <1>22, <1>23, <1>24 DEF Next,
       BaileyStep, HelperStep, TargetStep


\* The lengths and counts are numbers.
LEMMA Lengths ==
  ASSUME Types
  PROVE  /\ Len(pipe) \in Nat /\ Len(ring) \in Nat /\ Len(events) \in Nat
         /\ lost \in Nat /\ dropped \in Nat /\ accesses \in Nat
         /\ \A entry \in counting : entry.read \in Nat
         /\ \A i \in 1..Len(pipe) : pipe[i].value \in Nat
BY Entries, NumbersFacts DEF Types, NumberType

\* A step that moves no record and no count keeps what is accounted for.
LEMMA StillAccounted ==
  ASSUME NothingInvented, pc \in Live,
         UNCHANGED <<pipe, ring, events, accesses, dropped, lost, summary, counting>>
  PROVE  NothingInvented'
<1>1. /\ Said' <=> Said
      /\ \A i : IsSummary(i)' <=> IsSummary(i)
      /\ Kept' = Kept
  BY DEF Said, Kept, IsSummary
<1> QED
  BY <1>1 DEF NothingInvented

\* Every step accounts for an access once at most.
LEMMA InventedStep ==
  ASSUME Types, CountsLag, Greeting, Held, SummaryIsLast, NothingInvented, [Next]_vars
  PROVE  NothingInvented'
<1> USE DEF target, maps, seen, trace, Over
<1>1. CASE ReadHello
  BY <1>1 DEF ReadHello, Fail, Stop, NothingInvented, Live
<1>2. CASE Spawn
  BY <1>2 DEF Spawn, Fail, Stop, NothingInvented, Live
<1>3. CASE WaitForStop
  BY <1>3 DEF WaitForStop, Fail, Stop, NothingInvented, Live
<1>4. CASE SendScope
  BY <1>4 DEF SendScope, Fail, Stop, NothingInvented, Live
<1>5. CASE ReadAck
  BY <1>5 DEF ReadAck, Fail, Stop, NothingInvented, Live
<1>6. CASE Resume
  <2>1. CASE pc' = "failed"
    BY <2>1 DEF NothingInvented, Live
  <2>2. CASE pc' = "wait"
    <3>1. /\ pipe' = <<>> /\ ring' = <<>> /\ events' = <<>> /\ ~summary' /\ counting' = {}
          /\ lost' = 0 /\ dropped' = 0 /\ accesses' = 0
      BY <1>6, <2>2 DEF Resume, Fail, Stop, Greeting, Held, Early
    <3>2. Kept' = 0 /\ 1..Len(pipe') = {}
      BY <3>1 DEF Kept
    <3> QED
      BY <3>1, <3>2 DEF NothingInvented
  <2> QED
    BY <1>6, <2>1, <2>2 DEF Resume, Fail, Stop
<1>7. CASE Wait
  BY <1>7, StillAccounted DEF Wait, Live
<1>8. CASE ReadFrame
  <2>1. /\ pc = "read" /\ pipe # <<>> /\ pipe' = Tail(pipe)
        /\ UNCHANGED <<ring, accesses, dropped, counting>>
    BY <1>8 DEF ReadFrame
  <2>2. /\ Len(pipe') = Len(pipe) - 1 /\ pipe[1] = Head(pipe) /\ pipe[1].value \in Nat
        /\ 1 \in 1..Len(pipe)
    BY <2>1, TakeIndex, Lengths
  <2>3. ~summary
    BY <2>1 DEF SummaryIsLast, Live
  <2>4. CASE Head(pipe).tag = "record" /\ ~summary'
    <3>1. Kept' = Kept
      <4>1. CASE events' = Append(events, Head(pipe).value) /\ lost' = lost
        <5>1. Len(events') = Len(events) + 1
          BY <2>1, <4>1, TakeIndex, FrameFacts, AppendFacts DEF Types, SeqType
        <5> QED
          BY <2>1, <2>2, <4>1, <5>1, Lengths DEF Kept
      <4>2. CASE events' = events /\ lost' = lost + 1
        BY <2>1, <2>2, <4>2, Lengths DEF Kept
      <4> QED
        BY <1>8, <2>4, <4>1, <4>2 DEF ReadFrame
    <3>2. Said => Said'
      <4>1. \A i \in 1..Len(pipe) : IsSummary(i) => i # 1
        BY <2>2, <2>4 DEF IsSummary
      <4>2. \A i \in 2..Len(pipe) : IsSummary(i) => IsSummary(i - 1)' /\ i - 1 \in 1..Len(pipe')
        BY <2>1, TakeIndex DEF IsSummary
      <4>3. \A i \in 1..Len(pipe) : i = 1 \/ i \in 2..Len(pipe)
        BY Lengths
      <4> QED
        BY <2>3, <4>1, <4>2, <4>3 DEF Said
    <3>3. \A i \in 1..Len(pipe') : IsSummary(i)' => IsSummary(i + 1) /\ pipe'[i] = pipe[i + 1]
                                                  /\ i + 1 \in 1..Len(pipe)
      BY <2>1, TakeIndex
    <3> QED
      BY <2>1, <2>4, <3>1, <3>2, <3>3 DEF NothingInvented, Live
  <2>5. CASE Head(pipe).tag = "summary" /\ lost' = lost + Head(pipe).value /\ events' = events
             /\ summary'
    <3>1. IsSummary(1)
      BY <2>2, <2>5 DEF IsSummary
    <3>2. Len(pipe) = 1 /\ Len(pipe') = 0
      <4>1. 1 = Len(pipe)
        BY <2>1, <2>2, <3>1 DEF SummaryIsLast, Live
      <4>2. Len(pipe') = Len(pipe) - 1
        BY <2>2
      <4> QED
        BY <4>1, <4>2
    <3>3. 1..Len(pipe') = {} /\ Said'
      BY <2>5, <3>2 DEF Said
    <3>4. Kept - 1 + pipe[1].value <= accesses
      BY <2>1, <2>2, <3>1 DEF NothingInvented, Live
    <3>5. Kept' = Kept - 1 + pipe[1].value
      <4>1. /\ Kept' = Len(events) + 0 + Len(ring) + (lost + pipe[1].value)
            /\ Kept = Len(events) + 1 + Len(ring) + lost
        BY <2>1, <2>2, <2>5, <3>2 DEF Kept
      <4>2. Len(events) \in Nat /\ Len(ring) \in Nat /\ lost \in Nat /\ pipe[1].value \in Nat
        BY <2>2, Lengths
      <4> QED
        BY <4>1, <4>2
    <3> QED
      BY <2>1, <3>3, <3>4, <3>5 DEF NothingInvented
  <2> QED
    BY <1>8, <2>3, <2>4, <2>5 DEF ReadFrame
<1>9. CASE ReadEnd
  BY <1>9, StillAccounted DEF ReadEnd, Live
<1>10. CASE HelperLoad
  BY <1>10 DEF HelperLoad, Greeting, NothingInvented, Live
<1>11. CASE HelperScope
  BY <1>11 DEF HelperScope, Greeting, NothingInvented, Live
<1>12. CASE HelperAck
  BY <1>12 DEF HelperAck, Greeting, NothingInvented, Live
<1>13. CASE HelperFollow
  <2>1. CASE pc \in Live
    BY <1>13, <2>1, StillAccounted DEF HelperFollow
  <2>2. CASE pc \notin Live
    BY <1>13, <2>2 DEF HelperFollow, NothingInvented
  <2> QED
    BY <2>1, <2>2
<1>14. CASE HelperDrain
  <2> SUFFICES ASSUME pc \in Live PROVE NothingInvented'
    BY <1>14 DEF HelperDrain, NothingInvented
  <2>1. CASE ring = <<>>
    BY <1>14, <2>1, StillAccounted DEF HelperDrain
  <2>2. CASE ring # <<>>
    <3>1. Len(ring') = Len(ring) - 1 /\ Head(ring) \in Numbers
      BY <1>14, <2>2, TailFacts DEF HelperDrain, Types, SeqType
    <3>2. /\ pipe' = Append(pipe, Frame("record", Head(ring)))
          /\ helper \in {"drain", "lastDrain"}
          /\ UNCHANGED <<pc, accesses, dropped, lost, events, summary, counting>>
      BY <1>14, <2>2 DEF HelperDrain, Write, Greeting, Live
    <3>3. /\ Frame("record", Head(ring)) \in Frames
          /\ Frame("record", Head(ring)).tag = "record"
      BY <3>1, FrameFacts
    <3>4. ~summary /\ \A i \in 1..Len(pipe) : ~IsSummary(i)
      BY <3>2 DEF SummaryIsLast
    <3>5. ~Said /\ ~summary' /\ \A i \in 1..Len(pipe') : ~IsSummary(i)'
      BY <3>2, <3>3, <3>4, WriteIndex DEF Said
    <3>6. Kept' = Kept
      BY <3>1, <3>2, <3>3, WriteIndex, Lengths DEF Kept
    <3> QED
      BY <3>2, <3>5, <3>6 DEF NothingInvented
  <2> QED
    BY <2>1, <2>2
<1>15. CASE HelperPoll
  <2>1. CASE pc \in Live
    BY <1>15, <2>1, StillAccounted DEF HelperPoll
  <2>2. CASE pc \notin Live
    BY <1>15, <2>2 DEF HelperPoll, NothingInvented
  <2> QED
    BY <2>1, <2>2
<1>16. CASE HelperSummary
  <2> SUFFICES ASSUME pc \in Live PROVE NothingInvented'
    BY <1>16 DEF HelperSummary, NothingInvented
  <2> DEFINE frame == Frame("summary", dropped)
  <2>1. /\ pipe' = Append(pipe, frame) /\ helper = "summary"
        /\ UNCHANGED <<pc, accesses, dropped, lost, events, ring, summary, counting>>
    BY <1>16 DEF HelperSummary, Write, Greeting, Live
  <2>2. frame \in Frames /\ frame.tag = "summary" /\ frame.value = dropped
    BY PlainFrames DEF Frame
  <2> HIDE DEF frame
  <2>3. ~summary /\ (\A i \in 1..Len(pipe) : ~IsSummary(i)) /\ ~Said
    BY <2>1 DEF SummaryIsLast, Said
  <2>4. \A i \in 1..Len(pipe') : IsSummary(i)' => pipe'[i].value = dropped
    BY <2>1, <2>2, <2>3, WriteIndex
  <2>5. Said'
    <3>1. Len(pipe') \in 1..Len(pipe') /\ IsSummary(Len(pipe))'
      BY <2>1, <2>2, WriteIndex
    <3> QED
      BY <3>1 DEF Said
  <2>6. Kept' = Kept + 1 /\ Kept \in Nat
    BY <2>1, <2>2, WriteIndex, Lengths DEF Kept
  <2>7. Kept + dropped <= accesses
    BY <2>3 DEF NothingInvented
  <2> QED
    BY <2>1, <2>3, <2>4, <2>5, <2>6, <2>7, Lengths DEF NothingInvented
<1>17. CASE Trap
  <2>1. CASE pc \in Live
    BY <1>17, <2>1, StillAccounted DEF Trap
  <2>2. CASE pc \notin Live
    BY <1>17, <2>2 DEF Trap, NothingInvented
  <2> QED
    BY <2>1, <2>2
<1>18. ASSUME NEW p \in Procs, Fork(p) PROVE NothingInvented'
  <2>1. CASE pc \in Live
    BY <1>18, <2>1, StillAccounted DEF Fork
  <2>2. CASE pc \notin Live
    BY <1>18, <2>2 DEF Fork, NothingInvented
  <2> QED
    BY <2>1, <2>2
<1>19. ASSUME NEW p \in Procs, Exit(p) PROVE NothingInvented'
  <2>1. CASE pc \in Live
    BY <1>19, <2>1, StillAccounted DEF Exit
  <2>2. CASE pc \notin Live
    BY <1>19, <2>2 DEF Exit, NothingInvented
  <2> QED
    BY <2>1, <2>2
<1>20. ASSUME NEW p \in Procs, Access(p) PROVE NothingInvented'
  <2> SUFFICES ASSUME pc \in Live PROVE NothingInvented'
    BY <1>20 DEF Access, NothingInvented
  <2>1. /\ accesses' = accesses + 1 /\ accesses + 1 \in Numbers
        /\ UNCHANGED <<pc, pipe, dropped, lost, events, summary>>
    BY <1>20, NumbersFacts DEF Access, Types, NumberType
  <2>2. /\ Said' <=> Said
        /\ \A i : IsSummary(i)' <=> IsSummary(i)
    BY <2>1 DEF Said, IsSummary
  <2>3. Kept \in Nat /\ Kept' \in Nat /\ Kept' <= Kept + 1
        /\ (Kept' = Kept \/ counting' = counting)
    <3>1. CASE ring' = ring
      BY <2>1, <3>1, Lengths DEF Kept
    <3>2. CASE ring' = Append(ring, accesses + 1) /\ counting' = counting
      <4>1. Len(ring') = Len(ring) + 1
        BY <2>1, <3>2, AppendFacts DEF Types, SeqType
      <4> QED
        BY <2>1, <3>2, <4>1, Lengths DEF Kept
    <3> QED
      BY <1>20, <3>1, <3>2 DEF Access
  <2>4. ~Said => Kept' + dropped <= accesses'
    BY <2>1, <2>3, Lengths DEF NothingInvented
  <2>5. ~Said => \A entry \in counting' : Kept' + entry.read < accesses'
    <3>1. CASE counting' = counting
      BY <2>1, <2>3, <3>1, Lengths DEF NothingInvented
    <3>2. CASE Kept' = Kept
      <4>1. \A entry \in counting' : entry \in counting \/ entry.read = dropped
        BY <1>20 DEF Access
      <4> QED
        BY <2>1, <2>3, <3>2, <4>1, Lengths DEF NothingInvented
    <3> QED
      BY <2>3, <3>1, <3>2
  <2>6. \A i \in 1..Len(pipe) : IsSummary(i) => Kept' - 1 + pipe[i].value <= accesses'
    BY <2>1, <2>3, Lengths DEF NothingInvented
  <2>7. summary => Kept' <= accesses'
    BY <2>1, <2>3, Lengths DEF NothingInvented
  <2> QED
    BY <2>1, <2>2, <2>4, <2>5, <2>6, <2>7 DEF NothingInvented
<1>21. ASSUME NEW p \in Procs, CountDrop(p) PROVE NothingInvented'
  <2> SUFFICES ASSUME pc \in Live PROVE NothingInvented'
    BY <1>21 DEF CountDrop, NothingInvented
  <2>1. PICK entry \in counting : /\ counting' = counting \ {entry}
                                  /\ dropped' = entry.read + 1
    BY <1>21 DEF CountDrop
  <2>2. UNCHANGED <<pc, pipe, ring, accesses, lost, events, summary>>
    BY <1>21 DEF CountDrop
  <2>3. /\ Said' <=> Said
        /\ Kept' = Kept /\ Kept \in Nat
        /\ \A i : IsSummary(i)' <=> IsSummary(i)
    BY <2>2, Lengths DEF Said, IsSummary, Kept
  <2>4. ~Said => Kept + dropped' <= accesses
    BY <2>1, <2>3, Lengths DEF NothingInvented
  <2> QED
    BY <2>1, <2>2, <2>3, <2>4 DEF NothingInvented
<1>22. CASE Killed
  BY <1>22 DEF Killed, Fail, Stop, NothingInvented, Live
<1>23. CASE HelperDies
  <2>1. CASE pc \in Live
    BY <1>23, <2>1, StillAccounted DEF HelperDies
  <2>2. CASE pc \notin Live
    BY <1>23, <2>2 DEF HelperDies, NothingInvented
  <2> QED
    BY <2>1, <2>2
<1>24. CASE UNCHANGED vars
  BY <1>24 DEF vars, NothingInvented, Kept, Said, IsSummary
<1> QED
  BY <1>1, <1>2, <1>3, <1>4, <1>5, <1>6, <1>7, <1>8, <1>9, <1>10, <1>11, <1>12, <1>13, <1>14,
       <1>15, <1>16, <1>17, <1>18, <1>19, <1>20, <1>21, <1>22, <1>23, <1>24 DEF Next,
       BaileyStep, HelperStep, TargetStep

-----------------------------------------------------------------------------
(* What the runs check.                                                    *)

IInv ==
  /\ Types /\ CountsLag /\ Greeting /\ Told /\ Held /\ CgroupMissesNothing
  /\ InOrder /\ SummaryIsLast /\ NothingForgotten /\ NothingInvented

\* The inductive invariant holds in every reachable state.
LEMMA Invariant == Spec => []IInv
<1>1. Init => IInv
  <2> SUFFICES ASSUME Init PROVE IInv
    OBVIOUS
  <2>1. CtlType /\ TargetType /\ NumberType
    <3>1. CtlType
      BY DEF Init, CtlType, Early
    <3>2. TargetType
      BY RootAssumption DEF Init, TargetType
    <3>3. NumberType
      BY NumbersFacts DEF Init, NumberType
    <3> QED
      BY <3>1, <3>2, <3>3
  <2>2. /\ pipe = <<>> /\ ring = <<>> /\ events = <<>>
        /\ Len(pipe) = 0 /\ Len(ring) = 0 /\ Len(events) = 0
    BY DEF Init
  <2>3. SeqType
    BY <2>2, CapAssumption DEF SeqType
  <2>4. CountsLag /\ Greeting /\ Told /\ Held /\ CgroupMissesNothing
    BY <2>2 DEF Init, CountsLag, Greeting, Told, Held, CgroupMissesNothing, Early, Live, Last
  <2>5. 1..Len(pipe) = {} /\ 1..Len(ring) = {} /\ 1..Len(events) = {}
    BY <2>2
  <2>6. InOrder
    BY <2>5 DEF InOrder, Past, EventsOrdered, PipeOrdered, RingOrdered, EventsBeforePipe,
                EventsBeforeRing, PipeBeforeRing
  <2>7. SummaryIsLast /\ NothingForgotten /\ NothingInvented
    BY DEF Init, SummaryIsLast, NothingForgotten, NothingInvented, Live
  <2> QED
    BY <2>1, <2>3, <2>4, <2>6, <2>7 DEF IInv, Types
<1>2. IInv /\ [Next]_vars => IInv'
  BY TypesStep, CountsStep, GreetingStep, ToldStep, HeldStep, MissedStep, OrderStep,
       SummaryStep,
     ForgottenStep, InventedStep DEF IInv
<1> QED
  BY <1>1, <1>2, PTL DEF Spec

\* The variables have their types, the pipe and the ring never hold more than
\* fits them, and the trace no more than MAX_EVENTS.
THEOREM TypeCorrect == Spec => []TypeOK
<1>1. IInv => TypeOK
  BY TypeParts DEF IInv
<1> QED
  BY <1>1, Invariant, PTL

\* While bailey records, the target does not run before the helper watches it.
THEOREM TargetIsWatched == Spec => []WatchedBeforeRunning
<1>1. IInv => WatchedBeforeRunning
  BY RootAssumption
     DEF IInv, WatchedBeforeRunning, Types, CtlType, Told, Held, Watching, Early, Live
<1> QED
  BY <1>1, Invariant, PTL

\* In a cgroup nothing a process of the run does is out of scope.
THEOREM CgroupIsWhole == Spec => []CgroupMissesNothing
<1>1. IInv => CgroupMissesNothing
  BY DEF IInv
<1> QED
  BY <1>1, Invariant, PTL

\* The events of a trace are in the order the accesses were made, none twice.
THEOREM TraceIsInOrder == Spec => []EventsInOrder
<1>1. IInv => EventsInOrder
  <2> SUFFICES ASSUME IInv PROVE EventsInOrder
    OBVIOUS
  <2>1. DOMAIN events = 1..Len(events)
    BY LenProperties DEF IInv, Types, SeqType
  <2> QED
    BY <2>1 DEF EventsInOrder, IInv, InOrder, EventsOrdered
<1> QED
  BY <1>1, Invariant, PTL

\* A trace with a summary and no loss holds all that is owed to it, and the loss
\* it gives is never more than what it does not hold.
THEOREM SummaryIsHonest == Spec => []SummaryIsTrue
<1>1. IInv => SummaryIsTrue
  <2> SUFFICES ASSUME IInv, pc = "done", summary
               PROVE  /\ lost = 0 => due \subseteq Recorded
                      /\ lost <= accesses - Cardinality(Recorded)
    BY DEF SummaryIsTrue
  <2>1. /\ DOMAIN events = 1..Len(events) /\ Len(events) \in Nat
        /\ Len(pipe) \in Nat /\ Len(ring) \in Nat /\ lost \in Nat /\ accesses \in Nat
    BY LenProperties, Lengths DEF IInv, Types, SeqType
  <2>2. lost = 0 => due \subseteq Recorded
    BY <2>1 DEF IInv, NothingForgotten, Traced, Recorded, Live
  <2>3. Len(events) + lost <= accesses
    BY <2>1 DEF IInv, NothingInvented, Kept, Live
  <2>4. Cardinality(Recorded) <= Len(events) /\ Cardinality(Recorded) \in Nat
    <3>1. [i \in 1..Len(events) |-> events[i]] \in Surjection(1..Len(events), Recorded)
      BY <2>1 DEF Recorded, Surjection
    <3>2. ExistsSurjection(1..Len(events), Recorded)
      BY <3>1 DEF ExistsSurjection
    <3>3. IsFiniteSet(Recorded)
      BY <2>1, <3>2, FS_NatSurjection
    <3> QED
      BY <2>1, <3>2, <3>3, FS_SurjCardinalityBound, FS_CardinalityType
  <2> QED
    BY <2>1, <2>2, <2>3, <2>4
<1> QED
  BY <1>1, Invariant, PTL

================================================================================
