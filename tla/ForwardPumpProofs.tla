--------------------------- MODULE ForwardPumpProofs ---------------------------
(***************************************************************************)
(* What holds of a forwarded port for any number of clients, any sizes of  *)
(* the queues and any deadline: the types of its state, that the end of a  *)
(* flow is passed on behind its last chunk, and that the three queues of   *)
(* a flow together are one stream of Duplex.                               *)
(***************************************************************************)
EXTENDS ForwardPump, SequenceTheorems, TLAPS

-----------------------------------------------------------------------------
(* A stream made of three queues.                                          *)

\* A chunk read into bailey's own queue stays at its place in the stream.
LEMMA FillMoves ==
  ASSUME NEW S, NEW b \in Seq(S), NEW c \in Seq(S), c # <<>>
  PROVE  /\ Append(b, Head(c)) \in Seq(S) /\ Tail(c) \in Seq(S)
         /\ Append(b, Head(c)) \o Tail(c) = b \o c
<1>1. /\ Append(b, Head(c)) \in Seq(S) /\ Tail(c) \in Seq(S)
      /\ Head(c) \in S /\ Len(Tail(c)) = Len(c) - 1
  BY HeadTailProperties, AppendProperties
<1> QED BY <1>1

Cat(a, b) == a \o b

LEMMA Regroup == \A S : \A a, b, c \in Seq(S) : Cat(Cat(a, b), c) = Cat(a, Cat(b, c))
  BY ConcatAssociative DEF Cat

LEMMA FillKeepsStream ==
  ASSUME NEW a \in Seq(Nat), NEW b \in Seq(Nat), NEW c \in Seq(Nat),
         NEW x \in Seq(Nat), NEW y \in Seq(Nat), Cat(x, y) = Cat(b, c)
  PROVE  Cat(Cat(a, x), y) = Cat(Cat(a, b), c)
  BY Regroup

\* Nor does a chunk that is written out of it move.
LEMMA DrainKeepsStream ==
  ASSUME NEW S, NEW a \in Seq(S), NEW b \in Seq(S), NEW c \in Seq(S), b # <<>>
  PROVE  (Append(a, Head(b)) \o Tail(b)) \o c = (a \o b) \o c
<1>1. Append(a, Head(b)) \o Tail(b) = a \o b
  BY HeadTailProperties, AppendProperties
<1> QED BY <1>1

\* A chunk that is sent joins the stream at its end.
LEMMA WriteAppends ==
  ASSUME NEW S, NEW a \in Seq(S), NEW b \in Seq(S), NEW c \in Seq(S), NEW x \in S
  PROVE  (a \o b) \o Append(c, x) = Append((a \o b) \o c, x)
<1>1. a \o b \in Seq(S)
  BY ConcatProperties
<1> QED BY <1>1

\* A chunk that is read is the first of the stream.
LEMMA ReadTakesHead ==
  ASSUME NEW S, NEW a \in Seq(S), NEW b \in Seq(S), NEW c \in Seq(S), a # <<>>
  PROVE  /\ (a \o b) \o c # <<>>
         /\ Tail((a \o b) \o c) = (Tail(a) \o b) \o c
<1>1. a \o b \in Seq(S) /\ a \o b # <<>> /\ Tail(a \o b) = Tail(a) \o b
  BY ConcatProperties, HeadTailProperties
<1>2. (a \o b) \o c # <<>>
  BY <1>1, ConcatProperties
<1>3. Tail((a \o b) \o c) = Tail(a \o b) \o c
  BY <1>1, HeadTailProperties
<1> QED BY <1>1, <1>2, <1>3

\* What the kernel took for a sink is a prefix of the stream.
LEMMA WrittenIsPrefix ==
  ASSUME NEW S, NEW a \in Seq(S), NEW b \in Seq(S), NEW c \in Seq(S)
  PROVE  /\ (a \o <<>>) \o <<>> = a
         /\ Len(a) <= Len((a \o b) \o c)
         /\ SubSeq(a, 1, Len(a)) = SubSeq((a \o b) \o c, 1, Len(a))
<1>1. a \o b \in Seq(S) /\ Len(a \o b) = Len(a) + Len(b)
  BY ConcatProperties
<1>2. (a \o <<>>) \o <<>> = a
  BY ConcatEmptySeq
<1>3. Len((a \o b) \o c) = Len(a) + Len(b) + Len(c)
  BY <1>1, ConcatProperties
<1>4. \A i \in 1..Len(a) : ((a \o b) \o c)[i] = a[i]
  BY <1>1, ConcatProperties
<1>5. SubSeq(a, 1, Len(a)) = SubSeq((a \o b) \o c, 1, Len(a))
  BY <1>1, <1>3, <1>4
<1> QED BY <1>2, <1>3, <1>5

-----------------------------------------------------------------------------
(***************************************************************************)
(* The inductive invariant.  Beside the types it says where the thread is  *)
(* (Control), that the backlog holds each waiting client once (Queue), and *)
(* what the queues of a flow hold (Streams): nothing, once the flow was    *)
(* shut; otherwise every chunk that was sent and not read.                 *)
(***************************************************************************)
Control ==
  /\ pc = "accept" => carried = None
  /\ pc # "accept" => carried \in Clients
  /\ pc = "connect" => link[carried] = "waiting"
  /\ pc \in {"poll", "round"} => link[carried] = "joined"
  /\ pc \in {"accept", "connect"} => \A d \in Dirs : buf[d] = <<>> /\ sends[d]
  /\ \A c \in Clients : link[c] = "joined" => c = carried

Queue ==
  /\ \A i \in 1..Len(backlog) : link[backlog[i]] = "waiting" /\ backlog[i] # carried
  /\ \A i, j \in 1..Len(backlog) : backlog[i] = backlog[j] => i = j

Held(f) == IF f[1] = carried THEN buf[f[2]] ELSE <<>>

\* A flow as Duplex sees it.
Stream(f) == outq[f] \o Held(f) \o inq[f]

Streams ==
  /\ \A f \in Flows : f \in shut =>
       /\ f \in fin /\ inq[f] = <<>> /\ Held(f) = <<>>
       /\ got[f] + Len(outq[f]) = sent[f]
  /\ \A f \in Flows : link[f[1]] # "cut" => got[f] + Len(Stream(f)) = sent[f]
  /\ \A f \in Flows : link[f[1]] = "cut" => inq[f] = <<>> /\ Held(f) = <<>>
  /\ \A f \in Flows : link[f[1]] = "done" => f \in shut
  /\ pc \in {"poll", "round"} => \A d \in Dirs : ~sends[d] =>
       Carried(d) \in fin /\ inq[Carried(d)] = <<>>
  /\ pc = "poll" => \A d \in Dirs : Delivered(d) => Carried(d) \in shut

\* The deadline runs on idleness, and an error handled is an end's reset.
Clock ==
  /\ quiet <= still \/ (pc = "round" /\ moved)
  /\ \A e \in revents : e[1] = "error" => EndsOf(carried) \cap reset # {}
  /\ pc = "round" \/ revents = {}

IInv == QueuesBounded /\ Control /\ Queue /\ Streams /\ Clock


-----------------------------------------------------------------------------
(***************************************************************************)
(* Type correctness, by the groups of variables a step touches.            *)
(***************************************************************************)

\* The flow the thread works on in a direction.
LEMMA CarriedFlow ==
  ASSUME NEW d \in Dirs, carried \in Clients
  PROVE  Carried(d) \in Flows /\ Carried(d)[1] = carried /\ Carried(d)[2] = d
  BY DEF Carried, Flows

\* Dropping the streams keeps the types; the thread starts anew.
LEMMA CloseType ==
  ASSUME QueuesBounded, carried \in Clients, NEW label \in {"done", "cut"}, Close(label),
         backlog' = backlog, outq' = outq, shut' \subseteq Flows
  PROVE  ThreadType' /\ KernelType' /\ still' \in Nat
<1>1. ThreadType'
  <2>1. buf' \in [Dirs -> Seq(Nat)] /\ \A d \in Dirs : Len(buf'[d]) <= HighWater
    BY CapAssumption DEF Close
  <2> QED BY <2>1 DEF QueuesBounded, ThreadType, Close
<1>2. KernelType'
  BY DEF QueuesBounded, KernelType, Close
<1> QED BY <1>1, <1>2 DEF Close

\* What the ends of the connections do has types.
LEMMA PeersType == QueuesBounded /\ Peers => QueuesBounded'
<1> SUFFICES ASSUME QueuesBounded, Peers PROVE QueuesBounded'
  OBVIOUS
<1> USE DEF QueuesBounded
<1>1. ASSUME NEW c \in Clients, Dial(c) PROVE QueuesBounded'
  <2>1. ThreadType'
    BY <1>1 DEF Dial, ThreadType
  <2>2. KernelType' /\ EndsType'
    BY <1>1 DEF Dial, KernelType, EndsType, ends
  <2> QED BY <1>1, <2>1, <2>2 DEF Dial
<1>2. ASSUME NEW f \in Flows, Write(f) PROVE QueuesBounded'
  <2>1. ThreadType'
    BY <1>2 DEF Write, ThreadType, thread
  <2>2. KernelType' /\ EndsType'
    BY <1>2 DEF Write, KernelType, EndsType
  <2> QED BY <1>2, <2>1, <2>2 DEF Write
<1>3. ASSUME NEW f \in Flows, Finish(f) PROVE QueuesBounded'
  BY <1>3 DEF Finish, ThreadType, KernelType, EndsType, thread, kernel
<1>4. ASSUME NEW f \in Flows, Read(f) PROVE QueuesBounded'
  <2>1. ThreadType'
    BY <1>4 DEF Read, ThreadType, thread
  <2>2. Tail(outq[f]) \in Seq(Nat)
    BY <1>4, HeadTailProperties DEF Read, KernelType
  <2>3. KernelType' /\ EndsType'
    BY <1>4, <2>2 DEF Read, KernelType, EndsType
  <2> QED BY <1>4, <2>1, <2>3 DEF Read
<1>5. ASSUME NEW f \in Flows, ReadEnd(f) PROVE QueuesBounded'
  BY <1>5 DEF ReadEnd, ThreadType, KernelType, EndsType, thread, kernel
<1>6. ASSUME NEW f \in Flows, Reset(f) PROVE QueuesBounded'
  <2>1. Source(f) \in Clients \X {"client", "service"}
    BY DEF Source, Flows
  <2> QED BY <1>6, <2>1 DEF Reset, ThreadType, KernelType, EndsType, thread, kernel
<1>7. CASE ServiceToggles
  BY <1>7 DEF ServiceToggles, ThreadType, KernelType, EndsType, thread, kernel
<1> QED BY <1>1, <1>2, <1>3, <1>4, <1>5, <1>6, <1>7 DEF Peers

\* So does what the thread does between two rounds.
LEMMA LoopType ==
  QueuesBounded /\ Control /\ (Accept \/ Connect \/ Return \/ Poll \/ Tick \/ Expire \/ Ends) => QueuesBounded'
<1> SUFFICES ASSUME QueuesBounded, Control, Accept \/ Connect \/ Return \/ Poll \/ Tick \/ Expire \/ Ends
             PROVE  QueuesBounded'
  OBVIOUS
<1> USE DEF QueuesBounded
<1>1. CASE Accept
  <2>1. Head(backlog) \in Clients /\ Tail(backlog) \in Seq(Clients)
    BY <1>1, HeadTailProperties DEF Accept, ThreadType
  <2>2. ThreadType'
    BY <1>1, <2>1 DEF Accept, ThreadType
  <2> QED BY <1>1, <2>2 DEF Accept, KernelType, EndsType, kernel, ends
<1>2. CASE Connect
  <2>1. EndsType' /\ carried \in Clients
    BY <1>2 DEF Connect, EndsType, ends, Control
  <2>2. CASE Close("cut")
    <3>1. ThreadType' /\ KernelType' /\ still' \in Nat
      BY <1>2, <2>1, <2>2, CloseType DEF Connect, KernelType
    <3> QED BY <2>1, <3>1
  <2>3. CASE ~Close("cut")
    <3>1. ThreadType' /\ KernelType'
      BY <1>2, <2>1, <2>3 DEF Connect, ThreadType, KernelType
    <3> QED BY <1>2, <2>1, <2>3, <3>1 DEF Connect
  <2> QED BY <2>2, <2>3
<1>3. CASE Return
  <2>1. EndsType' /\ carried \in Clients
    BY <1>3 DEF Return, EndsType, ends, Control
  <2> QED BY <1>3, <2>1, CloseType DEF Return, KernelType
<1>4. CASE Poll
  <2>1. Ready \subseteq {"in", "out", "error"} \X Dirs
    BY DEF Ready, Dirs
  <2> QED BY <1>4, <2>1 DEF Poll, ThreadType, KernelType, EndsType, kernel, ends
<1>5. CASE Tick
  BY <1>5 DEF Tick, ThreadType, KernelType, EndsType, kernel, ends
<1>6. CASE Expire
  <2>1. EndsType' /\ carried \in Clients
    BY <1>6 DEF Expire, EndsType, ends, Control
  <2> QED BY <1>6, <2>1, CloseType DEF Expire, KernelType
<1>7. CASE Ends
  <2>1. EndsType' /\ carried \in Clients
    BY <1>7 DEF Ends, EndsType, ends, Control
  <2>2. shut' \subseteq Flows
    BY <1>7, <2>1, CarriedFlow DEF Ends, KernelType
  <2>3. CASE Close("cut")
    <3>1. ThreadType' /\ KernelType' /\ still' \in Nat
      BY <1>7, <2>1, <2>2, <2>3, CloseType DEF Ends
    <3> QED BY <2>1, <3>1
  <2>4. CASE ~Close("cut")
    <3>1. quiet' \in Nat /\ moved' = FALSE /\ pc' = "poll"
      BY <1>7, <2>4 DEF Ends, ThreadType
    <3>2. ThreadType'
      BY <1>7, <2>4, <3>1 DEF Ends, ThreadType
    <3>3. KernelType'
      BY <1>7, <2>2, <2>4 DEF Ends, KernelType
    <3> QED BY <1>7, <2>1, <2>4, <3>2, <3>3 DEF Ends
  <2> QED BY <2>3, <2>4
<1> QED BY <1>1, <1>2, <1>3, <1>4, <1>5, <1>6, <1>7

\* And what it does within one.
LEMMA RoundType ==
  ASSUME QueuesBounded, Control, NEW d \in Dirs, Round(d)
  PROVE  QueuesBounded'
<1> USE DEF QueuesBounded
<1>1. pc = "round" /\ carried \in Clients /\ Carried(d) \in Flows
  BY CarriedFlow
  DEF Round, FillChunk, FillDone, FillFails, DrainChunk, DrainDone, DrainFails, Turn, Control
<1>2. EndsType'
  BY DEF Round, FillChunk, FillDone, FillFails, DrainChunk, DrainDone, DrainFails, EndsType, ends
<1>3. CASE FillChunk(d)
  <2>1. /\ Head(inq[Carried(d)]) \in Nat
        /\ Tail(inq[Carried(d)]) \in Seq(Nat)
    BY <1>1, <1>3, HeadTailProperties DEF FillChunk, KernelType
  <2>2. KernelType'
    BY <1>3, <2>1 DEF FillChunk, KernelType
  <2>3. /\ Append(buf[d], Head(inq[Carried(d)])) \in Seq(Nat)
        /\ Len(Append(buf[d], Head(inq[Carried(d)]))) <= HighWater
    BY <1>3, <2>1, CapAssumption DEF FillChunk, Room, ThreadType
  <2>4. ThreadType'
    BY <1>3, <2>3 DEF FillChunk, ThreadType
  <2> QED BY <1>2, <1>3, <2>2, <2>4 DEF FillChunk
<1>4. CASE FillDone(d)
  BY <1>2, <1>4 DEF FillDone, ThreadType, KernelType, kernel
<1>5. CASE FillFails(d)
  BY <1>1, <1>2, <1>5, CloseType DEF FillFails, KernelType
<1>6. CASE DrainChunk(d)
  <2>1. /\ Head(buf[d]) \in Nat /\ Tail(buf[d]) \in Seq(Nat)
        /\ Len(Tail(buf[d])) = Len(buf[d]) - 1
    BY <1>6, HeadTailProperties DEF DrainChunk, ThreadType
  <2>2. KernelType'
    BY <1>1, <1>6, <2>1 DEF DrainChunk, KernelType
  <2>3. ThreadType'
    BY <1>6, <2>1, CapAssumption DEF DrainChunk, ThreadType
  <2> QED BY <1>2, <1>6, <2>2, <2>3 DEF DrainChunk
<1>7. CASE DrainDone(d)
  BY <1>2, <1>7 DEF DrainDone, ThreadType, KernelType, kernel
<1>8. CASE DrainFails(d)
  BY <1>1, <1>2, <1>8, CloseType DEF DrainFails, KernelType
<1> QED BY <1>3, <1>4, <1>5, <1>6, <1>7, <1>8 DEF Round

\* Every step keeps the types.
LEMMA TypeStep == QueuesBounded /\ Control /\ [Next]_vars => QueuesBounded'
<1>1. QueuesBounded /\ UNCHANGED vars => QueuesBounded'
  BY DEF QueuesBounded, ThreadType, KernelType, EndsType, vars, thread, kernel, ends
<1> QED BY <1>1, PeersType, LoopType, RoundType DEF Next, Thread

-----------------------------------------------------------------------------
(***************************************************************************)
(* Where the thread is, and the backlog.                                   *)
(***************************************************************************)

\* Dropping the streams leaves no connection joined.
LEMMA CloseControl ==
  ASSUME QueuesBounded, Control, pc # "accept", NEW label \in {"done", "cut"}, Close(label)
  PROVE  Control'
<1>1. carried \in Clients /\ link'[carried] = label
  BY DEF Control, QueuesBounded, KernelType, Close
<1>2. \A c \in Clients : link'[c] # "joined"
  BY <1>1 DEF Control, QueuesBounded, KernelType, Close
<1> QED BY <1>2 DEF Close, Control

\* Each step leaves the thread where Control says it may be.
LEMMA ControlStep == QueuesBounded /\ Control /\ Queue /\ [Next]_vars => Control'
<1> SUFFICES ASSUME QueuesBounded, Control, Queue, [Next]_vars PROVE Control'
  OBVIOUS
<1>1. CASE /\ UNCHANGED <<pc, carried, link>>
           /\ pc \in {"accept", "connect"} => UNCHANGED <<buf, sends>>
  BY <1>1 DEF Control
<1>2. ASSUME NEW c \in Clients, Dial(c) PROVE Control'
  BY <1>2 DEF Dial, Control, QueuesBounded, KernelType
<1>3. CASE Accept
  <2>1. /\ Len(backlog) \in Nat /\ Len(backlog) > 0
        /\ Head(backlog) = backlog[1] /\ Head(backlog) \in Clients
    BY <1>3, HeadTailProperties DEF Accept, QueuesBounded, ThreadType
  <2>2. link[Head(backlog)] = "waiting" /\ Head(backlog) # carried
    BY <2>1 DEF Queue
  <2>3. \A c \in Clients : link[c] # "joined"
    BY <1>3, NoneAssumption DEF Accept, Control
  <2> QED BY <1>3, <2>1, <2>2, <2>3 DEF Accept, Control, kernel
<1>4. CASE Connect
  <2>1. CASE Close("cut")
    BY <1>4, <2>1, CloseControl DEF Connect
  <2>2. CASE ~Close("cut")
    BY <1>4, <2>2 DEF Connect, Control, QueuesBounded, KernelType
  <2> QED BY <2>1, <2>2
<1>5. CASE Return
  BY <1>5, CloseControl DEF Return
<1>6. CASE Expire
  BY <1>6, CloseControl DEF Expire
<1>7. CASE Poll
  BY <1>7 DEF Poll, Control, kernel
<1>8. CASE Ends
  <2>1. CASE Close("cut")
    BY <1>8, <2>1, CloseControl DEF Ends
  <2>2. CASE ~Close("cut")
    BY <1>8, <2>2 DEF Ends, Control
  <2> QED BY <2>1, <2>2
<1>9. ASSUME NEW d \in Dirs, FillFails(d) \/ DrainFails(d) PROVE Control'
  BY <1>9, CloseControl DEF FillFails, DrainFails, Turn
<1>10. ASSUME NEW d \in Dirs, FillChunk(d) \/ FillDone(d) \/ DrainChunk(d) \/ DrainDone(d)
       PROVE  Control'
  BY <1>1, <1>10 DEF FillChunk, FillDone, DrainChunk, DrainDone, Turn, kernel
<1>11. ASSUME NEW f \in Flows, Write(f) \/ Finish(f) \/ Read(f) \/ ReadEnd(f) \/ Reset(f)
       PROVE  Control'
  BY <1>1, <1>11 DEF Write, Finish, Read, ReadEnd, Reset, thread, kernel
<1>12. CASE ServiceToggles \/ Tick \/ UNCHANGED vars
  BY <1>1, <1>12 DEF ServiceToggles, Tick, vars, thread, kernel
<1> QED
  BY <1>2, <1>3, <1>4, <1>5, <1>6, <1>7, <1>8, <1>9, <1>10, <1>11, <1>12
  DEF Next, Thread, Peers, Round

\* The backlog keeps each waiting client once, and never the carried one.
LEMMA QueueStep == QueuesBounded /\ Control /\ Queue /\ [Next]_vars => Queue'
<1> SUFFICES ASSUME QueuesBounded, Control, Queue, [Next]_vars PROVE Queue'
  OBVIOUS
<1> DEFINE N == 1..Len(backlog)
<1>1. \A i \in N : backlog[i] \in Clients
  BY DEF QueuesBounded, ThreadType
<1>2. CASE UNCHANGED <<backlog, carried, link>>
  BY <1>2 DEF Queue
<1>3. ASSUME NEW c \in Clients, Dial(c) PROVE Queue'
  <2>1. /\ Len(backlog') = Len(backlog) + 1
        /\ \A i \in N : backlog'[i] = backlog[i]
        /\ backlog'[Len(backlog) + 1] = c
    BY <1>3, AppendProperties DEF Dial, QueuesBounded, ThreadType
  <2>2. \A i \in N : backlog[i] # c
    BY <1>3 DEF Dial, Queue
  <2>3. c # carried
    BY <1>3, NoneAssumption DEF Dial, Control, QueuesBounded, ThreadType
  <2>4. link'[c] = "waiting" /\ \A e \in Clients : link[e] = "waiting" => link'[e] = "waiting"
    BY <1>3 DEF Dial, QueuesBounded, KernelType
  <2>5. \A i \in 1..Len(backlog') : i \in N \/ i = Len(backlog) + 1
    BY <2>1 DEF QueuesBounded, ThreadType
  <2> QED BY <1>1, <1>3, <2>1, <2>2, <2>3, <2>4, <2>5 DEF Dial, Queue
<1>4. CASE Accept
  <2>1. /\ Len(Tail(backlog)) = Len(backlog) - 1 /\ Len(backlog) \in Nat \ {0}
        /\ \A i \in 1..Len(Tail(backlog)) : Tail(backlog)[i] = backlog[i + 1]
        /\ Head(backlog) = backlog[1]
    BY <1>4, HeadTailProperties, EmptySeq DEF Accept, QueuesBounded, ThreadType
  <2>2. \A i \in 1..Len(Tail(backlog)) : i + 1 \in N /\ i + 1 # 1 /\ i \in Nat /\ 1 \in N
    BY <2>1
  <2>3. link' = link /\ backlog' = Tail(backlog) /\ carried' = Head(backlog)
    BY <1>4 DEF Accept, kernel
  <2>4. \A i \in 1..Len(backlog') : link'[backlog'[i]] = "waiting" /\ backlog'[i] # carried'
    BY <2>1, <2>2, <2>3 DEF Queue
  <2>5. \A i, j \in 1..Len(backlog') : backlog'[i] = backlog'[j] => i = j
    <3>1. \A i, j \in 1..Len(Tail(backlog)) : backlog[i + 1] = backlog[j + 1] => i + 1 = j + 1
      BY <2>2 DEF Queue
    <3> QED BY <2>1, <2>2, <2>3, <3>1
  <2> QED BY <2>4, <2>5 DEF Queue
<1>5. ASSUME UNCHANGED backlog, pc # "accept",
             \A c \in Clients : c # carried => link'[c] = link[c],
             carried' \in {carried, None}
      PROVE  Queue'
  BY <1>1, <1>5, NoneAssumption DEF Queue
<1>6. CASE Connect \/ Return \/ Expire \/ Ends
  BY <1>2, <1>5, <1>6 DEF Connect, Return, Expire, Ends, Close, QueuesBounded, KernelType
<1>7. ASSUME NEW d \in Dirs, FillFails(d) \/ DrainFails(d) PROVE Queue'
  BY <1>5, <1>7 DEF FillFails, DrainFails, Turn, Close, QueuesBounded, KernelType
<1>8. ASSUME NEW d \in Dirs, FillChunk(d) \/ FillDone(d) \/ DrainChunk(d) \/ DrainDone(d)
      PROVE  Queue'
  BY <1>2, <1>8 DEF FillChunk, FillDone, DrainChunk, DrainDone, kernel
<1>9. ASSUME NEW f \in Flows, Write(f) \/ Finish(f) \/ Read(f) \/ ReadEnd(f) \/ Reset(f)
      PROVE  Queue'
  BY <1>2, <1>9 DEF Write, Finish, Read, ReadEnd, Reset, thread, kernel
<1>10. CASE ServiceToggles \/ Tick \/ Poll \/ UNCHANGED vars
  BY <1>2, <1>10 DEF ServiceToggles, Tick, Poll, vars, thread, kernel
<1> QED
  BY <1>3, <1>4, <1>6, <1>7, <1>8, <1>9, <1>10 DEF Next, Thread, Peers, Round

-----------------------------------------------------------------------------
(***************************************************************************)
(* What the queues of a flow hold.                                         *)
(***************************************************************************)

\* What bailey holds of a flow is one of its two queues, or nothing.
LEMMA HeldType ==
  ASSUME QueuesBounded, NEW f \in Flows
  PROVE  /\ inq[f] \in Seq(Nat) /\ outq[f] \in Seq(Nat) /\ Held(f) \in Seq(Nat)
         /\ f[1] \in Clients /\ f[2] \in Dirs /\ f = <<f[1], f[2]>>
         /\ got[f] \in Nat /\ sent[f] \in Nat
  BY EmptySeq DEF Held, Flows, QueuesBounded, ThreadType, KernelType, EndsType

\* Its stream is one of chunks.
LEMMA StreamType ==
  ASSUME QueuesBounded, NEW f \in Flows
  PROVE  Stream(f) \in Seq(Nat) /\ Len(Stream(f)) \in Nat
<1>1. inq[f] \in Seq(Nat) /\ outq[f] \in Seq(Nat) /\ Held(f) \in Seq(Nat)
  BY HeldType
<1>2. PICK a, b, c \in Seq(Nat) : a = outq[f] /\ b = Held(f) /\ c = inq[f]
  BY <1>1
<1>3. (a \o b) \o c \in Seq(Nat) /\ Len((a \o b) \o c) \in Nat
  OBVIOUS
<1> QED BY <1>2, <1>3 DEF Stream

\* Where nothing is left to write or to be read, the stream is what the
\* kernel holds for the sink.
LEMMA StreamWritten ==
  ASSUME QueuesBounded, NEW f \in Flows, inq[f] = <<>>, Held(f) = <<>>
  PROVE  Stream(f) = outq[f]
  BY HeldType, ConcatEmptySeq DEF Stream

\* Bailey's reads and writes leave every stream as it is.
LEMMA ChunksKeepStream ==
  ASSUME QueuesBounded, Control, NEW d \in Dirs, FillChunk(d) \/ DrainChunk(d), NEW f \in Flows
  PROVE  Stream(f)' = Stream(f)
<1>0. inq[f] \in Seq(Nat) /\ outq[f] \in Seq(Nat) /\ Held(f) \in Seq(Nat)
  BY HeldType
<1>8. PICK S : S = Nat
  OBVIOUS
<1>9. PICK a, b, c \in Seq(S) : a = outq[f] /\ b = Held(f) /\ c = inq[f]
  BY <1>0, <1>8
<1>1. /\ UNCHANGED carried /\ Carried(d) \in Flows /\ carried \in Clients
      /\ Carried(d)[1] = carried /\ Carried(d)[2] = d
  BY CarriedFlow DEF FillChunk, DrainChunk, Turn, Control
<1>2. CASE f # Carried(d)
  <2>1. f[1] = carried => f[2] # d
    BY <1>2, HeldType DEF Carried
  <2>2. inq'[f] = inq[f] /\ outq'[f] = outq[f] /\ (f[1] = carried => buf'[f[2]] = buf[f[2]])
    BY <1>2, <2>1, HeldType DEF FillChunk, DrainChunk, QueuesBounded, ThreadType, KernelType
  <2> QED BY <1>1, <2>2 DEF Stream, Held
<1>3. CASE f = Carried(d) /\ FillChunk(d)
  <2>1. /\ inq[f] # <<>> /\ inq'[f] = Tail(inq[f]) /\ outq' = outq
        /\ buf'[d] = Append(buf[d], Head(inq[f]))
    BY <1>1, <1>3 DEF FillChunk, QueuesBounded, ThreadType, KernelType
  <2>2. Held(f) = buf[d] /\ Held(f)' = buf'[d]
    BY <1>1, <1>3 DEF Held
  <2>3. c # <<>>
    BY <1>9, <2>1
  <2>4. PICK x \in Seq(S), y \in Seq(S) : /\ x = Append(b, Head(c)) /\ y = Tail(c)
                                         /\ x \o y = b \o c
    BY <2>3, FillMoves
  <2>5. Cat(x, y) = Cat(b, c)
    BY <2>4 DEF Cat
  <2>6. Cat(Cat(a, x), y) = Cat(Cat(a, b), c)
    BY <1>8, <2>5, FillKeepsStream
  <2>7. /\ Stream(f)' = Cat(Cat(outq'[f], Held(f)'), inq'[f])
        /\ Stream(f) = Cat(Cat(a, b), c)
    BY <1>9 DEF Stream, Cat
  <2>8. outq'[f] = a /\ Held(f)' = x /\ inq'[f] = y
    BY <1>9, <2>1, <2>2, <2>4
  <2> QED BY <2>6, <2>7, <2>8
<1>4. CASE f = Carried(d) /\ DrainChunk(d)
  <2>1. /\ buf[d] # <<>> /\ outq'[f] = Append(outq[f], Head(buf[d])) /\ inq' = inq
        /\ buf'[d] = Tail(buf[d])
    BY <1>1, <1>4 DEF DrainChunk, QueuesBounded, ThreadType, KernelType
  <2>2. Held(f) = buf[d] /\ Held(f)' = buf'[d]
    BY <1>1, <1>4 DEF Held
  <2>3. (Append(a, Head(b)) \o Tail(b)) \o c = (a \o b) \o c
    <3>1. b # <<>>
      BY <1>9, <2>1, <2>2
    <3> QED BY ONLY <3>1, DrainKeepsStream, a \in Seq(S), b \in Seq(S), c \in Seq(S)
  <2>4. Stream(f)' = (outq'[f] \o Held(f)') \o inq'[f] /\ Stream(f) = (a \o b) \o c
    BY <1>9 DEF Stream
  <2>5. outq'[f] = Append(a, Head(b)) /\ Held(f)' = Tail(b) /\ inq'[f] = c
    BY <1>9, <2>1, <2>2
  <2> QED BY <2>3, <2>4, <2>5
<1> QED BY <1>2, <1>3, <1>4

\* A source's write appends to its stream alone.
LEMMA WriteStream ==
  ASSUME QueuesBounded, NEW f \in Flows, Write(f), NEW g \in Flows
  PROVE  Stream(g)' = IF g = f THEN Append(Stream(f), sent[f] + 1) ELSE Stream(g)
<1>0. inq[f] \in Seq(Nat) /\ outq[f] \in Seq(Nat) /\ Held(f) \in Seq(Nat)
  BY HeldType
<1>9. PICK a, b, c \in Seq(Nat) : a = outq[f] /\ b = Held(f) /\ c = inq[f]
  BY <1>0
<1>1. Held(g)' = Held(g) /\ outq' = outq
  BY DEF Write, thread, Held
<1>2. CASE g # f
  BY <1>1, <1>2 DEF Write, Stream, QueuesBounded, KernelType
<1>3. CASE g = f
  <2>1. inq'[f] = Append(inq[f], sent[f] + 1) /\ sent[f] + 1 \in Nat
    <3>1. inq'[f] = Append(inq[f], sent[f] + 1)
      BY DEF Write, QueuesBounded, KernelType
    <3>2. sent[f] \in Nat
      BY HeldType
    <3> QED BY <3>1, <3>2
  <2>2. PICK x \in Nat : x = sent[f] + 1
    BY <2>1
  <2>3. (a \o b) \o Append(c, x) = Append((a \o b) \o c, x)
    BY WriteAppends
  <2> QED BY <1>9, <1>1, <1>3, <2>1, <2>2, <2>3 DEF Stream
<1> QED BY <1>2, <1>3

\* A sink's read takes the first chunk of its stream.
LEMMA ReadStream ==
  ASSUME QueuesBounded, NEW f \in Flows, Read(f), NEW g \in Flows
  PROVE  /\ Stream(f) # <<>>
         /\ Stream(g)' = IF g = f THEN Tail(Stream(f)) ELSE Stream(g)
<1>0. inq[f] \in Seq(Nat) /\ outq[f] \in Seq(Nat) /\ Held(f) \in Seq(Nat)
  BY HeldType
<1>9. PICK a, b, c \in Seq(Nat) : a = outq[f] /\ b = Held(f) /\ c = inq[f]
  BY <1>0
<1>1. Held(g)' = Held(g) /\ inq' = inq
  BY DEF Read, thread, Held
<1>2. outq[f] # <<>> /\ outq'[f] = Tail(outq[f])
  BY DEF Read, QueuesBounded, KernelType
<1>3. (a \o b) \o c # <<>> /\ Tail((a \o b) \o c) = (Tail(a) \o b) \o c
  <2>1. a # <<>>
    BY <1>9, <1>2
  <2> QED BY <2>1, ReadTakesHead
<1>4. CASE g # f
  BY <1>9, <1>1, <1>3, <1>4 DEF Read, Stream, QueuesBounded, KernelType
<1>5. CASE g = f
  BY <1>9, <1>1, <1>2, <1>3, <1>5 DEF Stream
<1> QED BY <1>4, <1>5

\* Dropping the streams leaves of the carried client's flows what the kernel
\* holds for their sinks, and every other flow as it is.
LEMMA CloseStream ==
  ASSUME QueuesBounded, Control, carried \in Clients, NEW label \in {"done", "cut"},
         Close(label), outq' = outq, NEW f \in Flows
  PROVE  /\ Held(f)' = <<>>
         /\ f[1] # carried => inq'[f] = inq[f] /\ Held(f) = <<>> /\ Stream(f)' = Stream(f)
         /\ f[1] = carried => inq'[f] = <<>> /\ Stream(f)' = outq[f]
<1>1. /\ Held(f)' = <<>>
      /\ f[1] # carried => inq'[f] = inq[f] /\ Held(f) = <<>>
      /\ f[1] = carried => inq'[f] = <<>>
  BY HeldType, NoneAssumption DEF Close, Held
<1>2. (outq[f] \o <<>>) \o <<>> = outq[f]
  BY HeldType, ConcatEmptySeq
<1> QED BY <1>1, <1>2 DEF Stream

\* The end of a shut flow comes behind its last chunk.
LEMMA ShutIsWritten ==
  ASSUME QueuesBounded, Streams, NEW f \in Flows, link[f[1]] # "cut", inq[f] = <<>>, Held(f) = <<>>
  PROVE  got[f] + Len(outq[f]) = sent[f]
  BY StreamWritten DEF Streams

\* Dropping the streams keeps what Streams says of every flow.
LEMMA CloseKeepsStreams ==
  ASSUME QueuesBounded, Control, Streams, carried \in Clients, NEW label \in {"done", "cut"},
         Close(label), UNCHANGED <<outq, fin, sent, got>>,
         shut \subseteq shut', shut' \subseteq Flows,
         \A f \in Flows : f \in shut' \ shut =>
           f \in fin /\ inq[f] = <<>> /\ Held(f) = <<>> /\ link[f[1]] # "cut",
         label = "done" => \A f \in Flows : f[1] = carried => f \in shut
  PROVE  Streams'
<1>1. \A f \in Flows : /\ f[1] # carried => link'[f[1]] = link[f[1]]
                       /\ f[1] = carried => link'[f[1]] = label
  BY HeldType DEF Close, QueuesBounded, KernelType
<1>2. \A f \in Flows : f \in shut' =>
        f \in fin /\ inq[f] = <<>> /\ Held(f) = <<>> /\ got[f] + Len(outq[f]) = sent[f]
  BY ShutIsWritten DEF Streams
<1>3. \A f \in Flows : f \in shut' =>
        /\ f \in fin' /\ inq'[f] = <<>> /\ Held(f)' = <<>>
        /\ got'[f] + Len(outq'[f]) = sent'[f]
  BY <1>2, CloseStream
<1>4. \A f \in Flows : link'[f[1]] # "cut" => got'[f] + Len(Stream(f)') = sent'[f]
  BY <1>1, <1>2, CloseStream DEF Streams
<1>5. \A f \in Flows : link'[f[1]] = "cut" => inq'[f] = <<>> /\ Held(f)' = <<>>
  BY <1>1, CloseStream DEF Streams
<1>6. \A f \in Flows : link'[f[1]] = "done" => f \in shut'
  BY <1>1 DEF Streams
<1>7. pc' = "accept"
  BY DEF Close
<1> QED BY <1>3, <1>4, <1>5, <1>6, <1>7 DEF Streams

\* Each of the ends' steps keeps what Streams says.
LEMMA PeersKeepStreams == QueuesBounded /\ Control /\ Streams /\ Peers => Streams'
<1> SUFFICES ASSUME QueuesBounded, Control, Streams, Peers PROVE Streams'
  OBVIOUS
<1>1. CASE UNCHANGED <<pc, carried, link, inq, outq, buf, sends, shut, fin, sent, got>>
  BY <1>1 DEF Streams, Stream, Held, Delivered, Carried
<1>2. ASSUME NEW c \in Clients, Dial(c) PROVE Streams'
  <2>1. /\ UNCHANGED <<pc, carried, inq, outq, buf, sends, shut, fin, sent, got>>
        /\ link[c] = "none" /\ link'[c] = "waiting"
        /\ \A e \in Clients : e # c => link'[e] = link[e]
    BY <1>2 DEF Dial, ends, QueuesBounded, KernelType
  <2>2. \A f \in Flows : /\ link'[f[1]] = "cut" <=> link[f[1]] = "cut"
                         /\ link'[f[1]] = "done" <=> link[f[1]] = "done"
    BY <2>1, HeldType
  <2> QED BY <2>1, <2>2 DEF Streams, Stream, Held, Delivered, Carried
<1>3. ASSUME NEW f \in Flows, Write(f) PROVE Streams'
  <2>1. /\ UNCHANGED <<pc, carried, link, outq, buf, sends, shut, fin, got>>
        /\ f \notin fin /\ link[f[1]] # "cut" /\ sent'[f] = sent[f] + 1
        /\ \A g \in Flows : g # f => inq'[g] = inq[g] /\ sent'[g] = sent[g]
    BY <1>3 DEF Write, Exists, thread, QueuesBounded, KernelType, EndsType
  <2>2. ASSUME NEW g \in Flows, link[g[1]] # "cut"
        PROVE  got[g] + Len(Stream(g)') = sent'[g]
    <3>1. got[g] + Len(Stream(g)) = sent[g]
      BY <2>2 DEF Streams
    <3>2. CASE g # f
      BY <1>3, <2>1, <3>1, <3>2, WriteStream
    <3>3. CASE g = f
      <4>1. PICK s \in Seq(Nat), n \in Nat, m \in Nat : s = Stream(f) /\ n = got[f] /\ m = sent[f]
        BY HeldType, StreamType
      <4>2. n + Len(s) = m => n + Len(Append(s, m + 1)) = m + 1
        OBVIOUS
      <4>3. Stream(f)' = Append(s, m + 1)
        BY <1>3, <4>1, WriteStream
      <4> QED BY <2>1, <3>1, <3>3, <4>1, <4>2, <4>3
    <3> QED BY <3>2, <3>3
  <2>3. pc \in {"poll", "round"} => \A d \in Dirs : Carried(d) \in Flows
    BY CarriedFlow DEF Control
  <2> QED BY <2>1, <2>2, <2>3 DEF Streams, Held, Delivered, Carried
<1>4. ASSUME NEW f \in Flows, Finish(f) PROVE Streams'
  BY <1>4 DEF Finish, thread, kernel, Streams, Stream, Held, Delivered, Carried
<1>5. ASSUME NEW f \in Flows, Read(f) PROVE Streams'
  <2>1. /\ UNCHANGED <<pc, carried, link, inq, buf, sends, shut, fin, sent>>
        /\ got'[f] = got[f] + 1
        /\ \A g \in Flows : g # f => outq'[g] = outq[g] /\ got'[g] = got[g]
    BY <1>5 DEF Read, thread, QueuesBounded, KernelType, EndsType
  <2>2. ASSUME NEW g \in Flows, link[g[1]] # "cut"
        PROVE  got'[g] + Len(Stream(g)') = sent[g]
    <3>1. got[g] + Len(Stream(g)) = sent[g]
      BY <2>2 DEF Streams
    <3>2. CASE g # f
      BY <1>5, <2>1, <3>1, <3>2, ReadStream
    <3>3. CASE g = f
      <4>1. PICK s \in Seq(Nat), n \in Nat, m \in Nat : s = Stream(f) /\ n = got[f] /\ m = sent[f]
        BY HeldType, StreamType
      <4>2. s # <<>> /\ Stream(f)' = Tail(s)
        BY <1>5, <4>1, ReadStream
      <4>3. n + Len(s) = m => (n + 1) + Len(Tail(s)) = m
        BY <4>2, HeadTailProperties
      <4> QED BY <2>1, <3>1, <3>3, <4>1, <4>2, <4>3
    <3> QED BY <3>2, <3>3
  <2>3. ASSUME NEW g \in Flows, g \in shut PROVE got'[g] + Len(outq'[g]) = sent[g]
    <3>1. got[g] + Len(outq[g]) = sent[g]
      BY <2>3 DEF Streams
    <3>2. CASE g # f
      BY <2>1, <3>1, <3>2
    <3>3. CASE g = f
      <4>1. PICK s \in Seq(Nat), n \in Nat, m \in Nat : s = outq[f] /\ n = got[f] /\ m = sent[f]
        BY HeldType
      <4>2. s # <<>> /\ outq'[f] = Tail(s)
        BY <1>5, <4>1 DEF Read, QueuesBounded, KernelType
      <4>3. n + Len(s) = m => (n + 1) + Len(Tail(s)) = m
        BY <4>2, HeadTailProperties
      <4> QED BY <2>1, <3>1, <3>3, <4>1, <4>2, <4>3
    <3> QED BY <3>2, <3>3
  <2> QED BY <2>1, <2>2, <2>3 DEF Streams, Held, Delivered, Carried
<1>6. ASSUME NEW f \in Flows, ReadEnd(f) \/ Reset(f) PROVE Streams'
  BY <1>1, <1>6 DEF ReadEnd, Reset, thread, kernel
<1>7. CASE ServiceToggles
  BY <1>1, <1>7 DEF ServiceToggles, thread, kernel
<1> QED BY <1>2, <1>3, <1>4, <1>5, <1>6, <1>7 DEF Peers

\* Each of the thread's steps keeps it.
LEMMA ThreadKeepsStreams == QueuesBounded /\ Control /\ Streams /\ (Thread \/ Tick) => Streams'
<1> SUFFICES ASSUME QueuesBounded, Control, Streams, Thread \/ Tick PROVE Streams'
  OBVIOUS
<1>1. pc \in {"poll", "round"} => \A d \in Dirs : /\ Carried(d) \in Flows
                                                 /\ Held(Carried(d)) = buf[d]
                                                 /\ link[Carried(d)[1]] = "joined"
  BY CarriedFlow DEF Control, Held
<1>2. \A f \in Flows : f[1] = carried => f = Carried(f[2]) /\ f[2] \in Dirs
  BY HeldType DEF Carried
<1>3. CASE Accept
  <2>1. /\ UNCHANGED <<link, inq, outq, buf, shut, fin, sent, got>> /\ pc' = "connect"
        /\ \A d \in Dirs : buf[d] = <<>>
    BY <1>3 DEF Accept, kernel, ends, Control
  <2>2. \A f \in Flows : Held(f) = <<>> /\ Held(f)' = <<>>
    BY <2>1, HeldType DEF Held
  <2>3. \A f \in Flows : Stream(f)' = Stream(f)
    BY <2>1, <2>2 DEF Stream
  <2> QED BY <2>1, <2>2, <2>3 DEF Streams
<1>4. CASE Connect
  <2>1. carried \in Clients /\ UNCHANGED <<outq, shut, fin, sent, got>> /\ pc = "connect"
    BY <1>4 DEF Connect, ends, Control
  <2>2. CASE Close("cut")
    BY <2>1, <2>2, CloseKeepsStreams DEF QueuesBounded, KernelType
  <2>3. CASE ~Close("cut")
    <3>1. /\ UNCHANGED <<carried, inq, buf, sends>> /\ pc' = "poll"
          /\ link[carried] = "waiting" /\ link'[carried] = "joined"
          /\ \A c \in Clients : c # carried => link'[c] = link[c]
      BY <1>4, <2>1, <2>3 DEF Connect, Control, QueuesBounded, KernelType
    <3>2. \A f \in Flows : /\ link'[f[1]] = "cut" <=> link[f[1]] = "cut"
                           /\ link'[f[1]] = "done" <=> link[f[1]] = "done"
      BY <3>1, HeldType
    <3>3. \A d \in Dirs : sends[d]
      BY <2>1 DEF Control
    <3> QED BY <2>1, <3>1, <3>2, <3>3 DEF Streams, Stream, Held, Delivered, Carried
  <2> QED BY <2>2, <2>3
<1>5. CASE Return
  <2>1. /\ carried \in Clients /\ UNCHANGED <<outq, shut, fin, sent, got>> /\ pc = "poll"
        /\ Close("done")
    BY <1>5 DEF Return, ends, Control
  <2>2. \A d \in Dirs : Delivered(d)
    BY <1>5, CapAssumption DEF Return, Spent, WantsIn, WantsOut, Delivered, QueuesBounded, ThreadType
  <2>3. \A f \in Flows : f[1] = carried => f \in shut
    BY <1>2, <2>1, <2>2 DEF Streams
  <2> QED BY <2>1, <2>3, CloseKeepsStreams DEF QueuesBounded, KernelType
<1>6. CASE Expire
  <2>1. carried \in Clients /\ UNCHANGED <<outq, shut, fin, sent, got>> /\ Close("cut")
    BY <1>6 DEF Expire, ends, Control
  <2> QED BY <2>1, CloseKeepsStreams DEF QueuesBounded, KernelType
<1>7. CASE Poll \/ Tick
  <2>1. /\ UNCHANGED <<carried, link, inq, outq, buf, sends, shut, fin, sent, got>>
        /\ pc = "poll" /\ pc' \in {"poll", "round"}
    BY <1>7 DEF Poll, Tick, kernel, ends
  <2> QED BY <2>1 DEF Streams, Stream, Held, Delivered, Carried
<1>8. CASE Ends
  <2>1. /\ carried \in Clients /\ UNCHANGED <<outq, fin, sent, got>> /\ pc = "round"
        /\ shut' = shut \cup {Carried(d) : d \in {e \in Dirs : Delivered(e)}}
    BY <1>8 DEF Ends, ends, Control
  <2>2. \A d \in Dirs : Delivered(d) =>
          /\ Carried(d) \in Flows /\ Carried(d) \in fin
          /\ inq[Carried(d)] = <<>> /\ Held(Carried(d)) = <<>>
          /\ link[Carried(d)[1]] # "cut"
    BY <1>1, <2>1 DEF Delivered, Streams
  <2>3. /\ shut \subseteq shut' /\ shut' \subseteq Flows
        /\ \A f \in Flows : f \in shut' \ shut =>
             f \in fin /\ inq[f] = <<>> /\ Held(f) = <<>> /\ link[f[1]] # "cut"
    BY <2>1, <2>2 DEF QueuesBounded, KernelType
  <2>4. CASE Close("cut")
    BY <2>1, <2>3, <2>4, CloseKeepsStreams
  <2>5. CASE ~Close("cut")
    <3>1. UNCHANGED <<carried, buf, sends, link, inq>> /\ pc' = "poll"
      BY <1>8, <2>5 DEF Ends
    <3>2. \A f \in Flows : f \in shut' =>
            f \in fin /\ inq[f] = <<>> /\ Held(f) = <<>> /\ got[f] + Len(outq[f]) = sent[f]
      BY <2>3, ShutIsWritten DEF Streams
    <3>3. \A d \in Dirs : Delivered(d) => Carried(d) \in shut'
      BY <2>1
    <3>4. \A f \in Flows : link[f[1]] = "done" => f \in shut'
      BY <2>3 DEF Streams
    <3> QED BY <2>1, <3>1, <3>2, <3>3, <3>4 DEF Streams, Stream, Held, Delivered, Carried
  <2> QED BY <2>4, <2>5
<1>9. ASSUME NEW d \in Dirs, FillFails(d) \/ DrainFails(d) PROVE Streams'
  <2>1. carried \in Clients /\ UNCHANGED <<outq, shut, fin, sent, got>> /\ Close("cut")
    BY <1>9 DEF FillFails, DrainFails, Turn, ends, Control
  <2> QED BY <2>1, CloseKeepsStreams DEF QueuesBounded, KernelType
<1>10. ASSUME NEW d \in Dirs, FillDone(d) PROVE Streams'
  <2>1. /\ UNCHANGED <<pc, carried, buf, link, inq, outq, shut, fin, sent, got>> /\ pc = "round"
        /\ \A e \in Dirs : e # d => sends'[e] = sends[e]
        /\ ~sends'[d] => Carried(d) \in fin /\ inq[Carried(d)] = <<>>
    BY <1>10 DEF FillDone, Turn, kernel, ends, QueuesBounded, ThreadType
  <2>2. \A e \in Dirs : ~sends'[e] => Carried(e) \in fin /\ inq[Carried(e)] = <<>>
    BY <2>1 DEF Streams
  <2> QED BY <2>1, <2>2 DEF Streams, Stream, Held, Carried
<1>11. ASSUME NEW d \in Dirs, FillChunk(d) \/ DrainChunk(d) PROVE Streams'
  <2> DEFINE f == Carried(d)
  <2>1. /\ UNCHANGED <<pc, carried, sends, link, shut, fin, sent, got>> /\ pc = "round"
        /\ f \in Flows /\ buf[d] = Held(f) /\ f[1] = carried /\ f[2] = d
        /\ link[f[1]] = "joined" /\ carried \in Clients
    BY <1>1, <1>11, CarriedFlow DEF FillChunk, DrainChunk, Turn, ends, Control
  <2>2. inq[f] # <<>> \/ buf[d] # <<>>
    BY <1>11 DEF FillChunk, DrainChunk
  <2>3. \A g \in Flows : g # f => inq'[g] = inq[g] /\ outq'[g] = outq[g] /\ Held(g)' = Held(g)
    BY <1>2, <1>11, <2>1, HeldType
    DEF FillChunk, DrainChunk, Held, QueuesBounded, ThreadType, KernelType
  <2>4. f \notin shut
    BY <2>1, <2>2 DEF Streams
  <2>5. inq[f] = <<>> => inq'[f] = <<>>
    BY <1>11, <2>1 DEF FillChunk, DrainChunk
  <2>6. \A g \in Flows : Stream(g)' = Stream(g)
    BY <1>11, ChunksKeepStream
  <2>7. \A g \in Flows : g \in shut => inq'[g] = <<>> /\ Held(g)' = <<>> /\ outq'[g] = outq[g]
    BY <2>3, <2>4 DEF Streams
  <2>8. \A g \in Flows : link[g[1]] = "cut" => inq'[g] = <<>> /\ Held(g)' = <<>>
    BY <2>1, <2>3 DEF Streams
  <2>9. \A e \in Dirs : ~sends[e] => Carried(e) \in fin /\ inq'[Carried(e)] = <<>>
    BY <1>1, <2>1, <2>3, <2>5 DEF Streams
  <2> QED BY <2>1, <2>6, <2>7, <2>8, <2>9 DEF Streams, Carried
<1>12. ASSUME NEW d \in Dirs, DrainDone(d) PROVE Streams'
  BY <1>12 DEF DrainDone, Turn, kernel, ends, Streams, Stream, Held, Delivered, Carried
<1> QED
  BY <1>3, <1>4, <1>5, <1>6, <1>7, <1>8, <1>9, <1>10, <1>11, <1>12 DEF Thread, Round

-----------------------------------------------------------------------------
(***************************************************************************)
(* The deadline.                                                           *)
(***************************************************************************)

\* Every step keeps the clock true.
LEMMA ClockStep == QueuesBounded /\ Control /\ Clock /\ [Next]_vars => Clock'
<1> SUFFICES ASSUME QueuesBounded, Control, Clock, [Next]_vars PROVE Clock'
  OBVIOUS
<1>1. CASE UNCHANGED <<pc, carried, revents, quiet, moved, reset, still>>
  BY <1>1 DEF Clock
<1>2. ASSUME NEW label \in {"done", "cut"}, Close(label) PROVE Clock'
  BY <1>2 DEF Close, Clock
<1>3. CASE Accept
  BY <1>3 DEF Accept, Clock, ends
<1>4. CASE Connect \/ Return \/ Expire
  BY <1>2, <1>4 DEF Connect, Return, Expire, Clock, ends
<1>5. CASE Poll
  BY <1>5 DEF Poll, Clock, Ready, Failed, ends, kernel
<1>6. CASE Tick
  BY <1>6 DEF Tick, Clock, ends, QueuesBounded, ThreadType
<1>7. CASE Ends
  <2>1. CASE Close("cut")
    BY <1>2, <2>1
  <2>2. CASE ~Close("cut")
    BY <1>7, <2>2 DEF Ends, Clock, ends, QueuesBounded, ThreadType
  <2> QED BY <2>1, <2>2
<1>8. ASSUME NEW d \in Dirs, FillChunk(d) \/ DrainChunk(d) PROVE Clock'
  BY <1>8 DEF FillChunk, DrainChunk, Turn, Clock, ends
<1>9. ASSUME NEW d \in Dirs, FillDone(d) \/ DrainDone(d) PROVE Clock'
  BY <1>9 DEF FillDone, DrainDone, Turn, Clock, ends
<1>10. ASSUME NEW d \in Dirs, FillFails(d) \/ DrainFails(d) PROVE Clock'
  BY <1>2, <1>10 DEF FillFails, DrainFails
<1>11. ASSUME NEW f \in Flows, Reset(f) PROVE Clock'
  BY <1>11 DEF Reset, Clock, thread
<1>12. ASSUME NEW f \in Flows, Write(f) \/ Finish(f) \/ Read(f) \/ ReadEnd(f) PROVE Clock'
  BY <1>1, <1>12 DEF Write, Finish, Read, ReadEnd, thread
<1>13. ASSUME NEW c \in Clients, Dial(c) PROVE Clock'
  BY <1>1, <1>13 DEF Dial, ends
<1>14. CASE ServiceToggles \/ UNCHANGED vars
  BY <1>1, <1>14 DEF ServiceToggles, vars, thread, ends
<1> QED
  BY <1>3, <1>4, <1>5, <1>6, <1>7, <1>8, <1>9, <1>10, <1>11, <1>12, <1>13, <1>14
  DEF Next, Thread, Peers, Round

-----------------------------------------------------------------------------
(***************************************************************************)
(* The theorems.                                                           *)
(***************************************************************************)

\* The initial states satisfy the invariant.
LEMMA InvInit == Init => IInv
<1> SUFFICES ASSUME Init PROVE IInv
  OBVIOUS
<1>1. QueuesBounded
  <2>1. ThreadType
    <3>1. buf \in [Dirs -> Seq(Nat)] /\ \A d \in Dirs : Len(buf[d]) <= HighWater
      BY CapAssumption, EmptySeq DEF Init
    <3>2. backlog \in Seq(Clients)
      BY EmptySeq DEF Init
    <3> QED BY <3>1, <3>2 DEF Init, ThreadType
  <2>2. KernelType /\ EndsType
    BY EmptySeq DEF Init, KernelType, EndsType
  <2> QED BY <2>1, <2>2 DEF Init, QueuesBounded
<1>2. Control
  BY DEF Init, Control
<1>3. Queue
  BY DEF Init, Queue
<1>4. Streams
  <2>1. \A f \in Flows : inq[f] = <<>> /\ outq[f] = <<>> /\ Held(f) = <<>>
    BY <1>1, HeldType DEF Init, Held
  <2>2. \A f \in Flows : Stream(f) = <<>>
    BY <1>1, <2>1, StreamWritten
  <2>3. \A f \in Flows : link[f[1]] = "none" /\ got[f] = 0 /\ sent[f] = 0
    BY <1>1, HeldType DEF Init
  <2> QED BY <2>1, <2>2, <2>3 DEF Init, Streams
<1>5. Clock
  BY DEF Init, Clock
<1> QED BY <1>1, <1>2, <1>3, <1>4, <1>5 DEF IInv

\* Every step keeps it.
LEMMA InvStep == IInv /\ [Next]_vars => IInv'
<1>1. QueuesBounded /\ Control /\ Streams /\ UNCHANGED vars => Streams'
  BY DEF vars, thread, kernel, ends, Streams, Stream, Held, Delivered, Carried
<1>2. QueuesBounded /\ Control /\ Streams /\ [Next]_vars => Streams'
  BY <1>1, PeersKeepStreams, ThreadKeepsStreams DEF Next
<1> QED BY <1>2, TypeStep, ControlStep, QueueStep, ClockStep DEF IInv

\* So it always holds.
LEMMA Invariance == Spec => []IInv
  BY InvInit, InvStep, PTL DEF Spec

\* Every variable keeps its type, and neither of bailey's queues outgrows the
\* high water mark (fill).
THEOREM TypeCorrect == Spec => []QueuesBounded
<1>1. IInv => QueuesBounded
  BY DEF IInv
<1> QED BY Invariance, <1>1, PTL

\* The end of a flow is passed on behind its last chunk, and always passed on
\* before the thread waits again (pump).
THEOREM EndsArePropagated == Spec => []EndsPropagate
<1>1. IInv => EndsPropagate
  BY DEF IInv, Streams, EndsPropagate, QueuesBounded, KernelType
<1> QED BY Invariance, <1>1, PTL

\* No carried connection is cut but for a reset or for a deadline in which no
\* chunk crossed (pump, PUMP_IDLE).
THEOREM CutsHaveCause == Spec => CutForCause
<1> DEFINE Cause(c) == EndsOf(c) \cap reset # {} \/ still >= Idle
           Good == \A c \in Clients : link[c] = "joined" /\ link'[c] = "cut" => Cause(c)
<1>1. IInv /\ [Next]_vars => [Good]_vars
  <2> SUFFICES ASSUME IInv, Next, NEW c \in Clients, link[c] = "joined", link'[c] = "cut"
               PROVE  Cause(c)
    OBVIOUS
  <2> USE DEF IInv
  <2>1. c = carried /\ carried \in Clients /\ pc \in {"poll", "round"}
    BY NoneAssumption DEF Control, QueuesBounded, ThreadType
  <2>2. CASE Expire
    BY <2>2, IdleAssumption DEF Expire, Clock, QueuesBounded, ThreadType
  <2>3. CASE Ends
    <3>1. revents # {} /\ revents \subseteq {<<"error", "up">>}
      BY <2>3, <2>1 DEF Ends, QueuesBounded, KernelType
    <3> QED BY <2>1, <3>1 DEF Clock
  <2>4. ASSUME NEW d \in Dirs, FillFails(d) \/ DrainFails(d) PROVE Cause(c)
    <3>1. Source(Carried(d)) \in EndsOf(c) /\ Sink(Carried(d)) \in EndsOf(c)
      BY <2>1 DEF Source, Sink, Carried, EndsOf
    <3> QED BY <2>4, <3>1 DEF FillFails, DrainFails
  <2>5. CASE Return
    BY <2>1, <2>5 DEF Return, Close, QueuesBounded, KernelType
  <2>6. ASSUME link' = link PROVE FALSE
    BY <2>6
  <2>7. CASE Accept \/ Poll \/ Tick \/ ServiceToggles
    BY <2>6, <2>7 DEF Accept, Poll, Tick, ServiceToggles, kernel
  <2>8. CASE Connect
    BY <2>1, <2>8 DEF Connect
  <2>9. ASSUME NEW d \in Dirs, FillChunk(d) \/ FillDone(d) \/ DrainChunk(d) \/ DrainDone(d)
        PROVE  FALSE
    BY <2>6, <2>9 DEF FillChunk, FillDone, DrainChunk, DrainDone, kernel
  <2>10. ASSUME NEW f \in Flows, Write(f) \/ Finish(f) \/ Read(f) \/ ReadEnd(f) \/ Reset(f)
         PROVE  FALSE
    BY <2>6, <2>10 DEF Write, Finish, Read, ReadEnd, Reset, kernel
  <2>11. ASSUME NEW e \in Clients, Dial(e) PROVE FALSE
    BY <2>11 DEF Dial, QueuesBounded, KernelType
  <2> QED
    BY <2>2, <2>3, <2>4, <2>5, <2>7, <2>8, <2>9, <2>10, <2>11 DEF Next, Thread, Peers, Round
<1> QED BY Invariance, <1>1, PTL DEF Spec, CutForCause

\* Duplex's state, of this one.
Wire   == [f \in Flows |->
             outq[f] \o (IF f[1] = carried THEN buf[f[2]] ELSE <<>>) \o inq[f]]
CutSet == {c \in Clients : link[c] = "cut"}

\* The wire of Duplex is the stream.
LEMMA WireIsStream ==
  /\ DOMAIN Wire = Flows /\ \A f \in Flows : Wire[f] = Stream(f)
  /\ DOMAIN Wire' = Flows /\ \A f \in Flows : Wire'[f] = Stream(f)'
  BY DEF Wire, Stream, Held

\* One flow's part of the wire changes.
LEMMA WireChanges ==
  ASSUME NEW f \in Flows, NEW new,
         \A g \in Flows : Stream(g)' = IF g = f THEN new ELSE Stream(g)
  PROVE  Wire' = [Wire EXCEPT ![f] = new]
<1>1. \A g \in Flows : Wire'[g] = IF g = f THEN new ELSE Wire[g]
  BY WireIsStream
<1>2. Wire = [g \in Flows |-> Wire[g]] /\ Wire' = [g \in Flows |-> Wire'[g]]
  BY DEF Wire
<1> QED BY <1>1, <1>2

\* A step that leaves streams, ends and cuts alone is one Duplex stutters in.
LEMMA Stutter ==
  ASSUME \A f \in Flows : Stream(f)' = Stream(f), UNCHANGED <<fin, eof>>, CutSet' = CutSet
  PROVE  UNCHANGED Carries!vars
<1>1. Wire' = Wire
  BY WireIsStream DEF Wire
<1> QED BY <1>1 DEF Carries!vars, Wire, CutSet

\* Dropping the streams is a cut, or nothing where all was delivered.
LEMMA CloseIsCut ==
  ASSUME IInv, NEW c \in Clients, carried = c, Close("cut"), UNCHANGED <<outq, fin, eof>>
  PROVE  Carries!Cut(c)
<1> USE DEF IInv
<1>1. CutSet' = CutSet \cup {carried}
  BY DEF CutSet, Close, QueuesBounded, KernelType
<1>2. \A f \in Flows : f[1] # carried => Wire'[f] = Wire[f]
  BY WireIsStream, CloseStream
<1>3. ASSUME NEW f \in Flows
      PROVE  /\ Len(Stream(f)') <= Len(Stream(f))
             /\ SubSeq(Stream(f)', 1, Len(Stream(f)')) = SubSeq(Stream(f), 1, Len(Stream(f)'))
  <2>1. CASE f[1] # carried
    <3>1. Stream(f)' = Stream(f)
      BY <2>1, CloseStream
    <3>2. Len(Stream(f)) \in Nat
      BY StreamType
    <3> QED BY <3>1, <3>2
  <2>2. CASE f[1] = carried
    <3>1. Stream(f)' = outq[f]
      BY <2>2, CloseStream
    <3>2. PICK a, b, r \in Seq(Nat) : a = outq[f] /\ b = Held(f) /\ r = inq[f]
      BY HeldType
    <3>3. /\ Len(a) <= Len((a \o b) \o r)
          /\ SubSeq(a, 1, Len(a)) = SubSeq((a \o b) \o r, 1, Len(a))
      BY WrittenIsPrefix
    <3> QED BY <3>1, <3>2, <3>3 DEF Stream
  <2> QED BY <2>1, <2>2
<1>4. \A f \in Flows : /\ Len(Wire'[f]) <= Len(Wire[f])
                       /\ SubSeq(Wire'[f], 1, Len(Wire'[f])) = SubSeq(Wire[f], 1, Len(Wire'[f]))
  BY <1>3, WireIsStream
<1> QED
  BY <1>1, <1>2, <1>4, WireIsStream
  DEF Carries!Cut, Carries!IsPrefix, Carries!Flows, Carries!Dirs, Flows, Dirs, Wire, CutSet

\* The three queues of each flow together implement one stream of Duplex.
THEOREM ForwardIsDuplex == Spec => IsDuplex
<1>1. Init => Carries!Init
  <2> SUFFICES ASSUME Init PROVE Carries!Init
    OBVIOUS
  <2>1. \A f \in Flows : outq[f] \o (IF f[1] = carried THEN buf[f[2]] ELSE <<>>) \o inq[f] = <<>>
    <3>1. QueuesBounded
      BY InvInit DEF IInv
    <3>2. \A f \in Flows : inq[f] = <<>> /\ outq[f] = <<>> /\ Held(f) = <<>>
      BY <3>1, HeldType DEF Init, Held
    <3>3. \A f \in Flows : Stream(f) = <<>>
      BY <3>1, <3>2, StreamWritten
    <3> QED BY <3>3 DEF Stream, Held
  <2> QED BY <2>1 DEF Init, Carries!Init, Carries!Flows, Carries!Dirs, Flows, Dirs
<1>2. IInv /\ [Next]_vars => [Carries!Next]_Carries!vars
  <2> SUFFICES ASSUME IInv, [Next]_vars PROVE Carries!Next \/ UNCHANGED Carries!vars
    OBVIOUS
  <2> USE DEF IInv
  <2> DEFINE Step == Carries!Next \/ UNCHANGED Carries!vars
  <2>1. ASSUME UNCHANGED <<carried, inq, outq, buf, fin, eof>>, CutSet' = CutSet PROVE Step
    <3>1. \A f \in Flows : Stream(f)' = Stream(f)
      BY <2>1 DEF Stream, Held
    <3> QED BY <2>1, <3>1, Stutter
  <2>2. ASSUME carried \in Clients, Close("cut"), UNCHANGED <<outq, fin, eof>> PROVE Step
    <3>1. PICK c \in Clients : carried = c
      BY <2>2
    <3>2. Carries!Cut(c)
      BY <2>2, <3>1, CloseIsCut
    <3> QED BY <3>2 DEF Carries!Next
  <2>3. ASSUME NEW c \in Clients, Dial(c) PROVE Step
    <3>1. CutSet' = CutSet
      BY <2>3 DEF Dial, CutSet, QueuesBounded, KernelType
    <3> QED BY <2>1, <2>3, <3>1 DEF Dial, ends
  <2>4. ASSUME NEW f \in Flows, Write(f) PROVE Step
    <3>1. sent[f] + 1 \in UNION {1..Limit[g] : g \in Flows}
      <4>1. sent[f] \in Nat /\ Limit[f] \in Nat /\ sent[f] < Limit[f]
        BY <2>4, HeldType, BoundsAssumption DEF Write
      <4> QED BY <4>1
    <3>2. Wire' = [Wire EXCEPT ![f] = Append(@, sent[f] + 1)]
      <4>1. \A g \in Flows :
              Stream(g)' = IF g = f THEN Append(Stream(f), sent[f] + 1) ELSE Stream(g)
        BY <2>4, WriteStream
      <4>2. Wire' = [Wire EXCEPT ![f] = Append(Stream(f), sent[f] + 1)]
        BY <4>1, WireChanges
      <4> QED BY <4>2, WireIsStream
    <3>3. CutSet' = CutSet /\ fin' = fin /\ eof' = eof /\ f \notin fin
      BY <2>4 DEF Write, CutSet
    <3>4. PICK b : b = sent[f] + 1
      OBVIOUS
    <3>5. Carries!Send(f, b)
      BY <3>2, <3>3, <3>4 DEF Carries!Send, Wire, CutSet
    <3>6. f \in Carries!Flows
      BY DEF Carries!Flows, Carries!Dirs, Flows, Dirs
    <3>7. b \in UNION {1..Limit[g] : g \in Flows}
      BY <3>1, <3>4
    <3> QED BY <3>6, <3>7, <3>5 DEF Carries!Next
  <2>5. ASSUME NEW f \in Flows, Finish(f) PROVE Step
    <3>1. \A g \in Flows : Stream(g)' = Stream(g)
      BY <2>5 DEF Finish, thread, kernel, Stream, Held
    <3>2. Wire' = Wire
      BY <3>1, WireIsStream DEF Wire
    <3>3. CutSet' = CutSet /\ fin' = fin \cup {f} /\ eof' = eof
      BY <2>5 DEF Finish, CutSet, kernel
    <3>4. Carries!End(f)
      BY <3>2, <3>3 DEF Carries!End, Wire, CutSet
    <3> QED BY <3>4 DEF Carries!Next, Carries!Flows, Carries!Dirs, Flows, Dirs
  <2>6. ASSUME NEW f \in Flows, Read(f) PROVE Step
    <3>1. Wire' = [Wire EXCEPT ![f] = Tail(@)] /\ Wire[f] # <<>>
      <4>1. /\ Stream(f) # <<>>
            /\ \A g \in Flows : Stream(g)' = IF g = f THEN Tail(Stream(f)) ELSE Stream(g)
        BY <2>6, ReadStream
      <4>2. Wire' = [Wire EXCEPT ![f] = Tail(Stream(f))]
        BY <4>1, WireChanges
      <4> QED BY <4>1, <4>2, WireIsStream
    <3>2. CutSet' = CutSet /\ fin' = fin /\ eof' = eof /\ f \notin eof
      BY <2>6 DEF Read, CutSet
    <3>3. Carries!Receive(f)
      BY <3>1, <3>2 DEF Carries!Receive, Wire, CutSet
    <3> QED BY <3>3 DEF Carries!Next, Carries!Flows, Carries!Dirs, Flows, Dirs
  <2>7. ASSUME NEW f \in Flows, ReadEnd(f) PROVE Step
    <3>1. \A g \in Flows : Stream(g)' = Stream(g)
      BY <2>7 DEF ReadEnd, thread, kernel, Stream, Held
    <3>2. Wire' = Wire
      BY <3>1, WireIsStream DEF Wire
    <3>3. inq[f] = <<>> /\ Held(f) = <<>> /\ outq[f] = <<>>
      BY <2>7 DEF ReadEnd, Streams
    <3>4. Wire[f] = <<>>
      BY <3>3, StreamWritten, WireIsStream
    <3>5. f \in fin \/ f[1] \in CutSet
      BY <2>7, HeldType DEF ReadEnd, Streams, CutSet
    <3>6. CutSet' = CutSet /\ fin' = fin /\ eof' = eof \cup {f}
      BY <2>7 DEF ReadEnd, CutSet, kernel
    <3>7. Carries!HearEnd(f)
      BY <3>2, <3>4, <3>5, <3>6 DEF Carries!HearEnd, Wire, CutSet
    <3> QED BY <3>7 DEF Carries!Next, Carries!Flows, Carries!Dirs, Flows, Dirs
  <2>8. ASSUME NEW f \in Flows, Reset(f) PROVE Step
    BY <2>1, <2>8 DEF Reset, thread, kernel, CutSet
  <2>9. CASE ServiceToggles \/ UNCHANGED vars
    BY <2>1, <2>9 DEF ServiceToggles, vars, thread, kernel, ends, CutSet
  <2>10. CASE Accept
    <3>1. \A f \in Flows : Held(f) = <<>> /\ Held(f)' = <<>>
      BY <2>10, HeldType DEF Accept, Held, Control
    <3>2. \A f \in Flows : Stream(f)' = Stream(f)
      BY <2>10, <3>1 DEF Accept, Stream, kernel
    <3> QED BY <2>10, <3>2, Stutter DEF Accept, kernel, ends, CutSet
  <2>11. CASE Connect
    <3>1. carried \in Clients /\ UNCHANGED <<outq, fin, eof>>
      BY <2>11 DEF Connect, ends, Control
    <3>2. CASE Close("cut")
      BY <2>2, <3>1, <3>2
    <3>3. CASE ~Close("cut")
      <4>1. CutSet' = CutSet
        BY <2>11, <3>1, <3>3 DEF Connect, CutSet, Control, QueuesBounded, KernelType
      <4> QED BY <2>1, <2>11, <3>1, <3>3, <4>1 DEF Connect
    <3> QED BY <3>2, <3>3
  <2>12. CASE Return
    <3>1. carried \in Clients /\ UNCHANGED <<outq, fin, eof>> /\ Close("done") /\ pc = "poll"
      BY <2>12 DEF Return, ends, Control
    <3>2. \A d \in Dirs : Delivered(d)
      BY <2>12, CapAssumption DEF Return, Spent, WantsIn, WantsOut, Delivered, QueuesBounded, ThreadType
    <3>3. \A f \in Flows : f[1] = carried => Stream(f) = outq[f]
      <4> SUFFICES ASSUME NEW f \in Flows, f[1] = carried PROVE Stream(f) = outq[f]
        OBVIOUS
      <4>1. f = Carried(f[2]) /\ f[2] \in Dirs
        BY HeldType DEF Carried
      <4>2. inq[f] = <<>> /\ Held(f) = <<>>
        BY <3>1, <3>2, <4>1 DEF Delivered, Streams, Held
      <4> QED BY <4>2, StreamWritten
    <3>4. \A f \in Flows : Stream(f)' = Stream(f)
      BY <3>1, <3>3, CloseStream
    <3>5. CutSet' = CutSet
      BY <3>1 DEF CutSet, Close, Control, QueuesBounded, KernelType
    <3> QED BY <3>1, <3>4, <3>5, Stutter
  <2>13. CASE Poll \/ Tick
    BY <2>1, <2>13 DEF Poll, Tick, kernel, ends, CutSet
  <2>14. CASE Expire
    BY <2>2, <2>14 DEF Expire, ends, Control
  <2>15. CASE Ends
    <3>1. CASE Close("cut")
      BY <2>2, <2>15, <3>1 DEF Ends, ends, Control
    <3>2. CASE ~Close("cut")
      BY <2>1, <2>15, <3>2 DEF Ends, ends, CutSet
    <3> QED BY <3>1, <3>2
  <2>16. ASSUME NEW d \in Dirs, FillChunk(d) \/ DrainChunk(d) PROVE Step
    <3>1. \A f \in Flows : Stream(f)' = Stream(f)
      BY <2>16, ChunksKeepStream
    <3> QED BY <2>16, <3>1, Stutter DEF FillChunk, DrainChunk, ends, CutSet
  <2>17. ASSUME NEW d \in Dirs, FillDone(d) \/ DrainDone(d) PROVE Step
    BY <2>1, <2>17 DEF FillDone, DrainDone, kernel, ends, CutSet
  <2>18. ASSUME NEW d \in Dirs, FillFails(d) \/ DrainFails(d) PROVE Step
    BY <2>2, <2>18 DEF FillFails, DrainFails, Turn, ends, Control
  <2> QED
    BY <2>3, <2>4, <2>5, <2>6, <2>7, <2>8, <2>9, <2>10, <2>11, <2>12, <2>13, <2>14, <2>15,
       <2>16, <2>17, <2>18
    DEF Next, Thread, Peers, Round
<1> QED BY Invariance, <1>1, <1>2, PTL DEF Spec, IsDuplex, Carries!Spec
===============================================================================
