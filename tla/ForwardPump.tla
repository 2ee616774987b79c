------------------------------ MODULE ForwardPump ------------------------------
(***************************************************************************)
(* One forwarded port: the thread that accepts the target's connections    *)
(* and carries them to the host's service, one at a time.                  *)
(*                                                                         *)
(* A client waits in the listen backlog; the thread accepts it, dials the  *)
(* host afresh and pumps both directions from one loop over poll.  Each    *)
(* direction has three stations: the kernel queue bailey reads (inq), the  *)
(* thread's own queue (buf) and the kernel queue it writes (outq).  What   *)
(* one call of read or write moves is one chunk, numbered at its source.   *)
(* The two ends write, stop writing, read and reset when they like, also   *)
(* between any two system calls of the thread.                             *)
(*                                                                         *)
(* Source: crates/bailey/src/backend/forward.rs, serve, fill, drain, pump. *)
(***************************************************************************)
EXTENDS Naturals, Sequences

CONSTANTS
  Clients, None,  \* connections the target makes; no connection
  HighWater,      \* HIGH_WATER, in chunks
  KernelCap,      \* chunks a socket's queue holds
  Idle,           \* the deadline, in ticks
  Limit,          \* bound: chunks each flow's source sends
  MaxFaults       \* bound: resets, and changes of the service being up

Dirs  == {"up", "down"}       \* to the service, to the client
Flows == Clients \X Dirs

ASSUME NoneAssumption == None \notin Clients
ASSUME CapAssumption == HighWater \in Nat \ {0} /\ KernelCap \in Nat \ {0}
ASSUME IdleAssumption == Idle \in Nat \ {0}
ASSUME BoundsAssumption == Limit \in [Flows -> Nat] /\ MaxFaults \in Nat

VARIABLES
  pc,       \* where the thread is: accept, connect, and pump's poll and round
  carried,  \* the connection it has
  backlog,  \* connections waiting to be accepted
  link,     \* each connection: "none", "waiting", "joined", "done", "cut"
  inq, outq, \* each flow's two kernel queues
  buf,      \* to_service and to_client
  sends,    \* client_sends and service_sends
  revents,  \* what poll reported and the round has yet to handle
  quiet,    \* ticks since last_moved
  moved,
  fin, shut, \* flows whose source, whose relay, has shut down writing
  reset,    \* the ends that reset a connection
  up, faults, \* a host service listens on the port
  sent, got, eof, \* history: chunks sent, read; flows whose sink read the end
  still     \* history: ticks since a chunk last crossed the pump

thread  == <<pc, carried, backlog, buf, sends, revents, quiet, moved>>
kernel  == <<link, inq, outq, shut>>
ends    == <<fin, reset, up, faults, sent, got, eof>>
vars    == <<thread, kernel, ends, still>>

EndsOf(c)  == {<<c, "client">>, <<c, "service">>}
Source(f)  == <<f[1], IF f[2] = "up" THEN "client" ELSE "service">>
Sink(f)    == <<f[1], IF f[2] = "up" THEN "service" ELSE "client">>
Carried(d) == <<carried, d>>

Init ==
  /\ pc = "accept" /\ carried = None /\ backlog = <<>>
  /\ link = [c \in Clients |-> "none"]
  /\ inq = [f \in Flows |-> <<>>] /\ outq = [f \in Flows |-> <<>>]
  /\ buf = [d \in Dirs |-> <<>>] /\ sends = [d \in Dirs |-> TRUE]
  /\ revents = {} /\ quiet = 0 /\ moved = FALSE
  /\ fin = {} /\ shut = {} /\ reset = {}
  /\ up \in BOOLEAN /\ faults = 0
  /\ sent = [f \in Flows |-> 0] /\ got = [f \in Flows |-> 0]
  /\ eof = {} /\ still = 0

-----------------------------------------------------------------------------
(* The two ends of a connection, and the host's service.                   *)

Dial(c) ==
  /\ link[c] = "none"
  /\ link' = [link EXCEPT ![c] = "waiting"]
  /\ backlog' = Append(backlog, c)
  /\ UNCHANGED <<pc, carried, buf, sends, revents, quiet, moved, inq, outq, shut, ends, still>>

\* A client writes as soon as the kernel has completed its connection; the
\* service's end exists once bailey has dialed it.
Exists(f) == link[f[1]] = "joined" \/ (link[f[1]] = "waiting" /\ f[2] = "up")

Write(f) ==
  /\ Exists(f) /\ f \notin fin /\ Source(f) \notin reset
  /\ sent[f] < Limit[f] /\ Len(inq[f]) < KernelCap
  /\ sent' = [sent EXCEPT ![f] = @ + 1]
  /\ inq' = [inq EXCEPT ![f] = Append(@, sent[f] + 1)]
  /\ UNCHANGED <<thread, link, outq, shut, fin, reset, up, faults, got, eof, still>>

Finish(f) ==
  /\ Exists(f) /\ f \notin fin /\ Source(f) \notin reset
  /\ fin' = fin \cup {f}
  /\ UNCHANGED <<thread, kernel, reset, up, faults, sent, got, eof, still>>

Read(f) ==
  /\ outq[f] # <<>> /\ Sink(f) \notin reset /\ f \notin eof
  /\ outq' = [outq EXCEPT ![f] = Tail(@)]
  /\ got' = [got EXCEPT ![f] = @ + 1]
  /\ UNCHANGED <<thread, link, inq, shut, fin, reset, up, faults, sent, eof, still>>

\* A connection that was closed reads as its end once what arrived is read.
ReadEnd(f) ==
  /\ outq[f] = <<>> /\ Sink(f) \notin reset /\ f \notin eof
  /\ f \in shut \/ link[f[1]] = "cut"
  /\ eof' = eof \cup {f}
  /\ UNCHANGED <<thread, kernel, fin, reset, up, faults, sent, got, still>>

Reset(f) ==
  /\ Exists(f) /\ Source(f) \notin reset /\ faults < MaxFaults
  /\ faults' = faults + 1
  /\ reset' = reset \cup {Source(f)}
  /\ UNCHANGED <<thread, kernel, fin, up, sent, got, eof, still>>

ServiceToggles ==
  /\ faults < MaxFaults
  /\ up' = ~up /\ faults' = faults + 1
  /\ UNCHANGED <<thread, kernel, fin, reset, sent, got, eof, still>>

-----------------------------------------------------------------------------
(* The port's thread.                                                      *)

\* Dropping the streams: what bailey has not written is lost, what the
\* kernel took for a sink stays there to be read.
Close(label) ==
  /\ link' = [link EXCEPT ![carried] = label]
  /\ inq' = [f \in Flows |-> IF f[1] = carried THEN <<>> ELSE inq[f]]
  /\ buf' = [d \in Dirs |-> <<>>]
  /\ pc' = "accept" /\ carried' = None
  /\ revents' = {} /\ moved' = FALSE /\ quiet' = 0 /\ still' = 0
  /\ sends' = [d \in Dirs |-> TRUE]

\* acceptor.incoming()
Accept ==
  /\ pc = "accept" /\ backlog # <<>>
  /\ carried' = Head(backlog) /\ backlog' = Tail(backlog)
  /\ pc' = "connect"
  /\ UNCHANGED <<buf, sends, revents, quiet, moved, kernel, ends, still>>

\* The host is dialed afresh; with nobody there the client is just closed.
Connect ==
  /\ pc = "connect"
  /\ \/ /\ up
        /\ pc' = "poll" /\ link' = [link EXCEPT ![carried] = "joined"]
        /\ UNCHANGED <<carried, inq, buf, sends, revents, quiet, moved, still>>
     \/ ~up /\ Close("cut")
  /\ UNCHANGED <<backlog, outq, shut, ends>>

\* The events pump asks of poll.
WantsIn(d)  == sends[d] /\ Len(buf[d]) < HighWater
WantsOut(d) == buf[d] # <<>>
Spent       == \A d \in Dirs : ~WantsIn(d) /\ ~WantsOut(d)

\* The events poll would report now: an error is reported unasked.
Readable(f) == inq[f] # <<>> \/ f \in fin \/ Source(f) \in reset
Writable(f) == Len(outq[f]) < KernelCap \/ Sink(f) \in reset
Failed      == EndsOf(carried) \cap reset # {}
Ready ==
  {<<"in", d>> : d \in {e \in Dirs : WantsIn(e) /\ Readable(Carried(e))}}
    \cup {<<"out", d>> : d \in {e \in Dirs : WantsOut(e) /\ Writable(Carried(e))}}
    \cup (IF Failed THEN {<<"error", "up">>} ELSE {})

\* Both ends are spent and everything read was delivered.
Return ==
  /\ pc = "poll" /\ Spent
  /\ Close("done")
  /\ UNCHANGED <<backlog, outq, shut, ends>>

Poll ==
  /\ pc = "poll" /\ ~Spent /\ quiet < Idle /\ Ready # {}
  /\ revents' = Ready /\ pc' = "round" /\ moved' = FALSE
  /\ UNCHANGED <<carried, backlog, buf, sends, quiet, kernel, ends, still>>

\* Time that matters passes while poll has nothing to report.
Tick ==
  /\ pc = "poll" /\ ~Spent /\ quiet < Idle /\ Ready = {}
  /\ quiet' = quiet + 1 /\ still' = still + 1
  /\ UNCHANGED <<pc, carried, backlog, buf, sends, revents, moved, kernel, ends>>

\* Mutant: poll waits without a deadline.
ExpireNever == FALSE /\ UNCHANGED vars

\* No time is left.
Expire ==
  /\ pc = "poll" /\ ~Spent /\ quiet >= Idle
  /\ Close("cut")
  /\ UNCHANGED <<backlog, outq, shut, ends>>

\* The branches of one round, in their order; revents holds those to come.
Rank(e) == CASE e = <<"in", "up">>    -> 1
             [] e = <<"in", "down">>  -> 2
             [] e = <<"out", "down">> -> 3
             [] e = <<"out", "up">>   -> 4
             [] OTHER                 -> 5

Turn(e) ==
  /\ pc = "round" /\ e \in revents
  /\ \A other \in revents : Rank(e) <= Rank(other)

\* Mutant: fill reads on past the high water mark.
RoomAlways(d) == TRUE

Room(d) == Len(buf[d]) < HighWater

\* fill, one read that returns bytes.
FillChunk(d) ==
  LET f == Carried(d) IN
  /\ Turn(<<"in", d>>) /\ Room(d) /\ inq[f] # <<>>
  /\ buf' = [buf EXCEPT ![d] = Append(@, Head(inq[f]))]
  /\ inq' = [inq EXCEPT ![f] = Tail(@)]
  /\ moved' = TRUE /\ still' = 0
  /\ UNCHANGED <<pc, carried, backlog, sends, revents, quiet, link, outq, shut, ends>>

\* fill returns: at the high water mark, at the end of the flow, or when the
\* read would block.
FillDone(d) ==
  LET f == Carried(d) IN
  /\ Turn(<<"in", d>>)
  /\ ~Room(d) \/ (inq[f] = <<>> /\ Source(f) \notin reset)
  /\ sends' = [sends EXCEPT ![d] = ~(Room(d) /\ f \in fin)]
  /\ revents' = revents \ {<<"in", d>>}
  /\ UNCHANGED <<pc, carried, backlog, buf, quiet, moved, kernel, ends, still>>

FillFails(d) ==
  LET f == Carried(d) IN
  /\ Turn(<<"in", d>>) /\ Room(d) /\ inq[f] = <<>> /\ Source(f) \in reset
  /\ Close("cut")
  /\ UNCHANGED <<backlog, outq, shut, ends>>

\* drain, one write the kernel accepts.
DrainChunk(d) ==
  LET f == Carried(d) IN
  /\ Turn(<<"out", d>>) /\ buf[d] # <<>>
  /\ Len(outq[f]) < KernelCap /\ Sink(f) \notin reset
  /\ outq' = [outq EXCEPT ![f] = Append(@, Head(buf[d]))]
  /\ buf' = [buf EXCEPT ![d] = Tail(@)]
  /\ moved' = TRUE /\ still' = 0
  /\ UNCHANGED <<pc, carried, backlog, sends, revents, quiet, link, inq, shut, ends>>

DrainDone(d) ==
  LET f == Carried(d) IN
  /\ Turn(<<"out", d>>)
  /\ buf[d] = <<>> \/ (Len(outq[f]) >= KernelCap /\ Sink(f) \notin reset)
  /\ revents' = revents \ {<<"out", d>>}
  /\ UNCHANGED <<pc, carried, backlog, buf, sends, quiet, moved, kernel, ends, still>>

DrainFails(d) ==
  /\ Turn(<<"out", d>>) /\ buf[d] # <<>> /\ Sink(Carried(d)) \in reset
  /\ Close("cut")
  /\ UNCHANGED <<backlog, outq, shut, ends>>

\* Mutant: the end is passed on before what was read is written.
DeliveredEarly(d) == ~sends[d]

\* A direction ends when its far end stopped and everything read was written.
Delivered(d) == ~sends[d] /\ buf[d] = <<>>

\* Mutant: the end is only looked at in a round that moved something.
EndsIfMoved ==
  /\ pc = "round" /\ revents \subseteq {<<"error", "up">>}
  /\ shut' = shut \cup {Carried(d) : d \in {e \in Dirs : Delivered(e) /\ moved}}
  /\ \/ revents # {} /\ Close("cut")
     \/ /\ revents = {}
        /\ quiet' = IF moved THEN 0 ELSE quiet
        /\ pc' = "poll" /\ moved' = FALSE
        /\ UNCHANGED <<carried, buf, sends, revents, link, inq, still>>
  /\ UNCHANGED <<backlog, outq, ends>>

\* Mutant: last_moved is never set again, so the deadline is on the age.
EndsOnAge ==
  /\ pc = "round" /\ revents \subseteq {<<"error", "up">>}
  /\ shut' = shut \cup {Carried(d) : d \in {e \in Dirs : Delivered(e)}}
  /\ \/ revents # {} /\ Close("cut")
     \/ /\ revents = {}
        /\ pc' = "poll" /\ moved' = FALSE
        /\ UNCHANGED <<carried, buf, sends, revents, quiet, link, inq, still>>
  /\ UNCHANGED <<backlog, outq, ends>>

Ends ==
  /\ pc = "round" /\ revents \subseteq {<<"error", "up">>}
  /\ shut' = shut \cup {Carried(d) : d \in {e \in Dirs : Delivered(e)}}
  /\ \/ revents # {} /\ Close("cut")
     \/ /\ revents = {}
        /\ quiet' = IF moved THEN 0 ELSE quiet
        /\ pc' = "poll" /\ moved' = FALSE
        /\ UNCHANGED <<carried, buf, sends, revents, link, inq, still>>
  /\ UNCHANGED <<backlog, outq, ends>>

-----------------------------------------------------------------------------
Round(d) ==
  \/ FillChunk(d) \/ FillDone(d) \/ FillFails(d)
  \/ DrainChunk(d) \/ DrainDone(d) \/ DrainFails(d)

Thread ==
  \/ Accept \/ Connect \/ Return \/ Poll \/ Expire \/ Ends
  \/ \E d \in Dirs : Round(d)

Peers ==
  \/ \E c \in Clients : Dial(c)
  \/ \E f \in Flows : Write(f) \/ Finish(f) \/ Read(f) \/ ReadEnd(f) \/ Reset(f)
  \/ ServiceToggles

Next == Thread \/ Tick \/ Peers

Spec == Init /\ [][Next]_vars

\* The kernel runs the thread and time passes; the ends owe nobody anything.
FairSpec == Spec /\ WF_vars(Thread) /\ WF_vars(Tick)

-----------------------------------------------------------------------------
(* Properties                                                              *)

ThreadType ==
  /\ pc \in {"accept", "connect", "poll", "round"}
  /\ carried \in Clients \cup {None} /\ backlog \in Seq(Clients)
  /\ buf \in [Dirs -> Seq(Nat)] /\ \A d \in Dirs : Len(buf[d]) <= HighWater
  /\ sends \in [Dirs -> BOOLEAN]
  /\ revents \subseteq {"in", "out", "error"} \X Dirs
  /\ quiet \in Nat /\ moved \in BOOLEAN

KernelType ==
  /\ link \in [Clients -> {"none", "waiting", "joined", "done", "cut"}]
  /\ inq \in [Flows -> Seq(Nat)] /\ outq \in [Flows -> Seq(Nat)]
  /\ shut \subseteq Flows

EndsType ==
  /\ fin \subseteq Flows /\ eof \subseteq Flows
  /\ reset \subseteq Clients \X {"client", "service"}
  /\ up \in BOOLEAN /\ faults \in Nat
  /\ sent \in [Flows -> Nat] /\ got \in [Flows -> Nat]

\* The types, and that bailey's own queues keep to the high water mark (fill).
QueuesBounded == ThreadType /\ KernelType /\ EndsType /\ still \in Nat

\* An end that is passed on comes behind the last chunk, and it is always
\* passed on: no direction whose source is done and whose queue is written
\* waits for the deadline, and a connection done has told both ends (pump).
EndsPropagate ==
  /\ \A f \in shut : f \in fin /\ got[f] + Len(outq[f]) = sent[f]
  /\ pc = "poll" => \A d \in Dirs : Delivered(d) => Carried(d) \in shut
  /\ \A f \in Flows : link[f[1]] = "done" => f \in shut

\* A carried connection is cut only when one of its ends reset it or when no
\* chunk has crossed for the whole deadline: one that is active never is
\* (pump, PUMP_IDLE).
CutForCause ==
  [][\A c \in Clients : link[c] = "joined" /\ link'[c] = "cut"
       => EndsOf(c) \cap reset # {} \/ still >= Idle]_vars

\* The port carries each connection as a duplex stream would.
Carries == INSTANCE Duplex WITH
  Data  <- UNION {1..Limit[f] : f \in Flows},
  wire  <- [f \in Flows |->
              outq[f] \o (IF f[1] = carried THEN buf[f[2]] ELSE <<>>) \o inq[f]],
  ended <- fin,
  heard <- eof,
  cut   <- {c \in Clients : link[c] = "cut"}
IsDuplex == Carries!Spec

\* A client in the backlog is served or turned away, whoever is before it: a
\* connection gone quiet does not hold the port (serve, PUMP_IDLE).  The
\* chunks of the model are bounded, so each connection goes quiet in the end.
PortIsFreed ==
  \A c \in Clients : link[c] = "waiting" ~> link[c] # "waiting"
===============================================================================
