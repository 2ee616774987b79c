-------------------------------- MODULE Duplex --------------------------------
(***************************************************************************)
(* What a forwarded port promises a target that dials 127.0.0.1:port: the  *)
(* connection is as one made to the host's service directly, or it is cut. *)
(*                                                                         *)
(* A flow is one direction of one client's connection.  What its source    *)
(* sends reaches its sink in order and once; the sink hears the end of the *)
(* flow after the last of it.  A cut may lose what is still on the way,    *)
(* but never the middle of it: what arrives is a prefix of what was sent.  *)
(*                                                                         *)
(* ForwardPump implements this specification.                              *)
(***************************************************************************)
EXTENDS Naturals, Sequences, SequencesExt

CONSTANTS Clients, Data

VARIABLES
  wire,   \* each flow: what was sent and has not arrived
  ended,  \* the flows whose source has stopped sending
  heard,  \* the flows whose sink has heard the end
  cut     \* the clients whose connection was cut

vars == <<wire, ended, heard, cut>>

Dirs  == {"up", "down"}
Flows == Clients \X Dirs

Init ==
  /\ wire = [f \in Flows |-> <<>>]
  /\ ended = {} /\ heard = {} /\ cut = {}

Send(f, b) ==
  /\ f \notin ended
  /\ wire' = [wire EXCEPT ![f] = Append(@, b)]
  /\ UNCHANGED <<ended, heard, cut>>

End(f) ==
  /\ ended' = ended \cup {f}
  /\ UNCHANGED <<wire, heard, cut>>

Receive(f) ==
  /\ wire[f] # <<>> /\ f \notin heard
  /\ wire' = [wire EXCEPT ![f] = Tail(@)]
  /\ UNCHANGED <<ended, heard, cut>>

HearEnd(f) ==
  /\ wire[f] = <<>>
  /\ f \in ended \/ f[1] \in cut
  /\ heard' = heard \cup {f}
  /\ UNCHANGED <<wire, ended, cut>>

\* Only this client's flows lose something, and only from their end.
Cut(c) ==
  /\ cut' = cut \cup {c}
  /\ \A f \in Flows : f[1] # c => wire'[f] = wire[f]
  /\ \A f \in Flows : IsPrefix(wire'[f], wire[f])
  /\ DOMAIN wire' = Flows
  /\ UNCHANGED <<ended, heard>>

Next ==
  \/ \E f \in Flows : \/ \E b \in Data : Send(f, b)
                      \/ End(f) \/ Receive(f) \/ HearEnd(f)
  \/ \E c \in Clients : Cut(c)

Spec == Init /\ [][Next]_vars
===============================================================================
