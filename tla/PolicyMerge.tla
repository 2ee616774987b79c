---------------------------- MODULE PolicyMerge ----------------------------
(***************************************************************************)
(* The merge of config layers into a policy, lowest precedence first.      *)
(*                                                                         *)
(* A layer is what one config file asks for, its paths resolved and its    *)
(* values parsed.  The keys of [resources] and `home` are scalars that the *)
(* nearest layer decides, as egress is, and are left out; so is the text   *)
(* of errors, and a value that does not parse is a malformed layer.        *)
(*                                                                         *)
(* Source: crates/bailey/src/config.rs, Accumulator to finalize; the       *)
(* environment a target gets of it, crates/bailey/src/backend/world.rs.    *)
(***************************************************************************)
EXTENDS Naturals, Sequences

CONSTANTS
  Paths, DevFuse, \* paths, and the node of /dev/fuse among them
  Below,          \* pairs of a path and one strictly beneath it
  Names,          \* of environment variables
  Services,       \* [[fuse]] and [[socket]] entries
  Ports,
  Hooks,          \* commands run before or after the target
  Unset,          \* stands for what a layer does not mention
  Layers,         \* bound: the layers there may be
  MaxLayers       \* bound: layers in one merge

Rights == {"read", "write", "execute"}
Access == [Paths -> SUBSET Rights]
Egress == {"deny", "some", "all"}
Switch == {"on", "off"}

Layer ==
  [malformed : BOOLEAN,
   reset : BOOLEAN, grant : Access, at : [Paths -> Paths \union {Unset}],
   deny : SUBSET Paths, readOnly : SUBSET Paths, device : Access,
   service : SUBSET Services, forward : SUBSET (Ports \X Ports),
   egress : Egress \union {Unset}, bind : SUBSET Ports,
   selfFuse : Switch \union {Unset},
   envReset : BOOLEAN, pass : SUBSET Names, set : SUBSET Names, envDeny : SUBSET Names,
   hookReset : BOOLEAN, hooks : Seq(Hooks)]

ASSUME PathAssumption == DevFuse \in Paths /\ Below \subseteq Paths \X Paths
ASSUME UnsetAssumption == Unset \notin Paths \union Egress \union Switch
ASSUME LayerAssumption == Layers \subseteq Layer /\ MaxLayers \in Nat

VARIABLES
  layers,  \* those merged so far
  acc,     \* the Accumulator
  outcome  \* "merging", "refused", or "resolved", when acc is the policy

vars == <<layers, acc, outcome>>

Nothing == [p \in Paths |-> {}]
Nowhere == [p \in Paths |-> Unset]

Accumulator ==
  [filesystem : Access, relocated : [Paths -> Paths \union {Unset}],
   denied : SUBSET Paths, readOnly : SUBSET Paths, devices : Access,
   services : SUBSET Services, forwards : SUBSET (Ports \X Ports),
   egress : Egress \union {Unset}, bind : SUBSET Ports,
   selfFuse : Switch \union {Unset},
   pass : SUBSET Names, set : SUBSET Names, envDeny : SUBSET Names,
   hooks : Seq(Hooks)]

Empty ==
  [filesystem |-> Nothing, relocated |-> Nowhere, denied |-> {}, readOnly |-> {},
   devices |-> Nothing, services |-> {}, forwards |-> {}, egress |-> Unset,
   bind |-> {}, selfFuse |-> Unset, pass |-> {}, set |-> {}, envDeny |-> {},
   hooks |-> <<>>]

Init == layers = <<>> /\ acc = Empty /\ outcome = "merging"

-----------------------------------------------------------------------------
(***************************************************************************)
(* One layer.                                                              *)
(***************************************************************************)
Grants(layer) == {p \in Paths : layer.grant[p] # {}}

\* What a layer is refused for: two paths in one place, a path both granted and
\* denied, a forward on no port, two forwards from one port.
Conflicts(layer) ==
  \/ \E p, q \in Grants(layer) : p # q /\ layer.at[p] = layer.at[q] /\ layer.at[p] # Unset
  \/ Grants(layer) \intersect layer.deny # {}
  \/ \E f \in layer.forward : f[1] = 0
  \/ \E f, g \in layer.forward : f # g /\ f[1] = g[1]

\* Mutant: a reset keeps the placements of lower layers.
ResetButPlaces(a) ==
  [a EXCEPT !.filesystem = Nothing, !.denied = {}, !.readOnly = {},
            !.devices = Nothing, !.services = {}, !.forwards = {}]

\* filesystem.reset: every grant of a lower layer goes, of whatever kind, and
\* what a lower layer said of egress, ports, self_fuse and variables stays.
Reset(a) ==
  [a EXCEPT !.filesystem = Nothing, !.relocated = Nowhere, !.denied = {},
            !.readOnly = {}, !.devices = Nothing, !.services = {}, !.forwards = {}]

\* Mutant: a grant leaves the denial of a lower layer in place.
FilesystemDenied(a, layer) ==
  [a EXCEPT
     !.filesystem = [p \in Paths |->
        IF p \in layer.deny THEN {} ELSE @[p] \union layer.grant[p]],
     !.relocated = [p \in Paths |-> IF layer.at[p] = Unset THEN @[p] ELSE layer.at[p]],
     !.denied = @ \union layer.deny,
     !.readOnly = @ \union layer.readOnly]

\* A grant overrides the denial of a lower layer, and a denial its grants.
Filesystem(a, layer) ==
  [a EXCEPT
     !.filesystem = [p \in Paths |->
        IF p \in layer.deny THEN {} ELSE @[p] \union layer.grant[p]],
     !.relocated = [p \in Paths |-> IF layer.at[p] = Unset THEN @[p] ELSE layer.at[p]],
     !.denied = (@ \ Grants(layer)) \union layer.deny,
     !.readOnly = @ \union layer.readOnly]

\* The lists accumulate, and the nearest layer that sets a switch decides it.
Entries(a, layer) ==
  [a EXCEPT
     !.devices = [p \in Paths |-> @[p] \union layer.device[p]],
     !.services = @ \union layer.service,
     !.forwards = @ \union layer.forward,
     !.egress = IF layer.egress = Unset THEN @ ELSE layer.egress,
     !.bind = @ \union layer.bind,
     !.selfFuse = IF layer.selfFuse = Unset THEN @ ELSE layer.selfFuse]

\* Mutant: a denial only takes back what was passed or set so far.
VariablesTakenBack(a, layer) ==
  LET old == IF layer.envReset THEN [a EXCEPT !.pass = {}, !.set = {}, !.envDeny = {}] ELSE a IN
  [old EXCEPT !.pass = (@ \union layer.pass) \ layer.envDeny,
              !.set = (@ \union layer.set) \ layer.envDeny]

\* A denial takes a variable back, and is remembered.
Variables(a, layer) ==
  LET old == IF layer.envReset THEN [a EXCEPT !.pass = {}, !.set = {}, !.envDeny = {}] ELSE a IN
  [old EXCEPT !.pass = (@ \union layer.pass) \ layer.envDeny,
              !.set = (@ \union layer.set) \ layer.envDeny,
              !.envDeny = @ \union layer.envDeny]

Commands(a, layer) ==
  [a EXCEPT !.hooks = IF layer.hookReset THEN layer.hooks ELSE @ \o layer.hooks]

Merged(a, layer) ==
  LET base == IF layer.reset THEN Reset(a) ELSE a
  IN  Commands(Variables(Entries(Filesystem(base, layer), layer), layer), layer)

ApplyLayer ==
  /\ outcome = "merging" /\ Len(layers) < MaxLayers
  /\ \E layer \in Layers :
       \/ /\ layer.malformed \/ Conflicts(layer)
          /\ outcome' = "refused"
          /\ UNCHANGED <<layers, acc>>
       \/ /\ ~layer.malformed /\ ~Conflicts(layer)
          /\ layers' = Append(layers, layer)
          /\ acc' = Merged(acc, layer)
          /\ UNCHANGED outcome

-----------------------------------------------------------------------------
(***************************************************************************)
(* The whole.  Self-serve FUSE lets the target mount and unmount, so it is *)
(* refused beside what only a mount, or a Landlock rule, holds in place.   *)
(***************************************************************************)

\* Mutant: a grant is only known by its host path.
ConcealedOnHost(a) ==
  {q \in a.denied : \E p \in Paths : a.filesystem[p] # {} /\ <<p, q>> \in Below}

\* Denials beneath a grant, by the path of the host or by the one the target sees.
Concealed(a) ==
  {q \in a.denied : \E p \in Paths :
     a.filesystem[p] # {} /\ (<<p, q>> \in Below \/ <<a.relocated[p], q>> \in Below)}

Refused(a) ==
  a.selfFuse = "on" /\ (a.readOnly # {} \/ Concealed(a) # {} \/ a.egress = "some")

\* Mutant: egress that no layer mentions is left open.
PolicyUnfinished(a) ==
  [a EXCEPT !.devices[DevFuse] = IF a.selfFuse = "on" /\ @ = {} THEN {"read", "write"} ELSE @]

\* The policy: /dev/fuse comes with the switch, and egress is denied unless
\* some layer said otherwise.
Policy(a) ==
  [a EXCEPT !.devices[DevFuse] = IF a.selfFuse = "on" /\ @ = {} THEN {"read", "write"} ELSE @,
            !.egress = IF @ = Unset THEN "deny" ELSE @]

Finalize ==
  /\ outcome = "merging"
  /\ \/ Refused(acc) /\ outcome' = "refused" /\ UNCHANGED acc
     \/ ~Refused(acc) /\ outcome' = "resolved" /\ acc' = Policy(acc)
  /\ UNCHANGED layers

Next == ApplyLayer \/ Finalize

Spec == Init /\ [][Next]_vars

\* What the target's environment may hold of a caller's or a set variable.
Delivered == (acc.pass \union acc.set) \ acc.envDeny

-----------------------------------------------------------------------------
(***************************************************************************)
(* Properties.                                                             *)
(***************************************************************************)

\* The types of the variables (Accumulator).
TypeOK ==
  /\ layers \in Seq(Layers) /\ Len(layers) <= MaxLayers
  /\ acc \in Accumulator
  /\ outcome \in {"merging", "refused", "resolved"}
  /\ outcome = "resolved" => acc.egress # Unset

\* Rights that some layer granted, and no later one reset or denied.
Stands(p, r) ==
  \E i \in DOMAIN layers :
    /\ r \in layers[i].grant[p]
    /\ \A j \in DOMAIN layers :
         /\ j >= i => p \notin layers[j].deny
         /\ j > i => ~layers[j].reset

\* Paths that some layer denied, and no later one reset or granted.
StandsDenied(p) ==
  \E i \in DOMAIN layers :
    /\ p \in layers[i].deny
    /\ \A j \in DOMAIN layers : j > i => ~layers[j].reset /\ layers[j].grant[p] = {}

\* The accumulator holds exactly the grants and the denials that stand, however
\* many layers granted, denied and reset in whatever order (apply_layer).
GrantsMeanLayers ==
  \A p \in Paths :
    /\ acc.filesystem[p] = {r \in Rights : Stands(p, r)}
    /\ p \in acc.denied <=> StandsDenied(p)

\* The layers from the last reset on.
Fresh == {i \in DOMAIN layers : \A j \in DOMAIN layers : layers[j].reset => j <= i}

\* "A profile that means to be the whole of what a run can reach" is: nothing a
\* layer below the last reset placed, granted, mounted, relayed or forwarded is
\* carried over, and everything from there on is (apply_layer).
CarriedSinceReset ==
  /\ \A p \in Paths : acc.relocated[p] # Unset => \E i \in Fresh : layers[i].at[p] = acc.relocated[p]
  /\ \A p \in Paths \ {DevFuse} : acc.devices[p] = UNION {layers[i].device[p] : i \in Fresh}
  /\ acc.readOnly = UNION {layers[i].readOnly : i \in Fresh}
  /\ acc.services = UNION {layers[i].service : i \in Fresh}
  /\ acc.forwards = UNION {layers[i].forward : i \in Fresh}

\* Under self_fuse no standing denial lies beneath a standing grant, by either
\* of its names, nothing is to be kept read-only, and egress is all or nothing,
\* whichever layers the parts came from (finalize).
SelfFuseKeepsPromises ==
  outcome = "resolved" /\ acc.selfFuse = "on" =>
    /\ acc.readOnly = {} /\ acc.egress # "some"
    /\ \A p, q \in Paths, r \in Rights : Stands(p, r) /\ StandsDenied(q) =>
         <<p, q>> \notin Below /\ <<acc.relocated[p], q>> \notin Below

\* The layers from the last reset of the environment on.
EnvFresh == {i \in DOMAIN layers : \A j \in DOMAIN layers : layers[j].envReset => j <= i}

\* The environment differs from the grants: a denied variable stays out whatever
\* other layers pass or set, until one resets it (apply_layer, environment).
DeniedVariableStaysOut ==
  \A n \in Names :
    n \in Delivered <=>
      /\ \E i \in EnvFresh : n \in layers[i].pass \union layers[i].set
      /\ \A i \in EnvFresh : n \notin layers[i].envDeny
=============================================================================
