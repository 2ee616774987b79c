-------------------------- MODULE PolicyMergeProofs --------------------------
(***************************************************************************)
(* What a merge means, for any layers in any number.                       *)
(*                                                                         *)
(* GrantsMeanLayers is inductive by itself, given the types: the accumula- *)
(* tor after one more layer is a function of the accumulator before it and *)
(* of the layer, and so is what stands after it.  Of the variables the     *)
(* like holds (VariablesMeanLayers); what is carried across a reset, and   *)
(* what self_fuse does not go with, follow from one layer or one policy.   *)
(***************************************************************************)
EXTENDS PolicyMerge, TLAPS

\* Each part of one layer's merge keeps the accumulator well typed, and the
\* parts after the file system leave its rules alone (apply_layer).
LEMMA ResetTypes ==
  ASSUME NEW a \in Accumulator
  PROVE  /\ Reset(a) \in Accumulator
         /\ Reset(a).filesystem = Nothing /\ Reset(a).denied = {}
BY DEF Reset, Access, Accumulator, Nothing, Nowhere

\* The rules and denials after the layer's grants and denials (apply_layer).
LEMMA FilesystemTypes ==
  ASSUME NEW a \in Accumulator, NEW layer \in Layer
  PROVE  /\ Filesystem(a, layer) \in Accumulator
         /\ Filesystem(a, layer).filesystem =
              [p \in Paths |-> IF p \in layer.deny THEN {}
                               ELSE a.filesystem[p] \union layer.grant[p]]
         /\ Filesystem(a, layer).denied = (a.denied \ Grants(layer)) \union layer.deny
<1> DEFINE rules == [p \in Paths |-> IF p \in layer.deny THEN {}
                                     ELSE a.filesystem[p] \union layer.grant[p]]
           places == [p \in Paths |-> IF layer.at[p] = Unset THEN a.relocated[p]
                                      ELSE layer.at[p]]
           denied == (a.denied \ Grants(layer)) \union layer.deny
           readOnly == a.readOnly \union layer.readOnly
<1>1. rules \in Access
  BY DEF Access, Accumulator, Layer
<1>2. places \in [Paths -> Paths \union {Unset}]
  BY DEF Accumulator, Layer
<1>3. denied \in SUBSET Paths /\ readOnly \in SUBSET Paths
  BY DEF Accumulator, Layer
<1>4. Filesystem(a, layer) =
        [a EXCEPT !.filesystem = rules, !.relocated = places, !.denied = denied,
                  !.readOnly = readOnly]
  BY DEF Filesystem
<1>5. /\ Filesystem(a, layer).filesystem = rules /\ Filesystem(a, layer).denied = denied
  BY <1>4 DEF Accumulator
<1> HIDE DEF rules, places, denied, readOnly
<1>6. Filesystem(a, layer) \in Accumulator
  BY <1>1, <1>2, <1>3, <1>4 DEF Accumulator
<1> QED
  BY <1>5, <1>6 DEF rules, denied

\* Devices, islands, services and the network touch neither.
LEMMA EntriesTypes ==
  ASSUME NEW a \in Accumulator, NEW layer \in Layer
  PROVE  /\ Entries(a, layer) \in Accumulator
         /\ Entries(a, layer).filesystem = a.filesystem
         /\ Entries(a, layer).denied = a.denied
<1> DEFINE devices == [p \in Paths |-> a.devices[p] \union layer.device[p]]
           services == a.services \union layer.service
           forwards == a.forwards \union layer.forward
           egress == IF layer.egress = Unset THEN a.egress ELSE layer.egress
           bind == a.bind \union layer.bind
           selfFuse == IF layer.selfFuse = Unset THEN a.selfFuse ELSE layer.selfFuse
           lists == [a EXCEPT !.devices = devices, !.services = services, !.forwards = forwards]
<1>1. devices \in Access
  BY DEF Access, Accumulator, Layer
<1>2. /\ services \in SUBSET Services /\ forwards \in SUBSET (Ports \X Ports)
      /\ bind \in SUBSET Ports
  BY DEF Accumulator, Layer
<1>3. egress \in Egress \union {Unset} /\ selfFuse \in Switch \union {Unset}
  BY DEF Accumulator, Layer
<1>4. Entries(a, layer) = [lists EXCEPT !.egress = egress, !.bind = bind, !.selfFuse = selfFuse]
  BY DEF Entries
<1> HIDE DEF devices, services, forwards, egress, bind, selfFuse
<1>5. /\ lists \in Accumulator /\ lists.filesystem = a.filesystem /\ lists.denied = a.denied
  BY <1>1, <1>2 DEF Accumulator
<1> HIDE DEF lists
<1> QED
  BY <1>2, <1>3, <1>4, <1>5 DEF Accumulator

\* Nor do variables.
LEMMA VariablesTypes ==
  ASSUME NEW a \in Accumulator, NEW layer \in Layer
  PROVE  /\ Variables(a, layer) \in Accumulator
         /\ Variables(a, layer).filesystem = a.filesystem
         /\ Variables(a, layer).denied = a.denied
<1> DEFINE blank == [a EXCEPT !.pass = {}, !.set = {}, !.envDeny = {}]
           old == IF layer.envReset THEN blank ELSE a
           pass == (old.pass \union layer.pass) \ layer.envDeny
           set == (old.set \union layer.set) \ layer.envDeny
           none == old.envDeny \union layer.envDeny
<1>1. blank \in Accumulator /\ blank.filesystem = a.filesystem /\ blank.denied = a.denied
  BY DEF Accumulator
<1>2. Variables(a, layer) = [old EXCEPT !.pass = pass, !.set = set, !.envDeny = none]
  BY DEF Variables
<1> HIDE DEF blank
<1>3. old \in Accumulator /\ old.filesystem = a.filesystem /\ old.denied = a.denied
  BY <1>1
<1> HIDE DEF old
<1>4. pass \in SUBSET Names /\ set \in SUBSET Names /\ none \in SUBSET Names
  BY <1>3 DEF Accumulator, Layer
<1> HIDE DEF pass, set, none
<1> QED
  BY <1>2, <1>3, <1>4 DEF Accumulator

\* Nor do hooks and the working directory.
LEMMA CommandsTypes ==
  ASSUME NEW a \in Accumulator, NEW layer \in Layer
  PROVE  /\ Commands(a, layer) \in Accumulator
         /\ Commands(a, layer).filesystem = a.filesystem
         /\ Commands(a, layer).denied = a.denied
<1> DEFINE hooks == IF layer.hookReset THEN layer.hooks ELSE a.hooks \o layer.hooks
<1>1. a.hooks \in Seq(Hooks) /\ layer.hooks \in Seq(Hooks)
  BY DEF Accumulator, Layer
<1>2. hooks \in Seq(Hooks)
  BY <1>1
<1>3. Commands(a, layer) = [a EXCEPT !.hooks = hooks]
  BY DEF Commands
<1> HIDE DEF hooks
<1> QED
  BY <1>2, <1>3 DEF Accumulator

\* One layer's whole merge: its types, and what it makes of the rules.
LEMMA MergedTypes ==
  ASSUME NEW a \in Accumulator, NEW layer \in Layer
  PROVE  /\ Merged(a, layer) \in Accumulator
         /\ \A p \in Paths : Merged(a, layer).filesystem[p] =
              IF p \in layer.deny THEN {}
              ELSE (IF layer.reset THEN {} ELSE a.filesystem[p]) \union layer.grant[p]
         /\ Merged(a, layer).denied =
              ((IF layer.reset THEN {} ELSE a.denied) \ Grants(layer)) \union layer.deny
<1> DEFINE base == IF layer.reset THEN Reset(a) ELSE a
           f == Filesystem(base, layer)
           e == Entries(f, layer)
           v == Variables(e, layer)
<1>1. /\ base \in Accumulator
      /\ \A p \in Paths : base.filesystem[p] = IF layer.reset THEN {} ELSE a.filesystem[p]
      /\ base.denied = IF layer.reset THEN {} ELSE a.denied
  BY ResetTypes DEF Nothing
<1> HIDE DEF base
<1>2. /\ f \in Accumulator
      /\ f.filesystem = [p \in Paths |-> IF p \in layer.deny THEN {}
                           ELSE base.filesystem[p] \union layer.grant[p]]
      /\ f.denied = (base.denied \ Grants(layer)) \union layer.deny
  BY <1>1, FilesystemTypes
<1> HIDE DEF f
<1>3. e \in Accumulator /\ e.filesystem = f.filesystem /\ e.denied = f.denied
  BY <1>2, EntriesTypes
<1> HIDE DEF e
<1>4. v \in Accumulator /\ v.filesystem = f.filesystem /\ v.denied = f.denied
  BY <1>3, VariablesTypes
<1> HIDE DEF v
<1>5. Merged(a, layer) = Commands(v, layer)
  BY Zenon DEF Merged, base, f, e, v
<1>6. /\ Merged(a, layer) \in Accumulator
      /\ Merged(a, layer).filesystem = f.filesystem
      /\ Merged(a, layer).denied = f.denied
  BY <1>4, <1>5, CommandsTypes
<1>7. \A p \in Paths : f.filesystem[p] =
        IF p \in layer.deny THEN {} ELSE base.filesystem[p] \union layer.grant[p]
  BY <1>2
<1>8. \A p \in Paths : Merged(a, layer).filesystem[p] =
        IF p \in layer.deny THEN {}
        ELSE (IF layer.reset THEN {} ELSE a.filesystem[p]) \union layer.grant[p]
  BY <1>1, <1>6, <1>7
<1>9. Merged(a, layer).denied =
        ((IF layer.reset THEN {} ELSE a.denied) \ Grants(layer)) \union layer.deny
  BY <1>1, <1>2, <1>6
<1> QED
  BY <1>6, <1>8, <1>9

\* The policy is an accumulator with its egress decided (finalize).
LEMMA PolicyTypes ==
  ASSUME NEW a \in Accumulator
  PROVE  /\ Policy(a) \in Accumulator /\ Policy(a).egress # Unset
         /\ Policy(a).filesystem = a.filesystem /\ Policy(a).denied = a.denied
BY PathAssumption, UnsetAssumption DEF Policy, Access, Rights, Accumulator, Egress

\* The merge is well typed, whatever the layers (Accumulator, Resolved).
THEOREM TypeCorrect == Spec => []TypeOK
<1>1. Init => TypeOK
  BY LayerAssumption DEF Init, Access, TypeOK, Empty, Accumulator, Nothing, Nowhere
<1>2. TypeOK /\ [Next]_vars => TypeOK'
  <2> SUFFICES ASSUME TypeOK, [Next]_vars PROVE TypeOK'
    OBVIOUS
  <2>1. CASE ApplyLayer
    <3> PICK layer \in Layers :
          \/ outcome' = "refused" /\ UNCHANGED <<layers, acc>>
          \/ /\ layers' = Append(layers, layer)
             /\ acc' = Merged(acc, layer)
             /\ UNCHANGED outcome
      BY <2>1 DEF ApplyLayer
    <3>1. CASE outcome' = "refused" /\ UNCHANGED <<layers, acc>>
      BY <3>1 DEF TypeOK
    <3>2. CASE layers' = Append(layers, layer) /\ acc' = Merged(acc, layer) /\ UNCHANGED outcome
      <4>1. acc' \in Accumulator
        BY <3>2, MergedTypes, LayerAssumption DEF TypeOK
      <4>2. layers' \in Seq(Layers) /\ Len(layers') <= MaxLayers
        BY <2>1, <3>2, LayerAssumption DEF TypeOK, ApplyLayer
      <4>3. outcome = "merging"
        BY <2>1 DEF ApplyLayer
      <4> QED
        BY <3>2, <4>1, <4>2, <4>3 DEF TypeOK
    <3> QED
      BY <3>1, <3>2
  <2>2. CASE Finalize
    <3>1. CASE UNCHANGED acc /\ outcome' = "refused"
      BY <2>2, <3>1 DEF Finalize, TypeOK
    <3>2. CASE acc' = Policy(acc) /\ outcome' = "resolved"
      BY <2>2, <3>2, PolicyTypes DEF Finalize, TypeOK
    <3> QED
      BY <2>2, <3>1, <3>2 DEF Finalize
  <2>3. CASE UNCHANGED vars
    BY <2>3 DEF vars, TypeOK
  <2> QED
    BY <2>1, <2>2, <2>3 DEF Next
<1> QED
  BY <1>1, <1>2, PTL DEF Spec

\* What stands after one more layer, from what stood before it.
LEMMA StandsNext ==
  ASSUME layers \in Seq(Layers), NEW layer \in Layers, layers' = Append(layers, layer),
         NEW p \in Paths, NEW r \in Rights
  PROVE  Stands(p, r)' <=>
           p \notin layer.deny /\ (r \in layer.grant[p] \/ (~layer.reset /\ Stands(p, r)))
<1> DEFINE n == Len(layers)
<1>1. /\ n \in Nat /\ DOMAIN layers = 1..n /\ DOMAIN layers' = 1..(n + 1)
      /\ layers'[n + 1] = layer /\ \A i \in 1..n : layers'[i] = layers[i]
  OBVIOUS
<1> HIDE DEF n
<1>2. ASSUME Stands(p, r)'
      PROVE  p \notin layer.deny /\ (r \in layer.grant[p] \/ (~layer.reset /\ Stands(p, r)))
  <2> PICK i \in 1..(n + 1) :
        /\ r \in layers'[i].grant[p]
        /\ \A j \in 1..(n + 1) : (j >= i => p \notin layers'[j].deny) /\ (j > i => ~layers'[j].reset)
    BY <1>1, <1>2 DEF Stands
  <2>1. p \notin layer.deny
    BY <1>1
  <2>2. CASE i = n + 1
    BY <1>1, <2>1, <2>2
  <2>3. CASE i \in 1..n
    BY <1>1, <2>1, <2>3 DEF Stands
  <2> QED
    BY <1>1, <2>2, <2>3
<1>3. ASSUME p \notin layer.deny, r \in layer.grant[p]
      PROVE  Stands(p, r)'
  BY <1>1, <1>3 DEF Stands
<1>4. ASSUME p \notin layer.deny, ~layer.reset, Stands(p, r)
      PROVE  Stands(p, r)'
  <2> PICK i \in 1..n :
        /\ r \in layers[i].grant[p]
        /\ \A j \in 1..n : (j >= i => p \notin layers[j].deny) /\ (j > i => ~layers[j].reset)
    BY <1>1, <1>4 DEF Stands
  <2>1. \A j \in 1..(n + 1) :
          (j >= i => p \notin layers'[j].deny) /\ (j > i => ~layers'[j].reset)
    BY <1>1, <1>4
  <2>2. i \in 1..(n + 1) /\ r \in layers'[i].grant[p]
    BY <1>1
  <2> QED
    BY <1>1, <2>1, <2>2 DEF Stands
<1> QED
  BY <1>2, <1>3, <1>4

\* What stands denied after one more layer.
LEMMA StandsDeniedNext ==
  ASSUME layers \in Seq(Layers), NEW layer \in Layers, layers' = Append(layers, layer),
         NEW p \in Paths
  PROVE  StandsDenied(p)' <=>
           \/ p \in layer.deny
           \/ ~layer.reset /\ layer.grant[p] = {} /\ StandsDenied(p)
<1> DEFINE n == Len(layers)
<1>1. /\ n \in Nat /\ DOMAIN layers = 1..n /\ DOMAIN layers' = 1..(n + 1)
      /\ layers'[n + 1] = layer /\ \A i \in 1..n : layers'[i] = layers[i]
  OBVIOUS
<1> HIDE DEF n
<1>2. ASSUME StandsDenied(p)', p \notin layer.deny
      PROVE  ~layer.reset /\ layer.grant[p] = {} /\ StandsDenied(p)
  <2> PICK i \in 1..(n + 1) :
        /\ p \in layers'[i].deny
        /\ \A j \in 1..(n + 1) : j > i => ~layers'[j].reset /\ layers'[j].grant[p] = {}
    BY <1>1, <1>2 DEF StandsDenied
  <2>1. i \in 1..n
    BY <1>1, <1>2
  <2> QED
    BY <1>1, <2>1 DEF StandsDenied
<1>3. ASSUME p \in layer.deny PROVE StandsDenied(p)'
  BY <1>1, <1>3 DEF StandsDenied
<1>4. ASSUME ~layer.reset, layer.grant[p] = {}, StandsDenied(p) PROVE StandsDenied(p)'
  <2> PICK i \in 1..n :
        /\ p \in layers[i].deny
        /\ \A j \in 1..n : j > i => ~layers[j].reset /\ layers[j].grant[p] = {}
    BY <1>1, <1>4 DEF StandsDenied
  <2>1. \A j \in 1..(n + 1) : j > i => ~layers'[j].reset /\ layers'[j].grant[p] = {}
    BY <1>1, <1>4
  <2>2. i \in 1..(n + 1) /\ p \in layers'[i].deny
    BY <1>1
  <2> QED
    BY <1>1, <2>1, <2>2 DEF StandsDenied
<1> QED
  BY <1>2, <1>3, <1>4

\* Every policy holds exactly the grants and denials that stand, for any number
\* of layers that grant, deny and reset in any order (merge, apply_layer).
THEOREM MergeMeaning == Spec => []GrantsMeanLayers
<1>1. Init => GrantsMeanLayers
  <2> SUFFICES ASSUME Init PROVE GrantsMeanLayers
    OBVIOUS
  <2>1. DOMAIN layers = {}
    BY DEF Init
  <2>2. \A p \in Paths : acc.filesystem[p] = {} /\ acc.denied = {}
    BY DEF Init, Empty, Nothing
  <2>3. \A p \in Paths : ~StandsDenied(p) /\ \A r \in Rights : ~Stands(p, r)
    BY <2>1 DEF Stands, StandsDenied
  <2> QED
    BY <2>2, <2>3 DEF GrantsMeanLayers
<1>2. TypeOK /\ GrantsMeanLayers /\ [Next]_vars => GrantsMeanLayers'
  <2> SUFFICES ASSUME TypeOK, GrantsMeanLayers, [Next]_vars,
                      NEW p \in Paths
               PROVE  /\ acc'.filesystem[p] = {r \in Rights : Stands(p, r)'}
                      /\ p \in acc'.denied <=> StandsDenied(p)'
    BY DEF GrantsMeanLayers
  <2>1. CASE layers' = layers /\ acc'.filesystem = acc.filesystem /\ acc'.denied = acc.denied
    BY <2>1 DEF GrantsMeanLayers, Stands, StandsDenied
  <2>2. ASSUME NEW layer \in Layers,
               layers' = Append(layers, layer), acc' = Merged(acc, layer)
        PROVE  /\ acc'.filesystem[p] = {r \in Rights : Stands(p, r)'}
               /\ p \in acc'.denied <=> StandsDenied(p)'
    <3>1. layer \in Layer /\ acc \in Accumulator /\ layers \in Seq(Layers)
      BY LayerAssumption DEF TypeOK
    <3>2. /\ acc'.filesystem[p] =
               IF p \in layer.deny THEN {}
               ELSE (IF layer.reset THEN {} ELSE acc.filesystem[p]) \union layer.grant[p]
          /\ acc'.denied =
               ((IF layer.reset THEN {} ELSE acc.denied) \ Grants(layer)) \union layer.deny
      <4> DEFINE m == Merged(acc, layer)
      <4>1. /\ \A q \in Paths : m.filesystem[q] =
                  IF q \in layer.deny THEN {}
                  ELSE (IF layer.reset THEN {} ELSE acc.filesystem[q]) \union layer.grant[q]
            /\ m.denied =
                  ((IF layer.reset THEN {} ELSE acc.denied) \ Grants(layer)) \union layer.deny
        BY <3>1, MergedTypes, Zenon
      <4>2. acc' = m
        BY <2>2
      <4> HIDE DEF m
      <4> QED
        BY <4>1, <4>2
    <3>3. layer.grant[p] \subseteq Rights
      BY <3>1 DEF Access, Layer
    <3>4. \A r \in Rights : Stands(p, r)' <=>
            p \notin layer.deny /\ (r \in layer.grant[p] \/ (~layer.reset /\ Stands(p, r)))
      BY <2>2, <3>1, StandsNext
    <3>5. acc'.filesystem[p] = {r \in Rights : Stands(p, r)'}
      BY <3>2, <3>3, <3>4 DEF GrantsMeanLayers
    <3>6. p \in acc'.denied <=> StandsDenied(p)'
      BY <2>2, <3>1, <3>2, StandsDeniedNext DEF GrantsMeanLayers, Grants
    <3> QED
      BY <3>5, <3>6
  <2>3. CASE ApplyLayer
    BY <2>1, <2>2, <2>3 DEF ApplyLayer
  <2>4. CASE Finalize
    BY <2>1, <2>4, PolicyTypes DEF Finalize, TypeOK
  <2>5. CASE UNCHANGED vars
    BY <2>1, <2>5 DEF vars
  <2> QED
    BY <2>3, <2>4, <2>5 DEF Next
<1> QED
  BY <1>1, <1>2, TypeCorrect, PTL DEF Spec

-----------------------------------------------------------------------------
(* What a merge makes of the other parts of the accumulator.               *)

\* A reset empties what a layer mounts, relays and forwards, and leaves the
\* environment and the switches (apply_layer).
LEMMA ResetFields ==
  ASSUME NEW a \in Accumulator
  PROVE  /\ Reset(a).relocated = Nowhere /\ Reset(a).readOnly = {}
         /\ Reset(a).devices = Nothing
         /\ Reset(a).services = {} /\ Reset(a).forwards = {}
         /\ Reset(a).pass = a.pass /\ Reset(a).set = a.set
         /\ Reset(a).envDeny = a.envDeny
BY DEF Reset, Accumulator

\* The file system's part places paths and keeps some read-only, and leaves the
\* lists and the environment (apply_layer).
LEMMA FilesystemFields ==
  ASSUME NEW a \in Accumulator, NEW layer \in Layer
  PROVE  /\ \A p \in Paths : Filesystem(a, layer).relocated[p] =
               IF layer.at[p] = Unset THEN a.relocated[p] ELSE layer.at[p]
         /\ Filesystem(a, layer).readOnly = a.readOnly \union layer.readOnly
         /\ Filesystem(a, layer).devices = a.devices
         /\ Filesystem(a, layer).services = a.services
         /\ Filesystem(a, layer).forwards = a.forwards
         /\ Filesystem(a, layer).pass = a.pass /\ Filesystem(a, layer).set = a.set
         /\ Filesystem(a, layer).envDeny = a.envDeny
<1> DEFINE rules == [p \in Paths |-> IF p \in layer.deny THEN {}
                                     ELSE a.filesystem[p] \union layer.grant[p]]
           places == [p \in Paths |-> IF layer.at[p] = Unset THEN a.relocated[p]
                                      ELSE layer.at[p]]
           denied == (a.denied \ Grants(layer)) \union layer.deny
           readOnly == a.readOnly \union layer.readOnly
<1>1. Filesystem(a, layer) =
        [a EXCEPT !.filesystem = rules, !.relocated = places, !.denied = denied,
                  !.readOnly = readOnly]
  BY DEF Filesystem
<1> HIDE DEF rules, places, denied, readOnly
<1>2. /\ Filesystem(a, layer).relocated = places /\ Filesystem(a, layer).readOnly = readOnly
      /\ Filesystem(a, layer).devices = a.devices
      /\ Filesystem(a, layer).services = a.services
      /\ Filesystem(a, layer).forwards = a.forwards
      /\ Filesystem(a, layer).pass = a.pass /\ Filesystem(a, layer).set = a.set
      /\ Filesystem(a, layer).envDeny = a.envDeny
  BY <1>1 DEF Accumulator
<1> QED
  BY <1>2 DEF places, readOnly

\* The entries add to the lists, and leave the file system's part and the
\* environment (apply_layer).
LEMMA EntriesFields ==
  ASSUME NEW a \in Accumulator, NEW layer \in Layer
  PROVE  /\ \A p \in Paths :
               Entries(a, layer).devices[p] = a.devices[p] \union layer.device[p]
         /\ Entries(a, layer).services = a.services \union layer.service
         /\ Entries(a, layer).forwards = a.forwards \union layer.forward
         /\ Entries(a, layer).relocated = a.relocated
         /\ Entries(a, layer).readOnly = a.readOnly
         /\ Entries(a, layer).pass = a.pass /\ Entries(a, layer).set = a.set
         /\ Entries(a, layer).envDeny = a.envDeny
<1> DEFINE devices == [p \in Paths |-> a.devices[p] \union layer.device[p]]
           services == a.services \union layer.service
           forwards == a.forwards \union layer.forward
           egress == IF layer.egress = Unset THEN a.egress ELSE layer.egress
           bind == a.bind \union layer.bind
           selfFuse == IF layer.selfFuse = Unset THEN a.selfFuse ELSE layer.selfFuse
           lists == [a EXCEPT !.devices = devices, !.services = services, !.forwards = forwards]
<1>1. Entries(a, layer) = [lists EXCEPT !.egress = egress, !.bind = bind, !.selfFuse = selfFuse]
  BY DEF Entries
<1> HIDE DEF devices, services, forwards, egress, bind, selfFuse
<1>2. /\ lists.devices = devices /\ lists.services = services /\ lists.forwards = forwards
      /\ lists.relocated = a.relocated /\ lists.readOnly = a.readOnly
      /\ lists.pass = a.pass /\ lists.set = a.set /\ lists.envDeny = a.envDeny
  BY DEF Accumulator
<1>3. DOMAIN lists = DOMAIN a
  OBVIOUS
<1> HIDE DEF lists
<1>4. /\ Entries(a, layer).devices = devices
      /\ Entries(a, layer).services = services /\ Entries(a, layer).forwards = forwards
      /\ Entries(a, layer).relocated = a.relocated
      /\ Entries(a, layer).readOnly = a.readOnly
      /\ Entries(a, layer).pass = a.pass /\ Entries(a, layer).set = a.set
      /\ Entries(a, layer).envDeny = a.envDeny
  BY <1>1, <1>2, <1>3 DEF Accumulator
<1> QED
  BY <1>4 DEF devices, services, forwards

\* The variables of a layer, and nothing else (apply_layer).
LEMMA VariablesFields ==
  ASSUME NEW a \in Accumulator, NEW layer \in Layer
  PROVE  /\ Variables(a, layer).pass =
              ((IF layer.envReset THEN {} ELSE a.pass) \union layer.pass) \ layer.envDeny
         /\ Variables(a, layer).set =
              ((IF layer.envReset THEN {} ELSE a.set) \union layer.set) \ layer.envDeny
         /\ Variables(a, layer).envDeny =
              (IF layer.envReset THEN {} ELSE a.envDeny) \union layer.envDeny
         /\ Variables(a, layer).relocated = a.relocated
         /\ Variables(a, layer).readOnly = a.readOnly
         /\ Variables(a, layer).devices = a.devices
         /\ Variables(a, layer).services = a.services
         /\ Variables(a, layer).forwards = a.forwards
<1> DEFINE blank == [a EXCEPT !.pass = {}, !.set = {}, !.envDeny = {}]
           old == IF layer.envReset THEN blank ELSE a
           pass == (old.pass \union layer.pass) \ layer.envDeny
           set == (old.set \union layer.set) \ layer.envDeny
           none == old.envDeny \union layer.envDeny
<1>1. /\ DOMAIN blank = DOMAIN a
      /\ blank.pass = {} /\ blank.set = {} /\ blank.envDeny = {}
      /\ blank.relocated = a.relocated /\ blank.readOnly = a.readOnly
      /\ blank.devices = a.devices /\ blank.services = a.services
      /\ blank.forwards = a.forwards
  BY DEF Accumulator
<1>2. Variables(a, layer) = [old EXCEPT !.pass = pass, !.set = set, !.envDeny = none]
  BY DEF Variables
<1> HIDE DEF blank
<1>3. /\ DOMAIN old = DOMAIN a
      /\ old.pass = IF layer.envReset THEN {} ELSE a.pass
      /\ old.set = IF layer.envReset THEN {} ELSE a.set
      /\ old.envDeny = IF layer.envReset THEN {} ELSE a.envDeny
      /\ old.relocated = a.relocated /\ old.readOnly = a.readOnly
      /\ old.devices = a.devices /\ old.services = a.services /\ old.forwards = a.forwards
  BY <1>1
<1> HIDE DEF old, pass, set, none
<1>4. /\ Variables(a, layer).pass = pass /\ Variables(a, layer).set = set
      /\ Variables(a, layer).envDeny = none
      /\ Variables(a, layer).relocated = old.relocated
      /\ Variables(a, layer).readOnly = old.readOnly
      /\ Variables(a, layer).devices = old.devices
      /\ Variables(a, layer).services = old.services
      /\ Variables(a, layer).forwards = old.forwards
  BY <1>2, <1>3 DEF Accumulator
<1> QED
  BY <1>3, <1>4 DEF pass, set, none

\* One layer's whole merge: what it makes of the lists and of the variables.
LEMMA MergedFields ==
  ASSUME NEW a \in Accumulator, NEW layer \in Layer
  PROVE  LET m == Merged(a, layer) IN
         /\ \A p \in Paths : m.relocated[p] =
              IF layer.at[p] # Unset THEN layer.at[p]
              ELSE IF layer.reset THEN Unset ELSE a.relocated[p]
         /\ \A p \in Paths : m.devices[p] =
              (IF layer.reset THEN {} ELSE a.devices[p]) \union layer.device[p]
         /\ m.readOnly = (IF layer.reset THEN {} ELSE a.readOnly) \union layer.readOnly
         /\ m.services = (IF layer.reset THEN {} ELSE a.services) \union layer.service
         /\ m.forwards = (IF layer.reset THEN {} ELSE a.forwards) \union layer.forward
         /\ m.pass = ((IF layer.envReset THEN {} ELSE a.pass) \union layer.pass) \ layer.envDeny
         /\ m.set = ((IF layer.envReset THEN {} ELSE a.set) \union layer.set) \ layer.envDeny
         /\ m.envDeny = (IF layer.envReset THEN {} ELSE a.envDeny) \union layer.envDeny
<1> DEFINE base == IF layer.reset THEN Reset(a) ELSE a
           f == Filesystem(base, layer)
           e == Entries(f, layer)
           v == Variables(e, layer)
           c == Commands(v, layer)
<1>1. /\ base \in Accumulator
      /\ \A p \in Paths : base.relocated[p] = IF layer.reset THEN Unset ELSE a.relocated[p]
      /\ \A p \in Paths : base.devices[p] = IF layer.reset THEN {} ELSE a.devices[p]
      /\ base.readOnly = IF layer.reset THEN {} ELSE a.readOnly
      /\ base.services = IF layer.reset THEN {} ELSE a.services
      /\ base.forwards = IF layer.reset THEN {} ELSE a.forwards
      /\ base.pass = a.pass /\ base.set = a.set /\ base.envDeny = a.envDeny
  <2>1. CASE layer.reset
    <3>1. base = Reset(a)
      BY <2>1
    <3> HIDE DEF base
    <3> QED
      BY <2>1, <3>1, ResetTypes, ResetFields DEF Nothing, Nowhere
  <2>2. CASE ~layer.reset
    BY <2>2
  <2> QED
    BY <2>1, <2>2
<1> HIDE DEF base
<1>2. /\ f \in Accumulator
      /\ \A p \in Paths : f.relocated[p] =
           IF layer.at[p] = Unset THEN base.relocated[p] ELSE layer.at[p]
      /\ f.readOnly = base.readOnly \union layer.readOnly
      /\ f.devices = base.devices /\ f.services = base.services /\ f.forwards = base.forwards
      /\ f.pass = a.pass /\ f.set = a.set /\ f.envDeny = a.envDeny
  <2>1. f \in Accumulator
    BY <1>1, FilesystemTypes, Zenon
  <2>2. /\ \A p \in Paths : f.relocated[p] =
             IF layer.at[p] = Unset THEN base.relocated[p] ELSE layer.at[p]
        /\ f.readOnly = base.readOnly \union layer.readOnly
        /\ f.devices = base.devices /\ f.services = base.services /\ f.forwards = base.forwards
        /\ f.pass = base.pass /\ f.set = base.set /\ f.envDeny = base.envDeny
    BY <1>1, FilesystemFields, Zenon
  <2> HIDE DEF f
  <2> QED
    BY <1>1, <2>1, <2>2
<1> HIDE DEF f
<1>3. /\ e \in Accumulator
      /\ e.relocated = f.relocated /\ e.readOnly = f.readOnly
      /\ \A p \in Paths : e.devices[p] = f.devices[p] \union layer.device[p]
      /\ e.services = f.services \union layer.service
      /\ e.forwards = f.forwards \union layer.forward
      /\ e.pass = a.pass /\ e.set = a.set /\ e.envDeny = a.envDeny
  BY <1>2, EntriesTypes, EntriesFields
<1> HIDE DEF e
<1>4. /\ v \in Accumulator
      /\ v.relocated = f.relocated /\ v.readOnly = f.readOnly
      /\ v.devices = e.devices /\ v.services = e.services /\ v.forwards = e.forwards
      /\ v.pass = ((IF layer.envReset THEN {} ELSE a.pass) \union layer.pass) \ layer.envDeny
      /\ v.set = ((IF layer.envReset THEN {} ELSE a.set) \union layer.set) \ layer.envDeny
      /\ v.envDeny = (IF layer.envReset THEN {} ELSE a.envDeny) \union layer.envDeny
  BY <1>3, VariablesTypes, VariablesFields
<1> HIDE DEF v
<1>5. /\ c.relocated = v.relocated /\ c.readOnly = v.readOnly /\ c.devices = v.devices
      /\ c.services = v.services /\ c.forwards = v.forwards
      /\ c.pass = v.pass /\ c.set = v.set /\ c.envDeny = v.envDeny
  BY <1>4 DEF Commands, Accumulator
<1> HIDE DEF c
<1>6. Merged(a, layer) = c
  BY Zenon DEF Merged, base, f, e, v, c
<1>7. \A p \in Paths : c.devices[p] =
        (IF layer.reset THEN {} ELSE a.devices[p]) \union layer.device[p]
  <2> TAKE p \in Paths
  <2>1. /\ base.devices[p] = IF layer.reset THEN {} ELSE a.devices[p]
        /\ e.devices[p] = f.devices[p] \union layer.device[p]
    BY <1>1, <1>3
  <2>2. c.devices = e.devices /\ f.devices = base.devices
    BY <1>2, <1>4, <1>5
  <2> QED
    BY <2>1, <2>2
<1>8. \A p \in Paths : c.relocated[p] =
        IF layer.at[p] # Unset THEN layer.at[p]
        ELSE IF layer.reset THEN Unset ELSE a.relocated[p]
  <2> TAKE p \in Paths
  <2>1. /\ base.relocated[p] = IF layer.reset THEN Unset ELSE a.relocated[p]
        /\ f.relocated[p] = IF layer.at[p] = Unset THEN base.relocated[p] ELSE layer.at[p]
    BY <1>1, <1>2
  <2>2. c.relocated = f.relocated
    BY <1>3, <1>4, <1>5
  <2> QED
    BY <2>1, <2>2
<1>9. /\ c.readOnly = (IF layer.reset THEN {} ELSE a.readOnly) \union layer.readOnly
      /\ c.services = (IF layer.reset THEN {} ELSE a.services) \union layer.service
      /\ c.forwards = (IF layer.reset THEN {} ELSE a.forwards) \union layer.forward
  BY <1>1, <1>2, <1>3, <1>4, <1>5
<1> QED
  BY <1>4, <1>5, <1>6, <1>7, <1>8, <1>9

-----------------------------------------------------------------------------
(* What is carried over from one layer to the next.                       *)

\* The layers from the last reset on, after one more.
LEMMA FreshNext ==
  ASSUME layers \in Seq(Layers), NEW layer \in Layers, layers' = Append(layers, layer)
  PROVE  LET n == Len(layers) IN
         /\ n + 1 \in Fresh' /\ layers'[n + 1] = layer
         /\ layer.reset => Fresh' = {n + 1}
         /\ ~layer.reset => Fresh' = Fresh \union {n + 1}
         /\ \A i \in Fresh : layers'[i] = layers[i]
<1> DEFINE n == Len(layers)
<1>1. /\ n \in Nat /\ DOMAIN layers = 1..n /\ DOMAIN layers' = 1..(n + 1)
      /\ layers'[n + 1] = layer /\ \A i \in 1..n : layers'[i] = layers[i]
  OBVIOUS
<1> HIDE DEF n
<1>2. /\ Fresh = {i \in 1..n : \A j \in 1..n : layers[j].reset => j <= i}
      /\ Fresh' = {i \in 1..(n + 1) : \A j \in 1..(n + 1) : layers'[j].reset => j <= i}
  BY <1>1 DEF Fresh
<1>3. n + 1 \in Fresh'
  BY <1>1, <1>2
<1>4. ASSUME layer.reset PROVE Fresh' = {n + 1}
  <2>1. n + 1 \in 1..(n + 1) /\ layers'[n + 1].reset
    BY <1>1, <1>4
  <2>2. \A i \in Fresh' : n + 1 <= i /\ i \in 1..(n + 1)
    BY <1>2, <2>1
  <2>3. \A i \in Fresh' : i = n + 1
    BY <1>1, <2>2
  <2> QED
    BY <1>3, <2>3
<1>5. ASSUME ~layer.reset PROVE Fresh' = Fresh \union {n + 1}
  <2>1. ASSUME NEW i \in Fresh' PROVE i \in Fresh \union {n + 1}
    BY <1>1, <1>2
  <2>2. ASSUME NEW i \in Fresh PROVE i \in Fresh'
    BY <1>1, <1>2, <1>5
  <2> QED
    BY <1>3, <2>1, <2>2
<1>6. \A i \in Fresh : layers'[i] = layers[i]
  BY <1>1, <1>2
<1> QED
  BY <1>1, <1>3, <1>4, <1>5, <1>6 DEF n

\* The layers from the last reset of the environment on, after one more.
LEMMA EnvFreshNext ==
  ASSUME layers \in Seq(Layers), NEW layer \in Layers, layers' = Append(layers, layer)
  PROVE  LET n == Len(layers) IN
         /\ layers'[n + 1] = layer
         /\ layer.envReset => EnvFresh' = {n + 1}
         /\ ~layer.envReset => EnvFresh' = EnvFresh \union {n + 1}
         /\ \A i \in EnvFresh : layers'[i] = layers[i]
<1> DEFINE n == Len(layers)
<1>1. /\ n \in Nat /\ DOMAIN layers = 1..n /\ DOMAIN layers' = 1..(n + 1)
      /\ layers'[n + 1] = layer /\ \A i \in 1..n : layers'[i] = layers[i]
  OBVIOUS
<1> HIDE DEF n
<1>2. /\ EnvFresh = {i \in 1..n : \A j \in 1..n : layers[j].envReset => j <= i}
      /\ EnvFresh' = {i \in 1..(n + 1) : \A j \in 1..(n + 1) : layers'[j].envReset => j <= i}
  BY <1>1 DEF EnvFresh
<1>3. n + 1 \in EnvFresh'
  BY <1>1, <1>2
<1>4. ASSUME layer.envReset PROVE EnvFresh' = {n + 1}
  <2>1. n + 1 \in 1..(n + 1) /\ layers'[n + 1].envReset
    BY <1>1, <1>4
  <2>2. \A i \in EnvFresh' : n + 1 <= i /\ i \in 1..(n + 1)
    BY <1>2, <2>1
  <2>3. \A i \in EnvFresh' : i = n + 1
    BY <1>1, <2>2
  <2> QED
    BY <1>3, <2>3
<1>5. ASSUME ~layer.envReset PROVE EnvFresh' = EnvFresh \union {n + 1}
  <2>1. ASSUME NEW i \in EnvFresh' PROVE i \in EnvFresh \union {n + 1}
    BY <1>1, <1>2
  <2>2. ASSUME NEW i \in EnvFresh PROVE i \in EnvFresh'
    BY <1>1, <1>2, <1>5
  <2> QED
    BY <1>3, <2>1, <2>2
<1>6. \A i \in EnvFresh : layers'[i] = layers[i]
  BY <1>1, <1>2
<1> QED
  BY <1>1, <1>3, <1>4, <1>5, <1>6 DEF n

\* A layer is merged as it is, and the last step decides the switches only.
LEMMA Steps ==
  ASSUME TypeOK, [Next]_vars
  PROVE  \/ UNCHANGED <<layers, acc>>
         \/ /\ outcome' = "resolved" /\ ~Refused(acc)
            /\ UNCHANGED layers /\ acc' = Policy(acc)
         \/ /\ outcome' = "merging"
            /\ \E layer \in Layers : layers' = Append(layers, layer) /\ acc' = Merged(acc, layer)
BY DEF Next, ApplyLayer, Finalize, vars

\* What the last step leaves as it is (finalize).
LEMMA PolicyFields ==
  ASSUME NEW a \in Accumulator
  PROVE  /\ Policy(a).relocated = a.relocated /\ Policy(a).readOnly = a.readOnly
         /\ Policy(a).services = a.services /\ Policy(a).forwards = a.forwards
         /\ Policy(a).pass = a.pass /\ Policy(a).set = a.set
         /\ Policy(a).envDeny = a.envDeny
         /\ Policy(a).selfFuse = a.selfFuse
         /\ Policy(a).egress = IF a.egress = Unset THEN "deny" ELSE a.egress
         /\ \A p \in Paths \ {DevFuse} : Policy(a).devices[p] = a.devices[p]
BY DEF Policy, Accumulator, Access

\* A policy holds of the lists what the layers from the last reset on say.
THEOREM ResetIsWhole == Spec => []CarriedSinceReset
<1>1. Init => CarriedSinceReset
  <2> SUFFICES ASSUME Init PROVE CarriedSinceReset
    OBVIOUS
  <2>1. Fresh = {}
    BY DEF Init, Fresh
  <2>2. /\ \A p \in Paths : acc.relocated[p] = Unset /\ acc.devices[p] = {}
        /\ acc.readOnly = {} /\ acc.services = {} /\ acc.forwards = {}
    BY DEF Init, Empty, Nothing, Nowhere
  <2> QED
    BY <2>1, <2>2 DEF CarriedSinceReset
<1>2. TypeOK /\ CarriedSinceReset /\ [Next]_vars => CarriedSinceReset'
  <2> SUFFICES ASSUME TypeOK, CarriedSinceReset, [Next]_vars PROVE CarriedSinceReset'
    OBVIOUS
  <2>1. CASE UNCHANGED <<layers, acc>>
    BY <2>1 DEF CarriedSinceReset, Fresh
  <2>2. CASE UNCHANGED layers /\ acc' = Policy(acc)
    BY <2>2, PolicyFields DEF CarriedSinceReset, Fresh, TypeOK
  <2>3. ASSUME NEW layer \in Layers, layers' = Append(layers, layer), acc' = Merged(acc, layer)
        PROVE  CarriedSinceReset'
    <3> DEFINE n == Len(layers)
    <3>1. layer \in Layer /\ layers \in Seq(Layers) /\ acc \in Accumulator
      BY LayerAssumption DEF TypeOK
    <3>2. /\ n + 1 \in Fresh' /\ layers'[n + 1] = layer
          /\ layer.reset => Fresh' = {n + 1}
          /\ ~layer.reset => Fresh' = Fresh \union {n + 1}
          /\ \A i \in Fresh : layers'[i] = layers[i]
      BY <2>3, <3>1, FreshNext
    <3> HIDE DEF n
    <3>3. /\ \A p \in Paths : acc'.relocated[p] =
               IF layer.at[p] # Unset THEN layer.at[p]
               ELSE IF layer.reset THEN Unset ELSE acc.relocated[p]
          /\ \A p \in Paths : acc'.devices[p] =
               (IF layer.reset THEN {} ELSE acc.devices[p]) \union layer.device[p]
          /\ acc'.readOnly = (IF layer.reset THEN {} ELSE acc.readOnly) \union layer.readOnly
          /\ acc'.services = (IF layer.reset THEN {} ELSE acc.services) \union layer.service
          /\ acc'.forwards = (IF layer.reset THEN {} ELSE acc.forwards) \union layer.forward
      <4> DEFINE m == Merged(acc, layer)
      <4>1. /\ \A p \in Paths : m.relocated[p] =
                 IF layer.at[p] # Unset THEN layer.at[p]
                 ELSE IF layer.reset THEN Unset ELSE acc.relocated[p]
            /\ \A p \in Paths : m.devices[p] =
                 (IF layer.reset THEN {} ELSE acc.devices[p]) \union layer.device[p]
            /\ m.readOnly = (IF layer.reset THEN {} ELSE acc.readOnly) \union layer.readOnly
            /\ m.services = (IF layer.reset THEN {} ELSE acc.services) \union layer.service
            /\ m.forwards = (IF layer.reset THEN {} ELSE acc.forwards) \union layer.forward
        BY <3>1, MergedFields, Zenon
      <4>2. acc' = m
        BY <2>3
      <4> HIDE DEF m
      <4> QED
        BY <4>1, <4>2
    <3>4. \A p \in Paths : acc'.relocated[p] # Unset =>
            \E i \in Fresh' : layers'[i].at[p] = acc'.relocated[p]
      <4> SUFFICES ASSUME NEW p \in Paths, acc'.relocated[p] # Unset
                   PROVE  \E i \in Fresh' : layers'[i].at[p] = acc'.relocated[p]
        OBVIOUS
      <4>1. CASE layer.at[p] # Unset
        BY <3>2, <3>3, <4>1
      <4>2. CASE layer.at[p] = Unset
        <5>1. ~layer.reset /\ acc'.relocated[p] = acc.relocated[p]
          BY <3>3, <4>2
        <5>2. PICK i \in Fresh : layers[i].at[p] = acc.relocated[p]
          BY <5>1 DEF CarriedSinceReset
        <5> QED
          BY <3>2, <5>1, <5>2
      <4> QED
        BY <4>1, <4>2
    <3>5. CASE layer.reset
      <4>1. Fresh' = {n + 1}
        BY <3>2, <3>5
      <4>2. /\ \A p \in Paths : acc'.devices[p] = layer.device[p]
            /\ acc'.readOnly = layer.readOnly /\ acc'.services = layer.service
            /\ acc'.forwards = layer.forward
        BY <3>3, <3>5
      <4> QED
        BY <3>2, <3>4, <4>1, <4>2 DEF CarriedSinceReset
    <3>6. CASE ~layer.reset
      <4>1. Fresh' = Fresh \union {n + 1}
        BY <3>2, <3>6
      <4>2. /\ \A p \in Paths : acc'.devices[p] = acc.devices[p] \union layer.device[p]
            /\ acc'.readOnly = acc.readOnly \union layer.readOnly
            /\ acc'.services = acc.services \union layer.service
            /\ acc'.forwards = acc.forwards \union layer.forward
        BY <3>3, <3>6
      <4>3. \A p \in Paths \ {DevFuse} :
              acc'.devices[p] = UNION {layers'[i].device[p] : i \in Fresh'}
        BY <3>2, <4>1, <4>2 DEF CarriedSinceReset
      <4>4. acc'.readOnly = UNION {layers'[i].readOnly : i \in Fresh'}
        BY <3>2, <4>1, <4>2 DEF CarriedSinceReset
      <4>5. acc'.services = UNION {layers'[i].service : i \in Fresh'}
        BY <3>2, <4>1, <4>2 DEF CarriedSinceReset
      <4>6. acc'.forwards = UNION {layers'[i].forward : i \in Fresh'}
        BY <3>2, <4>1, <4>2 DEF CarriedSinceReset
      <4> QED
        BY <3>4, <4>3, <4>4, <4>5, <4>6 DEF CarriedSinceReset
    <3> QED
      BY <3>5, <3>6
  <2> QED
    BY <2>1, <2>2, <2>3, Steps
<1> QED
  BY <1>1, <1>2, TypeCorrect, PTL DEF Spec

\* A policy of self-serve FUSE has nothing read-only, all or nothing of egress,
\* and no standing denial beneath a standing grant, by either of its names.
THEOREM SelfFuseIsSound == Spec => []SelfFuseKeepsPromises
<1> DEFINE Apart ==
      outcome = "resolved" /\ acc.selfFuse = "on" =>
        acc.readOnly = {} /\ acc.egress # "some" /\ Concealed(acc) = {}
<1>1. Init => Apart
  BY DEF Init
<1>2. TypeOK /\ Apart /\ [Next]_vars => Apart'
  <2> SUFFICES ASSUME TypeOK, Apart, [Next]_vars PROVE Apart'
    OBVIOUS
  <2>1. CASE UNCHANGED <<layers, acc>>
    <3>1. outcome' = "resolved" => outcome = "resolved" \/ acc' = Policy(acc)
      BY DEF Next, ApplyLayer, Finalize, vars
    <3>2. outcome' = "resolved" /\ outcome # "resolved" => ~Refused(acc)
      BY DEF Next, ApplyLayer, Finalize, vars
    <3> QED
      BY <2>1, <3>2 DEF Refused, Concealed
  <2>2. CASE ~Refused(acc) /\ acc' = Policy(acc)
    <3>1. /\ acc'.readOnly = acc.readOnly /\ acc'.selfFuse = acc.selfFuse
          /\ acc'.egress = IF acc.egress = Unset THEN "deny" ELSE acc.egress
          /\ acc'.denied = acc.denied /\ acc'.filesystem = acc.filesystem
          /\ acc'.relocated = acc.relocated
      BY <2>2, PolicyFields, PolicyTypes DEF TypeOK
    <3>2. Concealed(acc)' = Concealed(acc)
      BY <3>1 DEF Concealed
    <3> QED
      BY <2>2, <3>1, <3>2 DEF Refused
  <2>3. CASE outcome' = "merging"
    BY <2>3
  <2> QED
    BY <2>1, <2>2, <2>3, Steps
<1>3. GrantsMeanLayers /\ Apart => SelfFuseKeepsPromises
  <2> SUFFICES ASSUME GrantsMeanLayers, Apart, outcome = "resolved", acc.selfFuse = "on",
                      NEW p \in Paths, NEW q \in Paths, NEW r \in Rights,
                      Stands(p, r), StandsDenied(q)
               PROVE  <<p, q>> \notin Below /\ <<acc.relocated[p], q>> \notin Below
    BY DEF SelfFuseKeepsPromises
  <2>1. acc.filesystem[p] # {} /\ q \in acc.denied
    BY DEF GrantsMeanLayers
  <2> QED
    BY <2>1 DEF Concealed
<1> QED
  BY <1>1, <1>2, <1>3, TypeCorrect, MergeMeaning, PTL DEF Spec

\* The denials of variables are those of the layers since the environment was
\* reset, and a variable none of them denies is there when one of them says so.
VariablesMeanLayers ==
  \A n \in Names :
    /\ n \in acc.envDeny <=> \E i \in EnvFresh : n \in layers[i].envDeny
    /\ n \notin acc.envDeny =>
         (n \in acc.pass \union acc.set <=>
            \E i \in EnvFresh : n \in layers[i].pass \union layers[i].set)

\* A variable reaches the target when a layer since the environment was reset
\* passes or sets it and none of them denies it, in whatever order.
THEOREM DenialIsLasting == Spec => []DeniedVariableStaysOut
<1>1. Init => VariablesMeanLayers
  <2> SUFFICES ASSUME Init PROVE VariablesMeanLayers
    OBVIOUS
  <2>1. EnvFresh = {} /\ acc.pass = {} /\ acc.set = {} /\ acc.envDeny = {}
    BY DEF Init, EnvFresh, Empty
  <2> QED
    BY <2>1 DEF VariablesMeanLayers
<1>2. TypeOK /\ VariablesMeanLayers /\ [Next]_vars => VariablesMeanLayers'
  <2> SUFFICES ASSUME TypeOK, VariablesMeanLayers, [Next]_vars PROVE VariablesMeanLayers'
    OBVIOUS
  <2>1. CASE UNCHANGED <<layers, acc>>
    BY <2>1 DEF VariablesMeanLayers, EnvFresh
  <2>2. CASE UNCHANGED layers /\ acc' = Policy(acc)
    BY <2>2, PolicyFields DEF VariablesMeanLayers, EnvFresh, TypeOK
  <2>3. ASSUME NEW layer \in Layers, layers' = Append(layers, layer), acc' = Merged(acc, layer)
        PROVE  VariablesMeanLayers'
    <3> DEFINE k == Len(layers) + 1
    <3>1. layer \in Layer /\ layers \in Seq(Layers) /\ acc \in Accumulator
      BY LayerAssumption DEF TypeOK
    <3>2. /\ layers'[k] = layer
          /\ layer.envReset => EnvFresh' = {k}
          /\ ~layer.envReset => EnvFresh' = EnvFresh \union {k}
          /\ \A i \in EnvFresh : layers'[i] = layers[i]
      BY <2>3, <3>1, EnvFreshNext
    <3> HIDE DEF k
    <3>3. /\ acc'.pass =
               ((IF layer.envReset THEN {} ELSE acc.pass) \union layer.pass) \ layer.envDeny
          /\ acc'.set =
               ((IF layer.envReset THEN {} ELSE acc.set) \union layer.set) \ layer.envDeny
          /\ acc'.envDeny = (IF layer.envReset THEN {} ELSE acc.envDeny) \union layer.envDeny
      <4> DEFINE m == Merged(acc, layer)
      <4>1. /\ m.pass =
                 ((IF layer.envReset THEN {} ELSE acc.pass) \union layer.pass) \ layer.envDeny
            /\ m.set =
                 ((IF layer.envReset THEN {} ELSE acc.set) \union layer.set) \ layer.envDeny
            /\ m.envDeny = (IF layer.envReset THEN {} ELSE acc.envDeny) \union layer.envDeny
        BY <3>1, MergedFields, Zenon
      <4>2. acc' = m
        BY <2>3
      <4> HIDE DEF m
      <4> QED
        BY <4>1, <4>2
    <3> SUFFICES ASSUME NEW n \in Names
                 PROVE  /\ n \in acc'.envDeny <=> \E i \in EnvFresh' : n \in layers'[i].envDeny
                        /\ n \notin acc'.envDeny =>
                             (n \in acc'.pass \union acc'.set <=>
                                \E i \in EnvFresh' : n \in layers'[i].pass \union layers'[i].set)
      BY DEF VariablesMeanLayers
    <3>4. CASE layer.envReset
      <4>1. EnvFresh' = {k}
        BY <3>2, <3>4
      <4>2. /\ acc'.pass = layer.pass \ layer.envDeny /\ acc'.set = layer.set \ layer.envDeny
            /\ acc'.envDeny = layer.envDeny
        BY <3>3, <3>4
      <4> QED
        BY <3>2, <4>1, <4>2
    <3>5. CASE ~layer.envReset
      <4>1. EnvFresh' = EnvFresh \union {k}
        BY <3>2, <3>5
      <4>2. /\ acc'.pass = (acc.pass \union layer.pass) \ layer.envDeny
            /\ acc'.set = (acc.set \union layer.set) \ layer.envDeny
            /\ acc'.envDeny = acc.envDeny \union layer.envDeny
        BY <3>3, <3>5
      <4>3. /\ (\E i \in EnvFresh' : n \in layers'[i].envDeny) <=>
                 n \in layer.envDeny \/ \E i \in EnvFresh : n \in layers[i].envDeny
            /\ (\E i \in EnvFresh' : n \in layers'[i].pass \union layers'[i].set) <=>
                 \/ n \in layer.pass \union layer.set
                 \/ \E i \in EnvFresh : n \in layers[i].pass \union layers[i].set
        BY <3>2, <4>1
      <4> QED
        BY <4>2, <4>3 DEF VariablesMeanLayers
    <3> QED
      BY <3>4, <3>5
  <2> QED
    BY <2>1, <2>2, <2>3, Steps
<1>3. VariablesMeanLayers => DeniedVariableStaysOut
  BY DEF VariablesMeanLayers, DeniedVariableStaysOut, Delivered
<1> QED
  BY <1>1, <1>2, <1>3, TypeCorrect, PTL DEF Spec
=============================================================================
