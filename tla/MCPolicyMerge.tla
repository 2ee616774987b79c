--------------------------- MODULE MCPolicyMerge ---------------------------
(***************************************************************************)
(* PolicyMerge over a directory, a path beneath it, a path elsewhere that  *)
(* may be placed at the directory, and /dev/fuse.  A layer either says     *)
(* something of the filesystem, or one other thing.                        *)
(***************************************************************************)
EXTENDS PolicyMerge, SequencesExt

CONSTANTS top, sub, other, fuse

MCPaths == {top, sub, other, fuse}
MCBelow == {<<top, sub>>}

Silent ==
  [malformed |-> FALSE, reset |-> FALSE, grant |-> Nothing, at |-> Nowhere, deny |-> {},
   readOnly |-> {}, device |-> Nothing, service |-> {}, forward |-> {}, egress |-> Unset,
   bind |-> {}, selfFuse |-> Unset, envReset |-> FALSE, pass |-> {}, set |-> {},
   envDeny |-> {}, hookReset |-> FALSE, hooks |-> <<>>]

\* Each path is granted, denied, or neither, beneath a reset or not.
FilesystemLayers ==
  {[Silent EXCEPT !.reset = again,
       !.grant = [Nothing EXCEPT ![top] = t, ![sub] = s, ![other] = o],
       !.at = IF o = {} THEN Nowhere ELSE [Nowhere EXCEPT ![other] = place],
       !.deny = no] :
     again \in BOOLEAN, t \in {{}, {"read"}, {"write"}}, s \in {{}, {"read"}},
     o \in {{}, {"read"}}, place \in {Unset, top}, no \in {{}, {top}, {sub}}}

\* Layers refused by themselves.
ConflictLayers ==
  {[Silent EXCEPT !.malformed = TRUE],
   [Silent EXCEPT !.grant = [Nothing EXCEPT ![sub] = {"read"}, ![other] = {"read"}],
                  !.at = [Nowhere EXCEPT ![sub] = top, ![other] = top]],
   [Silent EXCEPT !.forward = {<<0, 1>>}],
   [Silent EXCEPT !.forward = {<<1, 1>>, <<1, 2>>}]}

EntryLayers ==
  {[Silent EXCEPT !.readOnly = {sub}],
   [Silent EXCEPT !.device = [Nothing EXCEPT ![top] = {"read"}]],
   [Silent EXCEPT !.device = [Nothing EXCEPT ![fuse] = {"read"}], !.reset = TRUE],
   [Silent EXCEPT !.service = Services], [Silent EXCEPT !.forward = {<<1, 2>>}],
   [Silent EXCEPT !.bind = {1}], [Silent EXCEPT !.egress = "some"],
   [Silent EXCEPT !.egress = "all"], [Silent EXCEPT !.selfFuse = "on"],
   [Silent EXCEPT !.selfFuse = "off"]}

VariableLayers ==
  {[Silent EXCEPT !.envReset = again, !.pass = some, !.envDeny = no] :
     again \in BOOLEAN, some \in {{}, Names}, no \in {{}, Names}}
  \union {[Silent EXCEPT !.set = Names]}

CommandLayers ==
  {[Silent EXCEPT !.hookReset = again, !.hooks = <<h>>] : again \in BOOLEAN, h \in Hooks}

MCLayers ==
  FilesystemLayers \union ConflictLayers \union EntryLayers \union VariableLayers
  \union CommandLayers
=============================================================================
