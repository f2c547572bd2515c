---------------------------- MODULE Certificates ----------------------------
(***************************************************************************)
(* The three scripts that make certificates: gen_service_certs.sh (an      *)
(* authority and a leaf for each service), gen_traefik_certs.sh (an        *)
(* authority and the leaf of the edge) and gen_mesh_ca.sh (the root of the *)
(* mesh and an intermediate, which is the leaf here). A run moves files    *)
(* into place one by one and may die between any two; the next run sees    *)
(* the files and nothing else. Each key is a number, and so is the         *)
(* certificate of it; 0 stands for a file that is not there.               *)
(***************************************************************************)
EXTENDS Naturals

CONSTANTS
  Script,   \* those looked at, of "services", "edge" and "mesh"
  Leaf,     \* the services with a certificate
  Chowned,  \* the services whose key is given to another user
  Only,     \* the one leaf of the other two scripts
  MaxKeys,  \* bound on the keys that are made
  MaxFaults \* bound on runs that die and certificates that come near their end

CertificatesAssumption ==
  /\ Script \subseteq {"services", "edge", "mesh"} /\ Chowned \subseteq Leaf /\ Only \in Leaf
  /\ "ca" \notin Leaf
  /\ MaxKeys \in Nat /\ MaxFaults \in Nat

VARIABLES
  script,
  ca,     \* the files of the authority: the key certified, and the key
  leaf,   \* those of each leaf: the authority that signed, the key certified, and the key
  copy,   \* the copy of the root beside the intermediate
  given,  \* the leaves whose key has its owner
  aged,   \* what is near its end
  run,    \* the mode of the run at work, where it is, and the leaves it has left
  keys,   \* how many keys have been made
  ended,  \* the mode of the last run, if it ended well
  torn,   \* history: a run died between two moves and what it moved was not made again
  strewn, \* history: a run died, or one that keeps leaves replaced the authority
  faults

vars == <<script, ca, leaf, copy, given, aged, run, keys, ended, torn, strewn, faults>>

Leaves == IF script = "services" THEN Leaf ELSE {Only}
Owned  == IF script = "services" THEN Chowned ELSE {}
Modes  == IF script = "services" THEN {"plain", "force", "rotate"} ELSE {"plain", "force"}
Thorough == IF script = "services" THEN "rotate" ELSE "force"
Idle   == [mode |-> "none", at |-> "off", left |-> {}, leaf |-> Only]

TypeOK ==
  /\ script \in Script /\ keys \in 0 .. MaxKeys /\ faults \in 0 .. MaxFaults
  /\ ca \in [cert : 0 .. keys, key : 0 .. keys]
  /\ leaf \in [Leaf -> [of : 0 .. keys, cert : 0 .. keys, key : 0 .. keys]]
  /\ copy \in 0 .. keys
  /\ given \subseteq Leaf /\ strewn \in BOOLEAN /\ aged \cup torn \subseteq Leaf \cup {"ca"}
  /\ run \in [mode : Modes \cup {"none"}, left : SUBSET Leaf, leaf : Leaf,
              at : {"off", "ca", "caKey", "leaves", "leafKey", "owner", "copy"}]
  /\ ended \in Modes \cup {"none"}

Init ==
  /\ script \in Script
  /\ ca = [cert |-> 0, key |-> 0] /\ leaf = [l \in Leaf |-> [of |-> 0, cert |-> 0, key |-> 0]]
  /\ copy = 0 /\ given = {} /\ aged = {} /\ run = Idle /\ keys = 0
  /\ ended = "none" /\ torn = {} /\ strewn = FALSE /\ faults = 0

Fault == faults < MaxFaults /\ faults' = faults + 1

-----------------------------------------------------------------------------
(* A run *)

\* What is selected: every service, or some of them when the authority is not rotated.
Starts(mode, selected) ==
  /\ run.at = "off"
  /\ mode \in Modes /\ selected # {} /\ selected \subseteq Leaves
  /\ script # "services" \/ mode = "rotate" => selected = Leaves
  /\ run' = [mode |-> mode, at |-> "ca", left |-> selected, leaf |-> Only]
  /\ ended' = "none"
  /\ UNCHANGED <<script, ca, leaf, copy, given, aged, keys, torn, strewn, faults>>

\* cert_still_valid: both files are there, and the certificate is not near its end.
CaValid == ca.cert # 0 /\ ca.key # 0 /\ "ca" \notin aged
LeafValid(l) == leaf[l].cert # 0 /\ leaf[l].key # 0 /\ l \notin aged

\* ensure_ca, generate_ca and ensure_root: whether the authority is made again.
MakesCa ==
  CASE script = "services" -> run.mode = "rotate" \/ ~CaValid
    [] script = "edge"     -> run.mode = "force" \/ ~CaValid
    [] script = "mesh"     -> ca.cert = 0 /\ ca.key = 0

\* One file of the root without the other.
HalfRoot == script = "mesh" /\ (ca.cert = 0) # (ca.key = 0)

\* main of the edge script: nothing is looked at any more when both certificates are valid.
NothingToDo ==
  script = "edge" /\ run.mode = "plain" /\ CaValid /\ \A l \in run.left : LeafValid(l)

KeepsCa ==
  /\ run.at = "ca" /\ ~MakesCa /\ ~HalfRoot /\ ~NothingToDo
  /\ run' = [run EXCEPT !.at = "leaves"]
  /\ UNCHANGED <<script, ca, leaf, copy, given, aged, keys, ended, torn, strewn, faults>>

NothingDone ==
  /\ run.at = "ca" /\ NothingToDo
  /\ run' = Idle /\ ended' = run.mode
  /\ UNCHANGED <<script, ca, leaf, copy, given, aged, keys, torn, strewn, faults>>

\* Its certificate is moved into place, and then its key.
MovesCaCert ==
  /\ run.at = "ca" /\ MakesCa /\ keys < MaxKeys
  /\ keys' = keys + 1
  /\ ca' = [ca EXCEPT !.cert = keys']
  /\ aged' = aged \ {"ca"}
  /\ run' = [run EXCEPT !.at = "caKey"]
  /\ strewn' = (strewn \/ (script = "services" /\ run.mode # Thorough
                           /\ \E l \in Leaves : leaf[l].cert # 0))
  /\ UNCHANGED <<script, leaf, copy, given, ended, torn, faults>>

MovesCaKey ==
  /\ run.at = "caKey"
  /\ ca' = [ca EXCEPT !.key = ca.cert]
  /\ run' = [run EXCEPT !.at = "leaves"]
  /\ torn' = torn \ {"ca"}
  /\ UNCHANGED <<script, leaf, copy, given, aged, keys, ended, strewn, faults>>

\* Bug: the intermediate is kept without looking at the root.
KeepsUnverified(l) == script # "edge" /\ run.mode = "plain" /\ LeafValid(l)

\* Bug: a rotation does not imply --force.
KeepsOnRotate(l) ==
  script # "edge" /\ run.mode # "force" /\ LeafValid(l)
    /\ (script = "mesh" => leaf[l].of = ca.cert /\ copy = ca.cert)

\* ensure_leaf and ensure_intermediate: whether the leaf is left as it is.
Keeps(l) ==
  script # "edge" /\ run.mode = "plain" /\ LeafValid(l)
    /\ (script = "mesh" => leaf[l].of = ca.cert /\ copy = ca.cert)

KeepsLeaf(l) ==
  /\ run.at = "leaves" /\ l \in run.left /\ Keeps(l)
  /\ run' = [run EXCEPT !.left = @ \ {l}]
  /\ UNCHANGED <<script, ca, leaf, copy, given, aged, keys, ended, torn, strewn, faults>>

\* openssl signs with the key of the certificate alone; the root must outlive what it signs.
Signs == ca.cert = ca.key /\ (script = "mesh" => "ca" \notin aged)

MovesLeafCert(l) ==
  /\ run.at = "leaves" /\ l \in run.left /\ ~Keeps(l) /\ Signs /\ keys < MaxKeys
  /\ keys' = keys + 1
  /\ leaf' = [leaf EXCEPT ![l].of = ca.cert, ![l].cert = keys']
  /\ aged' = aged \ {l}
  /\ run' = [run EXCEPT !.at = "leafKey", !.leaf = l]
  /\ UNCHANGED <<script, ca, copy, given, ended, torn, strewn, faults>>

MovesLeafKey ==
  /\ run.at = "leafKey"
  /\ leaf' = [leaf EXCEPT ![run.leaf].key = leaf[run.leaf].cert]
  /\ torn' = torn \ {run.leaf}
  /\ given' = given \ {run.leaf}
  /\ run' = [run EXCEPT !.at = "owner"]
  /\ UNCHANGED <<script, ca, copy, aged, keys, ended, strewn, faults>>

\* chgrp, chmod and chown; and the intermediate has its root and its chain put beside it.
GivesKey ==
  /\ run.at = "owner"
  /\ given' = given \cup {run.leaf}
  /\ run' = [run EXCEPT !.at = "leaves", !.left = @ \ {run.leaf}]
  /\ copy' = IF script = "mesh" THEN ca.cert ELSE copy
  /\ UNCHANGED <<script, ca, leaf, aged, keys, ended, torn, strewn, faults>>

Ends ==
  /\ run.at = "leaves" /\ run.left = {}
  /\ run' = Idle /\ ended' = run.mode
  /\ strewn' = (strewn /\ run.mode # Thorough)
  /\ UNCHANGED <<script, ca, leaf, copy, given, aged, keys, torn, faults>>

\* The run stops with an error: nothing has been moved by then.
Refuses ==
  /\ \/ run.at = "ca" /\ HalfRoot
     \/ run.at = "leaves" /\ ~Signs /\ \E l \in run.left : ~Keeps(l)
  /\ run' = Idle
  /\ UNCHANGED <<script, ca, leaf, copy, given, aged, keys, ended, torn, strewn, faults>>

\* It is interrupted, openssl fails, the disk is full or the owner cannot be set.
Dies ==
  /\ run.at # "off" /\ Fault
  /\ run' = Idle
  /\ torn' = torn \cup (IF run.at = "caKey" THEN {"ca"} ELSE {})
                  \cup (IF run.at \in {"leafKey", "owner"} THEN {run.leaf} ELSE {})
  /\ strewn' = TRUE
  /\ UNCHANGED <<script, ca, leaf, copy, given, aged, keys, ended>>

\* A certificate comes within the renewal threshold.
Ages(x) ==
  /\ run.at = "off" /\ Fault /\ x \notin aged
  /\ IF x = "ca" THEN ca.cert # 0 ELSE x \in Leaves /\ leaf[x].cert # 0
  /\ aged' = aged \cup {x}
  /\ UNCHANGED <<script, ca, leaf, copy, given, run, keys, ended, torn, strewn>>

Next ==
  \/ \E mode \in Modes, selected \in SUBSET Leaf : Starts(mode, selected)
  \/ KeepsCa \/ NothingDone \/ MovesCaCert \/ MovesCaKey
  \/ \E l \in Leaf : KeepsLeaf(l) \/ MovesLeafCert(l)
  \/ MovesLeafKey \/ GivesKey \/ Ends \/ Refuses \/ Dies
  \/ \E x \in Leaf \cup {"ca"} : Ages(x)

Spec == Init /\ [][Next]_vars

-----------------------------------------------------------------------------
(* Properties. *)

Good(l) ==
  /\ leaf[l].cert = leaf[l].key /\ leaf[l].of = ca.cert
  /\ script = "mesh" => copy = ca.cert
  /\ l \in given

\* ensure_ca and ensure_leaf: between runs a certificate has its key, and the key its owner,
\* unless a run died between moving the one and the other.
PairsMatch ==
  run.at = "off" =>
    /\ ca.cert = ca.key \/ "ca" \in torn
    /\ \A l \in Leaves \ torn : leaf[l].cert = leaf[l].key /\ (leaf[l].key # 0 => l \in given)

\* --rotate-ca and --force: a run that makes everything again and ends leaves everything good,
\* whatever runs have died before it.
ThoroughRunHeals ==
  ended = Thorough => \A l \in Leaves : Good(l)

\* ensure_intermediate: a plain run of the mesh script that ends leaves an intermediate that
\* the root has signed and the root beside it, whatever has died before. The other scripts
\* look at dates alone: theirs holds until a run dies, or (services) finds the authority near its
\* end and its leaves not.
ChainHolds ==
  ended # "none" =>
    \A l \in Leaves :
      IF script = "mesh" THEN leaf[l].of = ca.cert /\ copy = ca.cert
      ELSE strewn \/ leaf[l].of \in {0, ca.cert}

\* ensure_root: the root of the mesh is made once.
RootIsKept == script = "mesh" => ca.cert \in {0, 1}
=============================================================================
