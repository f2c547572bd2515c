------------------------------ MODULE Cluster ------------------------------
(***************************************************************************)
(* The local cluster: cluster.sh starts and stops its containers in order  *)
(* and keeps each at one address, which it pins in the network and records *)
(* in a file; create-cluster.sh leaves them at the addresses they came up  *)
(* at. A command may die after any of its calls, and the host may go down. *)
(***************************************************************************)
EXTENDS Naturals

CONSTANTS Control, Worker, Registry, MaxFaults

ClusterAssumption == MaxFaults \in Nat /\ Control # Worker /\ Registry \notin {Control, Worker}

VARIABLES
  joined,  \* the containers that are attached to the network
  pin,     \* the address a container is pinned to, or 0
  addr,    \* the address of a container that runs, or 0
  file,    \* the address recorded of a container, or 0
  other,   \* the address of a container of somebody else, or 0
  cordon,  \* the nodes that take no workloads
  net,     \* the nodes whose network and mesh agent are up since they booted
  work,    \* the nodes with workloads
  cmd,     \* the command at work, the step it is at and the containers left in it
  held,    \* the addresses stop has noted of containers without a pin
  ready,   \* the last command was a start that came to its end
  severed, \* history: containers that a stop had taken off the network when it died
  mixed,   \* history: a stop died while it pinned, or a command while a container was not
           \* where its file says
  abrupt,  \* history: a node went off otherwise than by stop since stop last ended
  faults

vars == <<joined, pin, addr, file, other, cordon, net, work, cmd, held, ready, severed, mixed,
          abrupt, faults>>

Node      == {Control, Worker}
Container == Node \cup {Registry}
Address   == 1 .. 4
Free      == Address \ ({addr[c] : c \in Container} \cup {other})

StartSteps == {"release", "record", "attach", "registry", "control", "network", "open", "mesh",
               "worker", "network2", "open2"}
StopSteps  == {"note", "cordon", "drain", "off", "off2", "off3", "sever", "connect", "record2"}
Idle       == [at |-> "none", left |-> {}]

TypeOK ==
  /\ joined \subseteq Container
  /\ {pin, addr, file, held} \subseteq [Container -> Address \cup {0}]
  /\ other \in Address \cup {0}
  /\ {cordon, net, work} \subseteq SUBSET Node
  /\ cmd \in [at : StartSteps \cup StopSteps \cup {"none"}, left : SUBSET Container]
  /\ ready \in BOOLEAN /\ abrupt \in BOOLEAN /\ mixed \in BOOLEAN /\ severed \subseteq Container
  /\ faults \in 0 .. MaxFaults
  /\ \A c \in Container : pin[c] # 0 => c \in joined

Zeros == [c \in Container |-> 0]
Plan(f) == f[Registry] = 1 /\ {f[n] : n \in Node} = {2, 3}

\* pin_addresses: the registry has its address, and the nodes came up at theirs; files may be
\* left of an earlier cluster.
Init ==
  /\ joined = Container
  /\ addr \in {f \in [Container -> 1 .. 3] : Plan(f)}
  /\ file \in {f \in [Container -> 1 .. 3] : Plan(f)} \cup {Zeros}
  /\ pin = [Zeros EXCEPT ![Registry] = 1]
  /\ other = 0 /\ cordon = {} /\ net = Node /\ work = Node
  /\ cmd = Idle /\ held = Zeros /\ ready = FALSE /\ severed = {} /\ mixed = FALSE /\ abrupt = FALSE
  /\ faults = 0

Fault == faults < MaxFaults /\ faults' = faults + 1
Goes(step, left) == cmd' = [at |-> step, left |-> left]
At(step) == cmd.at = step
history == <<severed, mixed, abrupt, faults>>

\* A step over containers is at its end.
Then(step, next, left) ==
  /\ At(step) /\ cmd.left = {} /\ Goes(next, left)
  /\ UNCHANGED <<joined, pin, addr, file, other, cordon, net, work, held, ready, history>>

-----------------------------------------------------------------------------
(* start *)

Start ==
  /\ At("none") /\ Goes("release", Container) /\ ready' = FALSE
  /\ UNCHANGED <<joined, pin, addr, file, other, cordon, net, work, held, history>>

\* Bug: only a container that has a pin is looked at.
MovedPinned(c) == file[c] # 0 /\ c \in joined /\ pin[c] \notin {0, file[c]}

Moved(c) == file[c] # 0 /\ c \in joined /\ pin[c] # file[c]

\* release_moved: a container that is not pinned to the recorded address is taken off.
Release(c) ==
  /\ At("release") /\ c \in cmd.left
  /\ Goes("release", cmd.left \ {c})
  /\ IF Moved(c)
     THEN /\ joined' = joined \ {c}
          /\ pin' = [pin EXCEPT ![c] = 0] /\ addr' = [addr EXCEPT ![c] = 0]
          /\ net' = net \ {c} /\ work' = work \ {c}
          /\ abrupt' = (abrupt \/ addr[c] # 0)
     ELSE UNCHANGED <<joined, pin, addr, net, work, abrupt>>
  /\ UNCHANGED <<file, other, cordon, held, ready, severed, mixed, faults>>

\* record_pins.
Record(step, c) ==
  /\ At(step) /\ c \in cmd.left
  /\ Goes(step, cmd.left \ {c})
  /\ file' = [file EXCEPT ![c] = IF pin[c] # 0 THEN pin[c] ELSE @]
  /\ UNCHANGED <<joined, pin, addr, other, cordon, net, work, held, ready, history>>

\* ensure_attached.
Attach(c) ==
  /\ At("attach") /\ c \in cmd.left /\ (c \in joined \/ file[c] # 0)
  /\ Goes("attach", cmd.left \ {c})
  /\ joined' = joined \cup {c}
  /\ pin' = [pin EXCEPT ![c] = IF c \in joined THEN @ ELSE file[c]]
  /\ UNCHANGED <<addr, file, other, cordon, net, work, held, ready, history>>

\* ensure_running: the container comes up at its pin, or at an address that is free.
Boot(c, step, next) ==
  /\ At(step) /\ Goes(next, {})
  /\ \/ addr[c] # 0 /\ UNCHANGED addr
     \/ addr[c] = 0 /\ \E a \in Free : pin[c] \in {0, a} /\ addr' = [addr EXCEPT ![c] = a]
  /\ UNCHANGED <<joined, pin, file, other, cordon, net, work, held, ready, history>>

\* wait_for_api, wait_for_lease, wait_for_node_ip, wait_for_node_network, wait_for_mesh_agent.
AwaitNetwork(n, step, next) ==
  /\ At(step) /\ Goes(next, {})
  /\ net' = net \cup {n}
  /\ UNCHANGED <<joined, pin, addr, file, other, cordon, work, held, ready, history>>

\* uncordon; workloads come as soon as the node takes them.
Open(n, step, next) ==
  /\ At(step)
  /\ cmd' = IF next = "none" THEN Idle ELSE [at |-> next, left |-> {}]
  /\ cordon' = cordon \ {n} /\ work' = work \cup {n}
  /\ ready' = (next = "none")
  /\ UNCHANGED <<joined, pin, addr, file, other, net, held, history>>

-----------------------------------------------------------------------------
(* stop *)

Stop ==
  /\ At("none") /\ Goes("note", {}) /\ ready' = FALSE
  /\ UNCHANGED <<joined, pin, addr, file, other, cordon, net, work, held, history>>

\* The addresses of the containers without a pin are noted while they run.
Note ==
  /\ At("note") /\ Goes("cordon", {})
  /\ held' = [c \in Container |-> IF pin[c] = 0 THEN addr[c] ELSE 0]
  /\ UNCHANGED <<joined, pin, addr, file, other, cordon, net, work, ready, history>>

\* The API server answers.
Answers == addr[Control] # 0

\* Bug: only the worker is cordoned.
CordonWorker ==
  /\ At("cordon") /\ Answers /\ Goes("drain", {})
  /\ cordon' = cordon \cup {Worker}
  /\ UNCHANGED <<joined, pin, addr, file, other, net, work, held, ready, history>>

Cordon ==
  /\ At("cordon") /\ Answers /\ Goes("drain", {})
  /\ cordon' = Node
  /\ UNCHANGED <<joined, pin, addr, file, other, net, work, held, ready, history>>

Drain ==
  /\ At("drain") /\ Answers /\ Goes("off", {})
  /\ work' = {}
  /\ UNCHANGED <<joined, pin, addr, file, other, cordon, net, held, ready, history>>

\* docker stop; stop_control_plane.
PowerOff(c, step, next, left) ==
  /\ At(step) /\ Goes(next, left)
  /\ addr' = [addr EXCEPT ![c] = 0] /\ net' = net \ {c}
  /\ UNCHANGED <<joined, pin, file, other, cordon, work, held, ready, history>>

\* pin_ip: the container is taken off the network, and attached again at the address noted.
Sever(c) ==
  /\ At("sever") /\ c \in cmd.left
  /\ joined' = joined \ {c}
  /\ cmd' = [cmd EXCEPT !.at = "connect"]
  /\ UNCHANGED <<pin, addr, file, other, cordon, net, work, held, ready, history>>

Connect(c) ==
  /\ At("connect") /\ c \in cmd.left \ joined
  /\ joined' = joined \cup {c}
  /\ pin' = [pin EXCEPT ![c] = held[c]]
  /\ Goes("sever", cmd.left \ {c})
  /\ UNCHANGED <<addr, file, other, cordon, net, work, held, ready, history>>

Stopped ==
  /\ At("record2") /\ cmd.left = {} /\ cmd' = Idle
  /\ abrupt' = FALSE
  /\ UNCHANGED <<joined, pin, addr, file, other, cordon, net, work, held, ready, severed, mixed,
     faults>>

-----------------------------------------------------------------------------
(* What goes wrong *)

\* What a command that dies where it is leaves behind.
LeavesTraces ==
  /\ severed' = severed \cup (IF At("connect") THEN cmd.left \ joined ELSE {})
  /\ mixed' = (mixed \/ cmd.at \in {"sever", "connect"}
                   \/ \E c \in joined : file[c] # 0 /\ {pin[c], addr[c]} \ {0, file[c]} # {})

\* A call of the command fails or times out, and the command ends.
Dies ==
  /\ ~At("none") /\ Fault /\ cmd' = Idle
  /\ LeavesTraces
  /\ UNCHANGED <<joined, pin, addr, file, other, cordon, net, work, held, ready, abrupt>>

Unpinned == {c \in Container : held[c] # 0}

\* The command cannot go on: a container has no address to come back to, its address is taken,
\* or the API server is down.
Refuses ==
  /\ \/ At("attach") /\ \E c \in cmd.left \ joined : file[c] = 0
     \/ \E b \in {<<"registry", Registry>>, <<"control", Control>>, <<"worker", Worker>>} :
          At(b[1]) /\ addr[b[2]] = 0 /\ pin[b[2]] # 0 /\ pin[b[2]] \notin Free
     \/ At("cordon") /\ ~Answers
  /\ cmd' = Idle
  /\ UNCHANGED <<joined, pin, addr, file, other, cordon, net, work, held, ready, history>>

\* Nothing is restarted with the host: disable_autorestart.
HostGoesDown ==
  /\ Fault
  /\ cmd' = Idle /\ addr' = Zeros /\ net' = {} /\ other' = 0 /\ ready' = FALSE
  /\ LeavesTraces
  /\ abrupt' = TRUE
  /\ UNCHANGED <<joined, pin, file, cordon, work, held>>

\* Another container is started in the network, or ends.
OtherComes ==
  /\ other = 0 /\ Fault /\ other' \in Free
  /\ UNCHANGED <<joined, pin, addr, file, cordon, net, work, cmd, held, ready, severed, mixed,
     abrupt>>

OtherGoes ==
  /\ other # 0 /\ other' = 0
  /\ UNCHANGED <<joined, pin, addr, file, cordon, net, work, cmd, held, ready, history>>

Next ==
  \/ Start \/ Stop
  \/ \E c \in Container : Release(c) \/ Record("record", c) \/ Record("record2", c) \/ Attach(c)
                            \/ Sever(c) \/ Connect(c)
  \/ Then("release", "record", Container) \/ Then("record", "attach", Container)
  \/ Then("attach", "registry", {}) \/ Then("sever", "record2", Container)
  \/ Boot(Registry, "registry", "control") \/ Boot(Control, "control", "network")
  \/ AwaitNetwork(Control, "network", "open") \/ Open(Control, "open", "mesh")
  \/ Then("mesh", "worker", {}) \/ Boot(Worker, "worker", "network2")
  \/ AwaitNetwork(Worker, "network2", "open2") \/ Open(Worker, "open2", "none")
  \/ Note \/ Cordon \/ Drain
  \/ PowerOff(Worker, "off", "off2", {}) \/ PowerOff(Control, "off2", "off3", {})
  \/ PowerOff(Registry, "off3", "sever", Unpinned)
  \/ Stopped \/ Dies \/ Refuses \/ HostGoesDown \/ OtherComes \/ OtherGoes

Spec == Init /\ [][Next]_vars

-----------------------------------------------------------------------------
(* Properties. *)

\* release_moved, ensure_attached and pin_ip: when start reports the cluster ready every
\* container is at its recorded address, and no two pins are the same, unless a stop died while it
\* pinned for the first time, or a command while the files of an earlier cluster were replaced.
AddressesAreKept ==
  /\ ready => \A c \in Container : addr[c] # 0 /\ file[c] \in {0, addr[c]}
  /\ mixed \/ \A c, d \in Container : c # d /\ pin[c] = pin[d] => pin[c] = 0

\* record_pins: a container off the network has an address to come back to, unless a first
\* stop died between taking it off and attaching it.
NothingIsLost ==
  \A c \in Container \ joined : file[c] # 0 \/ c \in severed \/ At("connect")

\* start and drain: workloads are let onto a node when its network is up since it booted, and
\* a node is powered off when it has none, until the host goes down or start releases a node
\* that runs.
WorkIsOnReadyNodes ==
  abrupt \/ \A n \in Node : IF addr[n] = 0 THEN n \notin work ELSE n \in net \cup cordon
=============================================================================
