--------------------------- MODULE ServicesProofs ---------------------------
(***************************************************************************)
(* Theorems about the specification that the run checks, whose parts are   *)
(* those of ServicesLemmas: each of them runs from the start of a          *)
(* behaviour to its end, or rests.                                         *)
(***************************************************************************)
EXTENDS MCServices, ServicesLemmas

-----------------------------------------------------------------------------
(* The processes *)

\* The gRPC server that did not start is gone without having been stopped.
Unstarted(p) == p = "rpc" /\ service \in {"auth", "notification"} /\ lifeFaults > 0
  /\ up[p] = "gone"

\* Parts that a fault left behind have ended, but for the webhook server.
LeftGone ==
  \A p \in leftover : \/ up[p] = "gone" /\ service \in {"api", "camera"} /\ p # "watch"
                      \/ service = "notification" /\ p = "http" /\ up["rpc"] = "gone"

\* What was started had what it needs.
OpenedInOrder ==
  \A p \in Servers!Part : up[p] # "down" /\ ~Unstarted(p) =>
    \A q \in Servers!Process[service].needs[p] : up[q] # "down"

\* What is stopped is stopped after all has started, and after what is to end before it.
ClosedInOrder ==
  \A p \in Servers!Part : up[p] \in {"stopping", "gone"} /\ ~Unstarted(p) =>
    /\ Servers!Up
    /\ \A q \in Servers!After[service][p] :
         up[q] = "gone" \/ (service = "notification" /\ q = "http" /\ q \in leftover)

\* What was found, and is to be reported.
LookedAt == (look => \A p \in Servers!Flags : up[p] # "down")

LifeInv ==
  /\ Servers!TypeOK /\ LeftGone /\ OpenedInOrder /\ ClosedInOrder /\ LookedAt
  /\ Servers!ReadyIsEarned

\* The parts of each process, and what is said of them, are parts of it.
LEMMA PartsOf ==
  ASSUME Servers!ServiceLifeAssumption, service \in Service
  PROVE  /\ Servers!Works \subseteq Servers!Part /\ Servers!Flags \subseteq Servers!Part
         /\ "started" \in Servers!Flags => service = "api"
         /\ \A p \in Servers!Part : Servers!After[service][p] \subseteq Servers!Part
              /\ Servers!Process[service].needs[p] \subseteq Servers!Part
<1> USE DEF Servers!Part, Servers!Works, Servers!Flags, Servers!Process, Servers!After
<1>1. CASE service = "api"
  BY <1>1 DEF Servers!Api, Servers!ApiAfter
<1>2. CASE service = "auth"
  BY <1>2 DEF Servers!Auth, Servers!AuthAfter
<1>3. CASE service = "audit"
  BY <1>3 DEF Servers!Audit, Servers!AuditAfter
<1>4. CASE service = "notification"
  BY <1>4 DEF Servers!Notification, Servers!NotificationAfter
<1>5. CASE service = "ai"
  BY <1>5 DEF Servers!Ai, Servers!AiAfter
<1>6. CASE service = "camera"
  BY <1>6 DEF Servers!Camera, Servers!CameraAfter
<1> QED BY <1>1, <1>2, <1>3, <1>4, <1>5, <1>6 DEF Servers!ServiceLifeAssumption

\* A process that has not started keeps the invariant.
LEMMA LifeStart ==
  ASSUME Servers!ServiceLifeAssumption, Servers!Init
  PROVE  LifeInv
<1>1. /\ service \in Service /\ up = [p \in Servers!Part |-> "down"] /\ busy = {} /\ leftover = {}
      /\ signal = FALSE /\ look = FALSE /\ ready = FALSE /\ lifeFaults = 0 /\ 0 \in 0..LifeFaults
  BY DEF Servers!Init, Servers!ServiceLifeAssumption
<1>2. Servers!TypeOK
  BY <1>1 DEF Servers!TypeOK
<1>3. LeftGone /\ OpenedInOrder /\ ClosedInOrder /\ LookedAt /\ Servers!ReadyIsEarned
  BY <1>1 DEF LeftGone, OpenedInOrder, ClosedInOrder, LookedAt, Servers!ReadyIsEarned
<1> QED BY <1>2, <1>3 DEF LifeInv

\* A step takes each part further, and none of them back.
Further ==
  /\ service' = service /\ up' \in [Servers!Part -> {"down", "up", "stopping", "gone"}]
  /\ \A p \in Servers!Part :
       \/ up'[p] = up[p]
       \/ up[p] = "down" /\ up'[p] \in {"up", "gone"}
       \/ up[p] = "up" /\ up'[p] \in {"stopping", "gone"}
       \/ up[p] = "stopping" /\ up'[p] = "gone"
  /\ leftover \subseteq leftover' /\ (lifeFaults > 0 => lifeFaults' > 0)

\* Every step keeps the types, and no part goes back.
LEMMA LifeTypes ==
  ASSUME Servers!ServiceLifeAssumption, LifeInv, [Servers!Next]_(Servers!vars)
  PROVE  Servers!TypeOK' /\ Further
<1>1. /\ Servers!TypeOK /\ service \in Service /\ Servers!Works \subseteq Servers!Part
      /\ LifeFaults \in Nat
      /\ lifeFaults \in Nat /\ lifeFaults \in 0..LifeFaults
      /\ up \in [Servers!Part -> {"down", "up", "stopping", "gone"}]
      /\ busy \subseteq Servers!Works /\ leftover \subseteq Servers!Works
      /\ \A p \in busy \ leftover : up[p] \in {"up", "stopping"}
      /\ {signal, look, ready} \subseteq BOOLEAN
  BY PartsOf DEF LifeInv, Servers!TypeOK, Servers!ServiceLifeAssumption
<1>0. /\ up \in [Servers!Part -> {"down", "up", "stopping", "gone"}] /\ lifeFaults \in Nat
  BY <1>1
<1>2. ASSUME service' = service, up' \in [Servers!Part -> {"down", "up", "stopping", "gone"}],
             busy' \subseteq Servers!Works, leftover' \subseteq Servers!Works,
             {signal', look', ready'} \subseteq BOOLEAN,
             \A p \in busy' \ leftover' : up'[p] \in {"up", "stopping"},
             lifeFaults' \in 0..LifeFaults
      PROVE  Servers!TypeOK'
  <2>1. Servers!Part' = Servers!Part /\ Servers!Works' = Servers!Works
    BY <1>2 DEF Servers!Part, Servers!Works
  <2> QED BY <1>1, <1>2, <2>1 DEF Servers!TypeOK
<1>3. ASSUME NEW p \in Servers!Part, Servers!Starts(p) PROVE Servers!TypeOK' /\ Further
  <2>1. /\ up[p] = "down" /\ up' = [up EXCEPT ![p] = "up"]
        /\ UNCHANGED <<service, busy, signal, look, ready, leftover, lifeFaults>>
    BY <1>3 DEF Servers!Starts
  <2>2. up' \in [Servers!Part -> {"down", "up", "stopping", "gone"}]
          /\ \A q \in busy \ leftover : q # p
    BY <1>1, <2>1
  <2>3. \A q \in busy \ leftover : up'[q] \in {"up", "stopping"}
    BY <1>1, <2>1, <2>2
  <2>4. Servers!TypeOK'
    BY <1>1, <1>2, <2>1, <2>2, <2>3
  <2> QED BY <1>0, <2>1, <2>2, <2>4 DEF Further
<1>4. ASSUME NEW p \in Servers!Part, Servers!Begins(p) \/ Servers!Ends(p) \/ Servers!CutOff(p)
      PROVE  Servers!TypeOK' /\ Further
  <2>1. /\ busy' \subseteq busy \cup {p}
        /\ (p \in busy' => p \in Servers!Works /\ (p \in busy \/ up[p] = "up"))
        /\ UNCHANGED <<service, up, signal, look, ready, leftover, lifeFaults>>
    BY <1>4 DEF Servers!Begins, Servers!Ends, Servers!CutOff
  <2>2. Servers!TypeOK'
    BY <1>1, <1>2, <2>1
  <2> QED BY <1>0, <2>1, <2>2 DEF Further
<1>5. ASSUME NEW p \in Servers!Part, Servers!Stops(p) PROVE Servers!TypeOK' /\ Further
  <2>1. /\ up[p] = "up"
        /\ up' = [up EXCEPT ![p] = IF p \in Servers!Works THEN "stopping" ELSE "gone"]
        /\ ready' \in {FALSE, ready}
        /\ UNCHANGED <<service, busy, signal, look, leftover, lifeFaults>>
    BY <1>5 DEF Servers!Stops
  <2>2. up' \in [Servers!Part -> {"down", "up", "stopping", "gone"}]
    BY <1>1, <2>1
  <2>3. \A q \in busy \ leftover : up'[q] \in {"up", "stopping"}
    BY <1>1, <2>1
  <2>4. Servers!TypeOK'
    BY <1>1, <1>2, <2>1, <2>2, <2>3
  <2> QED BY <1>0, <2>1, <2>2, <2>4 DEF Further
<1>6. ASSUME NEW p \in Servers!Part, Servers!Stopped(p) PROVE Servers!TypeOK' /\ Further
  <2>1. /\ up[p] = "stopping" /\ p \notin busy /\ up' = [up EXCEPT ![p] = "gone"]
        /\ UNCHANGED <<service, busy, signal, look, ready, leftover, lifeFaults>>
    BY <1>6 DEF Servers!Stopped
  <2>2. up' \in [Servers!Part -> {"down", "up", "stopping", "gone"}]
    BY <1>1, <2>1
  <2>3. \A q \in busy \ leftover : up'[q] \in {"up", "stopping"}
    BY <1>1, <2>1
  <2>4. Servers!TypeOK'
    BY <1>1, <1>2, <2>1, <2>2, <2>3
  <2> QED BY <1>0, <2>1, <2>2, <2>4 DEF Further
<1>7. ASSUME NEW p \in Servers!Part, Servers!LeftBehind(p) PROVE Servers!TypeOK' /\ Further
  <2>1. /\ up[p] = "stopping" /\ p \in busy /\ up' = [up EXCEPT ![p] = "gone"]
        /\ leftover' = leftover \cup {p}
        /\ lifeFaults < LifeFaults /\ lifeFaults' = lifeFaults + 1
        /\ UNCHANGED <<service, busy, signal, look, ready>>
    BY <1>7 DEF Servers!LeftBehind, Servers!Fault
  <2>2. up' \in [Servers!Part -> {"down", "up", "stopping", "gone"}]
          /\ leftover' \subseteq Servers!Works
    BY <1>1, <2>1
  <2>3. \A q \in busy \ leftover' : up'[q] \in {"up", "stopping"}
    BY <1>1, <2>1
  <2>4. Servers!TypeOK'
    BY <1>1, <1>2, <2>1, <2>2, <2>3
  <2> QED BY <1>0, <2>1, <2>2, <2>4 DEF Further
<1>8. ASSUME Servers!RpcFails PROVE Servers!TypeOK' /\ Further
  <2>1. /\ service \in {"auth", "notification"} /\ up["rpc"] = "down"
        /\ up' = [up EXCEPT !["rpc"] = "gone"]
        /\ signal' = TRUE /\ leftover' = IF service = "notification" THEN {"http"} ELSE {}
        /\ lifeFaults < LifeFaults /\ lifeFaults' = lifeFaults + 1
        /\ UNCHANGED <<service, busy, look, ready>>
    BY <1>8 DEF Servers!RpcFails, Servers!Fault
  <2>2. "rpc" \in Servers!Part /\ (service = "notification" => "http" \in Servers!Works)
    BY <2>1 DEF Servers!Part, Servers!Works, Servers!Process, Servers!After, Servers!Auth,
                Servers!AuthAfter, Servers!Notification, Servers!NotificationAfter
  <2>3. leftover = {} /\ leftover' \subseteq Servers!Works
    BY <2>1, <2>2 DEF LifeInv, LeftGone
  <2>4. up' \in [Servers!Part -> {"down", "up", "stopping", "gone"}]
    BY <1>1, <2>1
  <2>5. \A q \in busy \ leftover' : up'[q] \in {"up", "stopping"}
    BY <1>1, <2>1, <2>2, <2>3
  <2>6. Servers!TypeOK'
    BY <1>1, <1>2, <2>1, <2>3, <2>4, <2>5
  <2> QED BY <1>0, <2>1, <2>2, <2>3, <2>4, <2>6 DEF Further
<1>9. ASSUME Servers!Signalled \/ Servers!Looks \/ UNCHANGED Servers!vars
      PROVE  Servers!TypeOK' /\ Further
  <2>1. UNCHANGED <<service, up, busy, leftover, lifeFaults>>
          /\ {signal', look', ready'} \subseteq BOOLEAN
    BY <1>1, <1>9 DEF Servers!Signalled, Servers!Looks, Servers!Found, Servers!vars
  <2>2. Servers!TypeOK'
    BY <1>1, <1>2, <2>1
  <2> QED BY <1>0, <2>1, <2>2 DEF Further
<1> QED BY <1>3, <1>4, <1>5, <1>6, <1>7, <1>8, <1>9 DEF Servers!Next

\* The watch is of the health servicer.
LEMMA WatchOf ==
  ASSUME Servers!ServiceLifeAssumption, service \in Service, "watch" \in Servers!Works
  PROVE  /\ {"health", "watch"} \subseteq Servers!Part /\ "health" \notin Servers!Works
         /\ Servers!After[service]["health"] = {"watch"}
         /\ Servers!Process[service].needs["watch"] = {"health"}
<1> USE DEF Servers!Part, Servers!Works, Servers!Process, Servers!After
<1>1. CASE service = "api"
  BY <1>1 DEF Servers!Api, Servers!ApiAfter
<1>2. CASE service = "auth"
  BY <1>2 DEF Servers!Auth, Servers!AuthAfter
<1>3. CASE service = "audit"
  BY <1>3 DEF Servers!Audit, Servers!AuditAfter
<1>4. CASE service = "notification"
  BY <1>4 DEF Servers!Notification, Servers!NotificationAfter
<1>5. CASE service = "ai"
  BY <1>5 DEF Servers!Ai, Servers!AiAfter
<1>6. CASE service = "camera"
  BY <1>6 DEF Servers!Camera, Servers!CameraAfter
<1> QED BY <1>1, <1>2, <1>3, <1>4, <1>5, <1>6 DEF Servers!ServiceLifeAssumption

Ended(q) == up[q] = "gone" \/ (service = "notification" /\ q = "http" /\ q \in leftover)

\* What a step does to the parts, and to what is reported.
LEMMA LifeMoves ==
  ASSUME Servers!ServiceLifeAssumption, LifeInv, [Servers!Next]_(Servers!vars)
  PROVE  /\ \A p \in Servers!Part : up[p] = "down" /\ up'[p] # "down" =>
              Unstarted(p)' \/ \A q \in Servers!Process[service].needs[p] : up[q] # "down"
         /\ \A p \in Servers!Part : up[p] \in {"down", "up"} /\ up'[p] \in {"stopping", "gone"} =>
              Unstarted(p)' \/ (Servers!Up /\ \A q \in Servers!After[service][p] : Ended(q))
         /\ \A p \in leftover' \ leftover :
              \/ up'[p] = "gone" /\ service \in {"api", "camera"} /\ p # "watch"
              \/ service = "notification" /\ p = "http" /\ up'["rpc"] = "gone"
         /\ look' => look \/ Servers!Found
         /\ ready' => \/ ready /\ up'["health"] = up["health"]
                      \/ look /\ "watch" \in busy /\ up' = up
<1> DEFINE Opens(p) == up[p] = "down" /\ up'[p] # "down" =>
                          Unstarted(p)'
                            \/ \A q \in Servers!Process[service].needs[p] : up[q] # "down"
           Closes(p) == up[p] \in {"down", "up"} /\ up'[p] \in {"stopping", "gone"} =>
                          Unstarted(p)'
                            \/ (Servers!Up /\ \A q \in Servers!After[service][p] : Ended(q))
           Leaves == \A p \in leftover' \ leftover :
                        \/ up'[p] = "gone" /\ service \in {"api", "camera"} /\ p # "watch"
                        \/ service = "notification" /\ p = "http" /\ up'["rpc"] = "gone"
           Talks == /\ look' => look \/ Servers!Found
                    /\ ready' => \/ ready /\ up'["health"] = up["health"]
                                 \/ look /\ "watch" \in busy /\ up' = up
<1>1. /\ up \in [Servers!Part -> {"down", "up", "stopping", "gone"}] /\ lifeFaults \in Nat
      /\ LeftGone
      /\ ready => "health" \in Servers!Part /\ up["health"] = "up"
  BY DEF LifeInv, Servers!TypeOK, Servers!ReadyIsEarned
<1>2. ASSUME NEW r \in Servers!Part, Servers!Starts(r)
      PROVE  (\A p \in Servers!Part : Opens(p) /\ Closes(p)) /\ Leaves /\ Talks
  <2>1. /\ up[r] = "down" /\ up' = [up EXCEPT ![r] = "up"]
        /\ \A q \in Servers!Process[service].needs[r] : up[q] # "down"
        /\ leftover' = leftover /\ look' = look /\ ready' = ready
    BY <1>2 DEF Servers!Starts
  <2>2. up'[r] = "up" /\ \A q \in Servers!Part \ {r} : up'[q] = up[q]
    BY <1>1, <2>1
  <2> QED BY <1>1, <2>1, <2>2
<1>3. ASSUME NEW r \in Servers!Part, Servers!Begins(r) \/ Servers!Ends(r) \/ Servers!CutOff(r)
      PROVE  (\A p \in Servers!Part : Opens(p) /\ Closes(p)) /\ Leaves /\ Talks
  BY <1>3 DEF Servers!Begins, Servers!Ends, Servers!CutOff
<1>4. ASSUME Servers!Signalled \/ UNCHANGED Servers!vars
      PROVE  (\A p \in Servers!Part : Opens(p) /\ Closes(p)) /\ Leaves /\ Talks
  BY <1>4 DEF Servers!Signalled, Servers!vars
<1>5. ASSUME NEW r \in Servers!Part, Servers!Stops(r)
      PROVE  (\A p \in Servers!Part : Opens(p) /\ Closes(p)) /\ Leaves /\ Talks
  <2>1. /\ up[r] = "up"
        /\ up' = [up EXCEPT ![r] = IF r \in Servers!Works THEN "stopping" ELSE "gone"]
        /\ Servers!Up /\ \A q \in Servers!After[service][r] \ leftover : up[q] = "gone"
        /\ leftover' = leftover /\ look' = look /\ ready' = IF r = "health" THEN FALSE ELSE ready
    BY <1>5 DEF Servers!Stops
  <2>2. up'[r] \in {"stopping", "gone"} /\ \A q \in Servers!Part \ {r} : up'[q] = up[q]
    BY <1>1, <2>1
  <2>3. \A q \in Servers!After[service][r] : Ended(q)
    BY <1>1, <2>1 DEF LeftGone, Ended
  <2>4. ready' => ready /\ up'["health"] = up["health"]
    BY <1>1, <2>1, <2>2
  <2> QED BY <2>1, <2>2, <2>3, <2>4
<1>6. ASSUME NEW r \in Servers!Part, Servers!Stopped(r)
      PROVE  (\A p \in Servers!Part : Opens(p) /\ Closes(p)) /\ Leaves /\ Talks
  <2>1. /\ up[r] = "stopping" /\ up' = [up EXCEPT ![r] = "gone"]
        /\ leftover' = leftover /\ look' = look /\ ready' = ready
    BY <1>6 DEF Servers!Stopped
  <2>2. \A q \in Servers!Part \ {r} : up'[q] = up[q]
    BY <1>1, <2>1
  <2> QED BY <1>1, <2>1, <2>2
<1>7. ASSUME NEW r \in Servers!Part, Servers!LeftBehind(r)
      PROVE  (\A p \in Servers!Part : Opens(p) /\ Closes(p)) /\ Leaves /\ Talks
  <2>1. /\ up[r] = "stopping" /\ up' = [up EXCEPT ![r] = "gone"] /\ r # "watch"
        /\ service \in {"api", "camera"} /\ leftover' = leftover \cup {r} /\ look' = look
        /\ ready' = ready
    BY <1>7 DEF Servers!LeftBehind
  <2>2. up'[r] = "gone" /\ \A q \in Servers!Part \ {r} : up'[q] = up[q]
    BY <1>1, <2>1
  <2> QED BY <1>1, <2>1, <2>2
<1>8. ASSUME Servers!RpcFails
      PROVE  (\A p \in Servers!Part : Opens(p) /\ Closes(p)) /\ Leaves /\ Talks
  <2>1. /\ service \in {"auth", "notification"} /\ up["rpc"] = "down"
        /\ up' = [up EXCEPT !["rpc"] = "gone"]
        /\ leftover' = IF service = "notification" THEN {"http"} ELSE {}
        /\ lifeFaults' = lifeFaults + 1 /\ service' = service /\ look' = look /\ ready' = ready
    BY <1>8 DEF Servers!RpcFails, Servers!Fault
  <2>2. "rpc" \in Servers!Part
    BY <2>1 DEF Servers!Part, Servers!After, Servers!AuthAfter, Servers!NotificationAfter
  <2>3. up'["rpc"] = "gone" /\ Unstarted("rpc")' /\ \A q \in Servers!Part \ {"rpc"} : up'[q] = up[q]
    BY <1>1, <2>1, <2>2 DEF Unstarted
  <2>4. ready' => ready /\ up'["health"] = up["health"]
    BY <1>1, <2>1, <2>3
  <2> QED BY <2>1, <2>2, <2>3, <2>4
<1>9. ASSUME Servers!Looks PROVE (\A p \in Servers!Part : Opens(p) /\ Closes(p)) /\ Leaves /\ Talks
  <2>1. "watch" \in busy /\ ready' = look /\ up' = up /\ leftover' = leftover
    BY <1>9 DEF Servers!Looks
  <2>2. look' => Servers!Found
    BY <1>9, Zenon DEF Servers!Looks
  <2>3. ready' => look /\ "watch" \in busy /\ up' = up
    BY <2>1
  <2>4. (\A p \in Servers!Part : Opens(p) /\ Closes(p)) /\ Leaves
    BY <1>1, <2>1
  <2> QED BY <2>2, <2>3, <2>4
<1> QED BY <1>2, <1>3, <1>4, <1>5, <1>6, <1>7, <1>8, <1>9 DEF Servers!Next

\* Every step keeps the order of starting and stopping.
LEMMA LifeStep ==
  ASSUME Servers!ServiceLifeAssumption, LifeInv, [Servers!Next]_(Servers!vars)
  PROVE  LifeInv'
<1>1. /\ Servers!TypeOK /\ service \in Service /\ LeftGone /\ OpenedInOrder /\ ClosedInOrder
      /\ LookedAt
      /\ Servers!ReadyIsEarned /\ Servers!TypeOK' /\ Further
      /\ up \in [Servers!Part -> {"down", "up", "stopping", "gone"}]
      /\ \A p \in Servers!Part : Servers!After[service][p] \subseteq Servers!Part
           /\ Servers!Process[service].needs[p] \subseteq Servers!Part
  BY LifeTypes, PartsOf DEF LifeInv, Servers!TypeOK
<1>2. Servers!Part' = Servers!Part /\ Servers!Works' = Servers!Works
        /\ Servers!Flags' = Servers!Flags /\ service' = service
        /\ Servers!Flags \subseteq Servers!Part
  BY <1>1, PartsOf DEF Further, Servers!Part, Servers!Works, Servers!Flags
<1>3. /\ \A p \in Servers!Part : up[p] # "down" => up'[p] # "down"
      /\ \A p \in Servers!Part : up[p] = "gone" => up'[p] = "gone"
      /\ \A p \in Servers!Part : up[p] \in {"down", "up", "stopping", "gone"}
      /\ \A p \in Servers!Part : Unstarted(p) => Unstarted(p)'
      /\ \A q \in Servers!Part : Ended(q) => Ended(q)'
      /\ leftover \subseteq leftover' /\ (Servers!Up => Servers!Up')
  <2>1. /\ \A p \in Servers!Part : up[p] # "down" => up'[p] # "down"
        /\ \A p \in Servers!Part : up[p] = "gone" => up'[p] = "gone"
        /\ \A p \in Servers!Part : up[p] \in {"down", "up", "stopping", "gone"}
    BY <1>1 DEF Further
  <2> QED BY <1>1, <1>2, <2>1 DEF Further, Unstarted, Ended, Servers!Up
<1>4. LeftGone'
  <2> SUFFICES ASSUME NEW p \in leftover'
               PROVE  \/ up'[p] = "gone" /\ service \in {"api", "camera"} /\ p # "watch"
                      \/ service = "notification" /\ p = "http" /\ up'["rpc"] = "gone"
    BY <1>2 DEF LeftGone
  <2>1. CASE p \in leftover
    <3>1. p \in Servers!Part
      BY <1>1, <2>1, PartsOf DEF Servers!TypeOK
    <3>2. service = "notification" => "rpc" \in Servers!Part
      BY DEF Servers!Part, Servers!After, Servers!NotificationAfter
    <3> QED BY <1>1, <1>3, <2>1, <3>1, <3>2 DEF LeftGone
  <2>2. CASE p \notin leftover
    BY <2>2, LifeMoves
  <2> QED BY <2>1, <2>2
<1>5. OpenedInOrder'
  <2> SUFFICES ASSUME NEW p \in Servers!Part, up'[p] # "down", ~Unstarted(p)',
                      NEW q \in Servers!Process[service].needs[p]
               PROVE  up'[q] # "down"
    BY <1>2 DEF OpenedInOrder
  <2>1. q \in Servers!Part /\ ~Unstarted(p)
    BY <1>1, <1>3
  <2>2. up[q] # "down"
    BY <1>1, <2>1, LifeMoves DEF OpenedInOrder
  <2> QED BY <1>3, <2>1, <2>2
<1>6. ClosedInOrder'
  <2> SUFFICES ASSUME NEW p \in Servers!Part, up'[p] \in {"stopping", "gone"}, ~Unstarted(p)'
               PROVE  Servers!Up' /\ \A q \in Servers!After[service][p] : Ended(q)'
    BY <1>2 DEF ClosedInOrder, Ended
  <2>1. Servers!After[service][p] \subseteq Servers!Part /\ ~Unstarted(p)
          /\ up[p] \in {"down", "up", "stopping", "gone"}
    BY <1>1, <1>3
  <2>2. Servers!Up /\ \A q \in Servers!After[service][p] : Ended(q)
    <3>1. CASE up[p] \in {"down", "up"}
      BY <3>1, LifeMoves
    <3>2. CASE up[p] \in {"stopping", "gone"}
      BY <1>1, <2>1, <3>2 DEF ClosedInOrder, Ended
    <3> QED BY <2>1, <3>1, <3>2
  <2> QED BY <1>3, <2>1, <2>2
<1>7. LookedAt'
  <2>1. Servers!Found => \A p \in Servers!Flags : up[p] # "down"
    BY <1>2, <1>3 DEF Servers!Found
  <2> QED BY <1>1, <1>2, <1>3, <2>1, LifeMoves DEF LookedAt
<1>8. Servers!ReadyIsEarned'
  <2> SUFFICES ASSUME ready'
               PROVE  "health" \in Servers!Part /\ up'["health"] = "up"
                        /\ \A p \in Servers!Flags : up'[p] # "down"
    BY <1>2 DEF Servers!ReadyIsEarned
  <2>1. CASE ready /\ up'["health"] = up["health"]
    BY <1>1, <1>2, <1>3, <2>1 DEF Servers!ReadyIsEarned
  <2>2. CASE look /\ "watch" \in busy /\ up' = up
    <3>1. "watch" \in Servers!Works /\ "watch" \notin leftover /\ up["watch"] \in {"up", "stopping"}
      BY <1>1, <2>2 DEF Servers!TypeOK, LeftGone
    <3>2. up["health"] # "down" /\ up["health"] \notin {"stopping", "gone"}
            /\ "health" \in Servers!Part
      BY <1>1, <3>1, WatchOf DEF OpenedInOrder, ClosedInOrder, Unstarted
    <3> QED BY <1>1, <1>3, <2>2, <3>2 DEF LookedAt
  <2> QED BY <2>1, <2>2, LifeMoves
<1> QED BY <1>1, <1>4, <1>5, <1>6, <1>7, <1>8 DEF LifeInv

\* What is used ends after what uses it, in every process.
LEMMA UsesLast ==
  ASSUME Servers!ServiceLifeAssumption, LifeInv, NEW p \in Servers!Works, NEW q \in Servers!Uses(p),
         up[p] \in {"up", "stopping"}, p \notin leftover
  PROVE  up[q] \in {"up", "stopping"}
<1>1. /\ service \in Service /\ up \in [Servers!Part -> {"down", "up", "stopping", "gone"}]
      /\ OpenedInOrder /\ ClosedInOrder /\ p \in Servers!Part
  BY PartsOf DEF LifeInv, Servers!TypeOK
<1> DEFINE Opened(r, t) == up[r] # "down" /\ ~Unstarted(r) => up[t] # "down"
           Closed(r, t) == up[r] \in {"stopping", "gone"} /\ ~Unstarted(r) => Ended(t)
<1>2. CASE service = "api"
  <2>1. /\ Opened("http", "started") /\ Opened("started", "decisions")
        /\ Opened("decisions", "drain") /\ Opened("reconcile", "stream")
        /\ Opened("policy", "pubsub") /\ Opened("drain", "channels")
        /\ Opened("channels", "revocations") /\ Opened("broadcaster", "redis")
        /\ Opened("revocations", "policy") /\ Opened("pubsub", "reconcile")
        /\ Opened("stream", "broadcaster") /\ Opened("redis", "mongodb")
    BY <1>1, <1>2 DEF OpenedInOrder, Servers!Process, Servers!Part, Servers!After, Servers!Api,
                      Servers!ApiAfter
  <2>2. /\ Closed("started", "http") /\ Closed("decisions", "started")
        /\ Closed("reconcile", "decisions") /\ Closed("channels", "drain")
        /\ Closed("channels", "policy") /\ Closed("channels", "reconcile")
        /\ Closed("broadcaster", "channels") /\ Closed("revocations", "broadcaster")
        /\ Closed("pubsub", "revocations") /\ Closed("stream", "pubsub")
        /\ Closed("redis", "stream") /\ Closed("mongodb", "redis")
    BY <1>1, <1>2 DEF ClosedInOrder, Ended, Servers!Process, Servers!Part, Servers!After,
                      Servers!Api, Servers!ApiAfter
  <2>3. p \in {"broadcaster", "decisions", "drain", "http", "policy", "reconcile", "revocations",
        "watch"}
    BY <1>2 DEF Servers!Works, Servers!Process, Servers!Api
  <2> QED
    BY <1>1, <1>2, <2>1, <2>2, <2>3 DEF Unstarted, Ended, Servers!Uses, Servers!Process,
                                        Servers!Api, Servers!Part, Servers!After, Servers!ApiAfter
<1>3. CASE service = "auth"
  <2>1. /\ Opened("http", "engine") /\ Opened("http", "redis") /\ Opened("drain", "audit")
        /\ Opened("drain", "engine") /\ Opened("sweep", "engine") /\ Opened("sweep", "redis")
        /\ Opened("rpc", "engine") /\ Opened("rpc", "redis")
    BY <1>1, <1>3 DEF OpenedInOrder, Servers!Process, Servers!Part, Servers!After, Servers!Auth,
                      Servers!AuthAfter
  <2>2. /\ Closed("redis", "drain") /\ Closed("redis", "http") /\ Closed("redis", "rpc")
        /\ Closed("redis", "sweep") /\ Closed("engine", "redis") /\ Closed("audit", "engine")
    BY <1>1, <1>3 DEF ClosedInOrder, Ended, Servers!Process, Servers!Part, Servers!After,
                      Servers!Auth, Servers!AuthAfter
  <2>3. p \in {"drain", "http", "rpc", "sweep", "watch"}
    BY <1>3 DEF Servers!Works, Servers!Process, Servers!Auth
  <2> QED
    BY <1>1, <1>3, <2>1, <2>2, <2>3 DEF Unstarted, Ended, Servers!Uses, Servers!Process,
                                        Servers!Auth, Servers!Part, Servers!After, Servers!AuthAfter
<1>4. CASE service = "audit"
  <2>1. /\ Opened("rpc", "engine") /\ Opened("rpc", "redis")
    BY <1>1, <1>4 DEF OpenedInOrder, Servers!Process, Servers!Part, Servers!After, Servers!Audit,
                      Servers!AuditAfter
  <2>2. /\ Closed("redis", "rpc") /\ Closed("engine", "redis")
    BY <1>1, <1>4 DEF ClosedInOrder, Ended, Servers!Process, Servers!Part, Servers!After,
                      Servers!Audit, Servers!AuditAfter
  <2>3. p \in {"rpc", "watch"}
    BY <1>4 DEF Servers!Works, Servers!Process, Servers!Audit
  <2> QED
    BY <1>1, <1>4, <2>1, <2>2, <2>3 DEF Unstarted, Ended, Servers!Uses, Servers!Process,
                                        Servers!Audit, Servers!Part, Servers!After,
                                        Servers!AuditAfter
<1>5. CASE service = "notification"
  <2>1. /\ Opened("watch", "health") /\ Opened("http", "broker") /\ Opened("health", "broker")
        /\ Opened("rpc", "watch") /\ Opened("broker", "mongodb")
    BY <1>1, <1>5 DEF OpenedInOrder, Servers!Process, Servers!Part, Servers!After,
                      Servers!Notification, Servers!NotificationAfter
  <2>2. /\ Closed("broker", "http") /\ Closed("broker", "rpc") /\ Closed("mongodb", "broker")
    BY <1>1, <1>5 DEF ClosedInOrder, Ended, Servers!Process, Servers!Part, Servers!After,
                      Servers!Notification, Servers!NotificationAfter
  <2>3. p \in {"http", "rpc", "watch"}
    BY <1>5 DEF Servers!Works, Servers!Process, Servers!Notification
  <2> QED
    BY <1>1, <1>5, <2>1, <2>2, <2>3 DEF Unstarted, Ended, Servers!Uses, Servers!Process,
                                        Servers!Notification, Servers!Part, Servers!After,
                                        Servers!NotificationAfter
<1>6. CASE service = "ai"
  <2>1. /\ Opened("policy", "rpc") /\ Opened("rpc", "executor") /\ Opened("executor", "alerts")
        /\ Opened("alerts", "detector")
    BY <1>1, <1>6 DEF OpenedInOrder, Servers!Process, Servers!Part, Servers!After, Servers!Ai,
                      Servers!AiAfter
  <2>2. /\ Closed("rpc", "policy") /\ Closed("executor", "rpc") /\ Closed("detector", "executor")
        /\ Closed("alerts", "detector")
    BY <1>1, <1>6 DEF ClosedInOrder, Ended, Servers!Process, Servers!Part, Servers!After,
                      Servers!Ai, Servers!AiAfter
  <2>3. p \in {"executor", "policy", "rpc", "stats", "watch"}
    BY <1>6 DEF Servers!Works, Servers!Process, Servers!Ai
  <2> QED
    BY <1>1, <1>6, <2>1, <2>2, <2>3 DEF Unstarted, Ended, Servers!Uses, Servers!Process,
                                        Servers!Ai, Servers!Part, Servers!After, Servers!AiAfter
<1>7. CASE service = "camera"
  <2>1. /\ Opened("capture", "device") /\ Opened("device", "publisher")
    BY <1>1, <1>7 DEF OpenedInOrder, Servers!Process, Servers!Part, Servers!After, Servers!Camera,
                      Servers!CameraAfter
  <2>2. /\ Closed("device", "capture") /\ Closed("publisher", "device")
    BY <1>1, <1>7 DEF ClosedInOrder, Ended, Servers!Process, Servers!Part, Servers!After,
                      Servers!Camera, Servers!CameraAfter
  <2>3. p \in {"capture", "forwarder", "publisher", "stats"}
    BY <1>7 DEF Servers!Works, Servers!Process, Servers!Camera
  <2> QED
    BY <1>1, <1>7, <2>1, <2>2, <2>3 DEF Unstarted, Ended, Servers!Uses, Servers!Process,
                                        Servers!Camera, Servers!Part, Servers!After,
                                        Servers!CameraAfter
<1> QED BY <1>1, <1>2, <1>3, <1>4, <1>5, <1>6, <1>7 DEF Servers!ServiceLifeAssumption

\* What the invariant says of the properties.
LEMMA LifeRight ==
  ASSUME Servers!ServiceLifeAssumption, LifeInv
  PROVE  Servers!TypeOK /\ Servers!NothingOutlivesItsParts /\ Servers!ReadyIsEarned
           /\ Servers!TellsBeforeItStops
<1>1. Servers!TypeOK /\ Servers!ReadyIsEarned /\ ClosedInOrder /\ service \in Service
  BY DEF LifeInv, Servers!TypeOK
<1>2. Servers!NothingOutlivesItsParts
  <2> SUFFICES ASSUME NEW p \in busy \ leftover, NEW q \in Servers!Uses(p)
               PROVE  up[q] \in {"up", "stopping"}
    BY DEF Servers!NothingOutlivesItsParts
  <2>1. p \in Servers!Works /\ up[p] \in {"up", "stopping"}
    BY <1>1 DEF Servers!TypeOK
  <2> QED BY <2>1, UsesLast
<1>3. Servers!TellsBeforeItStops
  <2> SUFFICES ASSUME "rpc" \in Servers!Part, lifeFaults = 0, up["rpc"] \in {"stopping", "gone"},
                      ready
               PROVE  FALSE
    BY DEF Servers!TellsBeforeItStops
  <2>1. /\ up["health"] = "up" /\ "health" \in Servers!Part
        /\ \A r \in Servers!Part : up[r] \in {"stopping", "gone"} =>
             \A t \in Servers!After[service][r] : Ended(t)
    BY <1>1 DEF Servers!ReadyIsEarned, ClosedInOrder, Unstarted, Ended
  <2>2. "health" \in Servers!After[service]["rpc"]
          \/ (service = "ai" /\ {"policy", "stats"} \subseteq Servers!Part
               /\ Servers!After[service]["rpc"] = {"policy"}
                /\ Servers!After[service]["policy"] = {"stats"}
                /\ Servers!After[service]["stats"] = {"health"})
    <3>1. service \in {"api", "auth", "audit", "notification", "ai", "camera"}
      BY <1>1 DEF Servers!ServiceLifeAssumption
    <3>2. CASE service = "ai"
      BY <3>2 DEF Servers!Part, Servers!After, Servers!AiAfter
    <3>3. CASE service = "auth"
      BY <3>3 DEF Servers!After, Servers!AuthAfter
    <3>4. CASE service = "audit"
      BY <3>4 DEF Servers!After, Servers!AuditAfter
    <3>5. CASE service = "notification"
      BY <3>5 DEF Servers!After, Servers!NotificationAfter
    <3>6. service \notin {"api", "camera"}
      BY DEF Servers!Part, Servers!After, Servers!ApiAfter, Servers!CameraAfter
    <3> QED BY <3>1, <3>2, <3>3, <3>4, <3>5, <3>6
  <2> QED BY <2>1, <2>2 DEF Ended
<1> QED BY <1>1, <1>2, <1>3

-----------------------------------------------------------------------------
(* The requests *)

\* A key expires when its bucket is empty, and no bucket holds more than its burst.
KeysFit ==
  \A b \in Requests!Bucket : buckets[b].until = buckets[b].tat
    /\ buckets[b].tat <= instant + Burst[b] * Period[b]

\* Who passes is counted from then on.
PassedSoFar ==
  \A b \in Requests!Bucket : \A s, t \in Requests!Time :
    /\ s <= t => passed[b][s] <= passed[b][t]
    /\ instant <= t => passed[b][t] = Requests!Total(b)

\* Whoever passed since a time has put off the bucket by a period.
Spaced ==
  \A b \in Requests!Bucket : \A s \in Requests!Time :
    s <= instant /\ Requests!Before(b, s) < Requests!Total(b) =>
      s + (Requests!Total(b) - Requests!Before(b, s)) * Period[b] <= buckets[b].tat

Rated ==
  \A b \in Requests!Bucket : \A s, t \in Requests!Time :
    s <= t => (passed[b][t] - Requests!Before(b, s)) * Period[b] <= Burst[b] * Period[b] + (t - s)

\* A time that was told is late enough while nobody is let through.
ToldInTime ==
  \A c \in Client :
    /\ told[c].after <= Requests!Total(Requests!Of(c))
    /\ told[c].when <= GuardTime /\ told[c].after = Requests!Total(Requests!Of(c)) =>
         buckets[Requests!Of(c)].tat - (Burst[Requests!Of(c)] - 1) * Period[Requests!Of(c)]
           <= told[c].when

GuardInv ==
  /\ Requests!TypeOK /\ KeysFit /\ PassedSoFar /\ Spaced /\ Rated /\ ToldInTime
  /\ Requests!WaitIsEnough /\ Requests!OnlyTheEndedLogIn

\* The bursts and the periods are numbers, and so is their product.
LEMMA Allowances ==
  ASSUME Requests!RequestGuardAssumption
  PROVE  /\ GuardTime \in Nat /\ 0 \in Requests!Time /\ GuardTime \in Requests!Time
         /\ Second \in Nat \ {0}
         /\ \A t \in Requests!Time : t \in Nat /\ t <= GuardTime
              /\ (t # 0 => t - 1 \in Requests!Time)
         /\ \A b \in Requests!Bucket :
              /\ Burst[b] \in Nat /\ Burst[b] >= 1 /\ Period[b] \in Nat /\ Period[b] >= 1
              /\ Burst[b] * Period[b] \in Nat
              /\ (Burst[b] - 1) * Period[b] = Burst[b] * Period[b] - Period[b]
              /\ Period[b] <= Burst[b] * Period[b]
<1>1. /\ GuardTime \in Nat /\ 0 \in Requests!Time /\ GuardTime \in Requests!Time
      /\ Second \in Nat \ {0}
      /\ \A t \in Requests!Time : t \in Nat /\ t <= GuardTime /\ (t # 0 => t - 1 \in Requests!Time)
  BY DEF Requests!RequestGuardAssumption, Requests!Time
<1>2. ASSUME NEW b \in Requests!Bucket
      PROVE  /\ Burst[b] \in Nat /\ Burst[b] >= 1 /\ Period[b] \in Nat /\ Period[b] >= 1
             /\ Burst[b] * Period[b] \in Nat
             /\ (Burst[b] - 1) * Period[b] = Burst[b] * Period[b] - Period[b]
             /\ Period[b] <= Burst[b] * Period[b]
  <2>1. Burst[b] \in Nat /\ Burst[b] >= 1 /\ Period[b] \in Nat /\ Period[b] >= 1
    BY DEF Requests!RequestGuardAssumption
  <2>2. \A m, n \in Nat : m * n \in Nat /\ (m - 1) * n = m * n - n /\ (m >= 1 => n <= m * n)
    OBVIOUS
  <2> QED BY <2>1, <2>2
<1> QED BY <1>1, <1>2

\* Without a request, the invariant holds.
LEMMA GuardStart ==
  ASSUME Requests!RequestGuardAssumption, Requests!Init
  PROVE  GuardInv
<1>1. /\ instant = 0 /\ standing = "operator" /\ misled = FALSE
      /\ buckets = [b \in Requests!Bucket |-> [tat |-> 0, until |-> 0]]
      /\ passed = [b \in Requests!Bucket |-> [t \in Requests!Time |-> 0]]
      /\ sockets \subseteq Client /\ wayAt = [c \in Client |-> "idle"]
      /\ answer = [c \in Client |-> "none"]
      /\ told = [c \in Client |-> Requests!Never] /\ Requests!Never \in [when : Nat, after : Nat]
      /\ Requests!Never.when = GuardTime + 1 /\ Requests!Never.after = 0
  BY Allowances DEF Requests!Init, Requests!Never
<1>2. Requests!TypeOK
  BY <1>1, Allowances DEF Requests!TypeOK
<1>3. /\ \A b \in Requests!Bucket : buckets[b].tat = 0 /\ buckets[b].until = 0
      /\ \A b \in Requests!Bucket : \A t \in Requests!Time : passed[b][t] = 0
      /\ \A c \in Client : told[c] = Requests!Never /\ answer[c] = "none"
           /\ Requests!Of(c) \in Requests!Bucket
  BY <1>1 DEF Requests!Of, Requests!Bucket
<1>4. \A b \in Requests!Bucket : Requests!Total(b) = 0
        /\ \A s \in Requests!Time : Requests!Before(b, s) = 0
  BY <1>3, Allowances DEF Requests!Total, Requests!Before
<1>5. KeysFit /\ PassedSoFar /\ Spaced
  BY <1>1, <1>3, <1>4, Allowances DEF KeysFit, PassedSoFar, Spaced
<1>6. Rated
  <2> SUFFICES ASSUME NEW b \in Requests!Bucket, NEW s \in Requests!Time, NEW t \in Requests!Time,
                      s <= t
               PROVE  (passed[b][t] - Requests!Before(b, s)) * Period[b]
                        <= Burst[b] * Period[b] + (t - s)
    BY DEF Rated
  <2>1. passed[b][t] - Requests!Before(b, s) = 0 /\ Period[b] \in Nat
          /\ Burst[b] * Period[b] \in Nat
        /\ s \in Nat /\ t \in Nat
    BY <1>3, <1>4, Allowances
  <2>2. 0 * Period[b] = 0
    BY <2>1
  <2> QED BY <2>1, <2>2
<1>7. ToldInTime /\ Requests!WaitIsEnough /\ Requests!OnlyTheEndedLogIn
  BY <1>1, <1>3, <1>4, Allowances DEF ToldInTime, Requests!WaitIsEnough, Requests!OnlyTheEndedLogIn
<1> QED BY <1>2, <1>5, <1>6, <1>7 DEF GuardInv

\* The bucket is charged for one that passes.
LEMMA Charges ==
  ASSUME Requests!RequestGuardAssumption, Requests!TypeOK, KeysFit, PassedSoFar, Spaced, Rated,
         NEW b \in Requests!Bucket,
         Requests!AllowAt(b) <= instant, Requests!Charge(b), Requests!Counted(b), instant' = instant
  PROVE  /\ buckets' \in [Requests!Bucket -> [tat : Nat, until : Nat]]
         /\ passed' \in [Requests!Bucket -> [Requests!Time -> Nat]]
         /\ \A d \in Requests!Bucket \ {b} : buckets'[d] = buckets[d] /\ passed'[d] = passed[d]
         /\ passed'[b][GuardTime] = Requests!Total(b) + 1
         /\ KeysFit' /\ PassedSoFar' /\ Spaced' /\ Rated'
<1>1. /\ instant \in Requests!Time /\ instant \in Nat /\ instant <= GuardTime
      /\ buckets \in [Requests!Bucket -> [tat : Nat, until : Nat]]
      /\ passed \in [Requests!Bucket -> [Requests!Time -> Nat]]
  BY Allowances DEF Requests!TypeOK
<1> DEFINE B == Burst[b]
           P == Period[b]
           T == Requests!Tat(b)
<1>2. /\ B \in Nat /\ P \in Nat /\ P >= 1 /\ B * P \in Nat /\ (B - 1) * P = B * P - P
      /\ buckets[b].tat \in Nat /\ buckets[b].until = buckets[b].tat
  BY <1>1, Allowances DEF KeysFit
<1>3. T \in Nat /\ instant <= T /\ buckets[b].tat <= T
  BY <1>1, <1>2 DEF Requests!Tat
<1>4. T + P <= instant + B * P
  BY <1>1, <1>2, <1>3 DEF Requests!AllowAt
<1> HIDE DEF T
<1>5. /\ buckets' = [buckets EXCEPT ![b] = [tat |-> T + P, until |-> T + P]]
      /\ passed' = [passed EXCEPT ![b]
           = [t \in Requests!Time |-> IF t < instant THEN passed[b][t] ELSE passed[b][t] + 1]]
  BY DEF Requests!Charge, Requests!Counted, T
<1>6. /\ buckets'[b].tat = T + P /\ buckets'[b].until = T + P
      /\ buckets'[b] \in [tat : Nat, until : Nat]
      /\ \A d \in Requests!Bucket \ {b} : buckets'[d] = buckets[d] /\ passed'[d] = passed[d]
      /\ buckets' \in [Requests!Bucket -> [tat : Nat, until : Nat]]
  BY <1>1, <1>2, <1>3, <1>5
<1>7. \A t \in Requests!Time :
        passed'[b][t] = IF t < instant THEN passed[b][t] ELSE passed[b][t] + 1
  BY <1>1, <1>5
<1>8. passed' \in [Requests!Bucket -> [Requests!Time -> Nat]]
  <2>1. [t \in Requests!Time |-> IF t < instant THEN passed[b][t] ELSE passed[b][t] + 1]
          \in [Requests!Time -> Nat]
    BY <1>1
  <2> QED BY <1>1, <1>5, <2>1
<1>9. passed'[b][GuardTime] = Requests!Total(b) + 1
  BY <1>1, <1>7, Allowances DEF Requests!Total
<1>10. KeysFit'
  <2> SUFFICES ASSUME NEW d \in Requests!Bucket
               PROVE  buckets'[d].until = buckets'[d].tat
                        /\ buckets'[d].tat <= instant + Burst[d] * Period[d]
    BY DEF KeysFit
  <2> QED BY <1>4, <1>6 DEF KeysFit
<1>11. \A d \in Requests!Bucket : \A t \in Requests!Time : passed[d][t] \in Nat
  BY <1>1
<1>12. PassedSoFar'
  <2> SUFFICES ASSUME NEW d \in Requests!Bucket, NEW s \in Requests!Time, NEW t \in Requests!Time
               PROVE  /\ s <= t => passed'[d][s] <= passed'[d][t]
                      /\ instant <= t => passed'[d][t] = passed'[d][GuardTime]
    BY DEF PassedSoFar, Requests!Total
  <2>1. /\ s <= t => passed[d][s] <= passed[d][t]
        /\ instant <= t => passed[d][t] = passed[d][GuardTime]
    BY DEF PassedSoFar, Requests!Total
  <2>2. s \in Nat /\ t \in Nat /\ GuardTime \in Requests!Time /\ GuardTime \in Nat
    BY Allowances
  <2> QED BY <1>1, <1>6, <1>7, <1>11, <2>1, <2>2
<1>13. \A d \in Requests!Bucket : \A s \in Requests!Time :
         Requests!Before(d, s)' =
           IF d = b /\ instant < s THEN Requests!Before(d, s) + 1 ELSE Requests!Before(d, s)
  <2> SUFFICES ASSUME NEW d \in Requests!Bucket, NEW s \in Requests!Time
               PROVE  Requests!Before(d, s)' =
                        IF d = b /\ instant < s THEN Requests!Before(d, s) + 1
                        ELSE Requests!Before(d, s)
    OBVIOUS
  <2>1. s \in Nat /\ (s # 0 => s - 1 \in Requests!Time)
    BY Allowances
  <2>2. CASE s = 0
    BY <1>1, <2>2 DEF Requests!Before
  <2>3. CASE s # 0
    <3>1. Requests!Before(d, s) = passed[d][s - 1] /\ Requests!Before(d, s)' = passed'[d][s - 1]
      BY <2>3 DEF Requests!Before
    <3> QED BY <1>1, <1>6, <1>7, <2>1, <2>3, <3>1
  <2> QED BY <2>2, <2>3
<1>14. \A d \in Requests!Bucket : Requests!Total(d) \in Nat
         /\ \A s \in Requests!Time : Requests!Before(d, s) \in Nat
              /\ (s <= instant => Requests!Before(d, s) <= Requests!Total(d))
  <2> SUFFICES ASSUME NEW d \in Requests!Bucket, NEW s \in Requests!Time
               PROVE  Requests!Total(d) \in Nat /\ Requests!Before(d, s) \in Nat
                        /\ Requests!Before(d, s) <= Requests!Total(d)
    BY Allowances
  <2>1. s \in Nat /\ (s # 0 => s - 1 \in Requests!Time /\ s - 1 <= GuardTime)
          /\ GuardTime \in Requests!Time
    BY Allowances
  <2> QED BY <1>11, <2>1 DEF Requests!Total, Requests!Before, PassedSoFar
<1>15. \A n \in Nat : (n + 1) * P = n * P + P /\ n * P \in Nat
  <2>1. \A m, n \in Nat : n * m \in Nat /\ (n + 1) * m = n * m + m
    OBVIOUS
  <2> QED BY <1>2, <2>1
<1>16. ASSUME NEW s \in Requests!Time, s <= instant
       PROVE  s + (Requests!Total(b) + 1 - Requests!Before(b, s)) * P <= T + P
  <2>1. s \in Nat /\ Requests!Total(b) \in Nat /\ Requests!Before(b, s) \in Nat
          /\ Requests!Before(b, s) <= Requests!Total(b)
    BY <1>14, <1>16, Allowances
  <2>2. CASE Requests!Before(b, s) = Requests!Total(b)
    <3>1. Requests!Total(b) + 1 - Requests!Before(b, s) = 1 /\ 1 * P = P
      BY <1>2, <2>1, <2>2
    <3> QED BY <1>1, <1>2, <1>3, <1>16, <2>1, <3>1
  <2>3. CASE Requests!Before(b, s) < Requests!Total(b)
    <3>1. s + (Requests!Total(b) - Requests!Before(b, s)) * P <= buckets[b].tat
      BY <1>16, <2>3 DEF Spaced
    <3>2. PICK n \in Nat : n = Requests!Total(b) - Requests!Before(b, s)
                 /\ Requests!Total(b) + 1 - Requests!Before(b, s) = n + 1
      BY <2>1, <2>3
    <3>3. (n + 1) * P = n * P + P /\ n * P \in Nat
      BY <1>15
    <3> QED BY <1>2, <1>3, <2>1, <3>1, <3>2, <3>3
  <2> QED BY <2>1, <2>2, <2>3
<1>17. Spaced'
  <2> SUFFICES ASSUME NEW d \in Requests!Bucket, NEW s \in Requests!Time, s <= instant,
                      Requests!Before(d, s)' < passed'[d][GuardTime]
               PROVE  s + (passed'[d][GuardTime] - Requests!Before(d, s)') * Period[d]
                        <= buckets'[d].tat
    BY DEF Spaced, Requests!Total
  <2>1. s \in Nat
    BY Allowances
  <2>2. Requests!Before(d, s)' = Requests!Before(d, s)
    BY <1>1, <1>13, <2>1
  <2>3. CASE d = b
    <3>1. s + (Requests!Total(b) + 1 - Requests!Before(b, s)) * P <= T + P
      BY <1>16
    <3>2. passed'[d][GuardTime] = Requests!Total(b) + 1
            /\ Requests!Before(d, s)' = Requests!Before(b, s) /\ buckets'[d].tat = T + P
      BY <1>6, <1>9, <2>2, <2>3
    <3>3. passed'[d][GuardTime] - Requests!Before(d, s)'
            = Requests!Total(b) + 1 - Requests!Before(b, s)
      BY <1>14, <3>2
    <3> QED BY <2>3, <3>1, <3>2, <3>3, Zenon
  <2>4. CASE d # b
    BY <1>6, <2>2, <2>4 DEF Spaced, Requests!Total
  <2> QED BY <2>3, <2>4
<1>18. Rated'
  <2> SUFFICES ASSUME NEW d \in Requests!Bucket, NEW s \in Requests!Time, NEW t \in Requests!Time,
                      s <= t
               PROVE  (passed'[d][t] - Requests!Before(d, s)') * Period[d]
                        <= Burst[d] * Period[d] + (t - s)
    BY DEF Rated
  <2>1. s \in Nat /\ t \in Nat
          /\ (passed[d][t] - Requests!Before(d, s)) * Period[d] <= Burst[d] * Period[d] + (t - s)
    BY Allowances DEF Rated
  <2>2. CASE d # b \/ t < instant
    <3>1. passed'[d][t] = passed[d][t] /\ Requests!Before(d, s)' = Requests!Before(d, s)
      BY <1>1, <1>6, <1>7, <1>13, <2>1, <2>2
    <3> QED BY <2>1, <3>1
  <2>3. CASE d = b /\ instant <= t /\ instant < s
    <3>1. passed'[d][t] = passed[d][t] + 1 /\ Requests!Before(d, s)' = Requests!Before(d, s) + 1
      BY <1>1, <1>7, <1>13, <2>1, <2>3
    <3>2. passed[d][t] \in Nat /\ Requests!Before(d, s) \in Nat
      BY <1>11, <1>14
    <3>3. passed'[d][t] - Requests!Before(d, s)' = passed[d][t] - Requests!Before(d, s)
      BY <3>1, <3>2
    <3> QED BY <2>1, <3>3
  <2>4. CASE d = b /\ instant <= t /\ s <= instant
    <3>1. passed'[d][t] = Requests!Total(b) + 1 /\ Requests!Before(d, s)' = Requests!Before(b, s)
      BY <1>1, <1>7, <1>13, <2>1, <2>4 DEF PassedSoFar
    <3>2. s + (Requests!Total(b) + 1 - Requests!Before(b, s)) * P <= instant + B * P
      <4>1. (Requests!Total(b) + 1 - Requests!Before(b, s)) \in Nat
        BY <1>14, <2>4
      <4>2. \A n \in Nat : n * P \in Nat
        BY <1>15
      <4> QED BY <1>1, <1>2, <1>3, <1>4, <1>16, <2>1, <2>4, <4>1, <4>2
    <3>3. (Requests!Total(b) + 1 - Requests!Before(b, s)) * P \in Nat
      <4>1. (Requests!Total(b) + 1 - Requests!Before(b, s)) \in Nat
        BY <1>14, <2>4
      <4> QED BY <1>15, <4>1
    <3>4. passed'[d][t] - Requests!Before(d, s)' = Requests!Total(b) + 1 - Requests!Before(b, s)
      BY <1>14, <3>1
    <3>5. (Requests!Total(b) + 1 - Requests!Before(b, s)) * P <= B * P + (t - s)
      BY <1>1, <1>2, <2>1, <2>4, <3>2, <3>3
    <3> QED BY <2>4, <3>4, <3>5, Zenon
  <2> QED BY <1>1, <2>1, <2>2, <2>3, <2>4
<1> QED BY <1>6, <1>8, <1>9, <1>10, <1>12, <1>17, <1>18

\* Whole seconds are rounded up, and a burst is never exceeded by less than a whole request.
LEMMA RoundedUp ==
  ASSUME NEW x \in Int, NEW m \in Nat \ {0}
  PROVE  ((x + m - 1) \div m) * m \in Int /\ x <= ((x + m - 1) \div m) * m
<1>1. \A y \in Int : y \div m \in Int /\ (y \div m) * m \in Int /\ y < (y \div m) * m + m
  OBVIOUS
<1>2. x + m - 1 \in Int
  OBVIOUS
<1> QED BY <1>1, <1>2

\* Requests that are worth n periods in the time d are no more than fit in it.
LEMMA WholeRequests ==
  ASSUME NEW n \in Int, NEW k \in Nat, NEW p \in Nat \ {0}, NEW d \in Nat, n * p <= k * p + d
  PROVE  n <= k + d \div p
OBVIOUS

\* What a step leaves of the parts of the invariant when no bucket is charged.
LEMMA Uncharged ==
  ASSUME Requests!RequestGuardAssumption, GuardInv, UNCHANGED <<buckets, passed>>,
         instant' \in Requests!Time, instant <= instant'
  PROVE  KeysFit' /\ PassedSoFar' /\ Spaced' /\ Rated'
<1>1. /\ instant \in Nat /\ instant' \in Nat /\ instant \in Requests!Time
      /\ buckets \in [Requests!Bucket -> [tat : Nat, until : Nat]]
      /\ passed \in [Requests!Bucket -> [Requests!Time -> Nat]]
      /\ KeysFit /\ PassedSoFar /\ Spaced /\ Rated
  BY Allowances DEF GuardInv, Requests!TypeOK
<1>2. KeysFit'
  BY <1>1, Allowances DEF KeysFit
<1>3. PassedSoFar'
  BY <1>1, Allowances DEF PassedSoFar, Requests!Total
<1>4. Spaced'
  <2> SUFFICES ASSUME NEW b \in Requests!Bucket, NEW s \in Requests!Time, s <= instant',
                      Requests!Before(b, s) < Requests!Total(b)
               PROVE  s + (Requests!Total(b) - Requests!Before(b, s)) * Period[b] <= buckets[b].tat
    BY DEF Spaced, Requests!Before, Requests!Total
  <2>1. s \in Nat /\ (s # 0 => s - 1 \in Requests!Time)
    BY Allowances
  <2>2. s <= instant
    BY <1>1, <2>1 DEF PassedSoFar, Requests!Before
  <2> QED BY <1>1, <2>2 DEF Spaced
<1>5. Rated'
  BY <1>1 DEF Rated, Requests!Before
<1> QED BY <1>2, <1>3, <1>4, <1>5

\* The answers, and where the requests are, are of their types.
LEMMA GuardTypes ==
  ASSUME Requests!RequestGuardAssumption, Requests!TypeOK, NEW c \in Client,
         NEW b \in Requests!Bucket,
         instant' \in Requests!Time, buckets' \in [Requests!Bucket -> [tat : Nat, until : Nat]],
         sockets' = sockets, standing' = standing,
         passed' \in [Requests!Bucket -> [Requests!Time -> Nat]],
         \/ \E step \in {"idle", "verify", "limit", "guard"} : Requests!Goes(c, step)
         \/ \E what \in {"none", "done", "login", "denied", "later", "unavailable"} :
              Requests!Answers(c, what),
         \/ told' = told
         \/ \E n, m \in Nat : told' = [told EXCEPT ![c] = [when |-> n, after |-> m]],
         misled' \in BOOLEAN
  PROVE  Requests!TypeOK'
<1>1. wayAt' \in [Client -> {"idle", "verify", "limit", "guard"}]
  BY DEF Requests!TypeOK, Requests!Goes, Requests!Answers
<1>2. answer' \in [Client -> {"none", "done", "login", "denied", "later", "unavailable"}]
  BY DEF Requests!TypeOK, Requests!Goes, Requests!Answers
<1>3. told' \in [Client -> [when : Nat, after : Nat]]
  <2>1. told \in [Client -> [when : Nat, after : Nat]]
    BY DEF Requests!TypeOK
  <2>2. ASSUME NEW n \in Nat, NEW m \in Nat, told' = [told EXCEPT ![c] = [when |-> n, after |-> m]]
        PROVE  told' \in [Client -> [when : Nat, after : Nat]]
    BY <2>1, <2>2
  <2> QED BY <2>1, <2>2
<1> QED BY <1>1, <1>2, <1>3 DEF Requests!TypeOK, Requests!Time

\* A request that is answered after the end of the session is sent to the login page, and no other.
LEMMA LoginStays ==
  ASSUME Requests!TypeOK, Requests!OnlyTheEndedLogIn, NEW c \in Client, standing' = standing,
         \/ \E step \in {"idle", "verify", "limit", "guard"} : Requests!Goes(c, step)
         \/ \E what \in {"none", "done", "denied", "later", "unavailable"} :
              Requests!Answers(c, what)
         \/ standing = "ended" /\ Requests!Answers(c, "login")
  PROVE  Requests!OnlyTheEndedLogIn'
BY DEF Requests!OnlyTheEndedLogIn, Requests!Goes, Requests!Answers, Requests!TypeOK

\* Every step keeps the account of the requests that passed.
LEMMA GuardStep ==
  ASSUME Requests!RequestGuardAssumption, GuardInv, [Requests!Next]_(Requests!vars)
  PROVE  GuardInv'
<1>1. /\ Requests!TypeOK /\ KeysFit /\ PassedSoFar /\ Spaced /\ Rated /\ ToldInTime /\ ~misled
      /\ misled \in BOOLEAN
      /\ Requests!OnlyTheEndedLogIn /\ instant \in Requests!Time /\ instant \in Nat
      /\ instant <= GuardTime
      /\ buckets \in [Requests!Bucket -> [tat : Nat, until : Nat]]
      /\ passed \in [Requests!Bucket -> [Requests!Time -> Nat]]
      /\ told \in [Client -> [when : Nat, after : Nat]]
      /\ \A c \in Client : Requests!Of(c) \in Requests!Bucket
      /\ Requests!Never.when = GuardTime + 1 /\ Requests!Never.after = 0
      /\ Requests!Never \in [when : Nat, after : Nat]
  BY Allowances DEF GuardInv, Requests!TypeOK, Requests!WaitIsEnough, Requests!Of, Requests!Bucket,
                    Requests!Never
<1>2. \A b \in Requests!Bucket : Requests!Total(b) \in Nat
  BY <1>1, Allowances DEF Requests!Total
<1>3. ASSUME NEW c \in Client, Requests!Ask(c) \/ Requests!Verify(c) \/ Requests!Guard(c)
      PROVE  GuardInv'
  <2>1. /\ UNCHANGED <<sockets, instant, buckets, standing, passed, told, misled>>
        /\ \/ \E step \in {"idle", "verify", "limit", "guard"} : Requests!Goes(c, step)
           \/ \E what \in {"none", "done", "denied", "later", "unavailable"} :
                Requests!Answers(c, what)
           \/ standing = "ended" /\ Requests!Answers(c, "login")
    BY <1>3 DEF Requests!Ask, Requests!Verify, Requests!Guard, Requests!AuthIsSilent
  <2>2. Requests!TypeOK'
    BY <1>1, <2>1, GuardTypes
  <2>3. Requests!OnlyTheEndedLogIn'
    BY <1>1, <2>1, LoginStays
  <2>4. KeysFit' /\ PassedSoFar' /\ Spaced' /\ Rated'
    BY <1>1, <2>1, Uncharged
  <2>5. ToldInTime' /\ Requests!WaitIsEnough'
    BY <1>1, <2>1 DEF ToldInTime, Requests!WaitIsEnough, Requests!Total, Requests!Of
  <2> QED BY <2>2, <2>3, <2>4, <2>5 DEF GuardInv
\* One that is let through, whether or not it is told so, puts off the others of its bucket.
<1>4. ASSUME NEW c \in Client, Requests!AllowAt(Requests!Of(c)) <= instant,
             Requests!Charge(Requests!Of(c)), Requests!Counted(Requests!Of(c)),
             UNCHANGED <<sockets, instant, standing, misled>>,
             told' = [told EXCEPT ![c] = Requests!Never],
             Requests!Goes(c, "guard") \/ Requests!Answers(c, "later")
      PROVE  GuardInv'
  <2> DEFINE b == Requests!Of(c)
  <2>1. /\ b \in Requests!Bucket
        /\ buckets' \in [Requests!Bucket -> [tat : Nat, until : Nat]]
        /\ passed' \in [Requests!Bucket -> [Requests!Time -> Nat]]
        /\ \A d \in Requests!Bucket \ {b} : buckets'[d] = buckets[d] /\ passed'[d] = passed[d]
        /\ passed'[b][GuardTime] = Requests!Total(b) + 1
        /\ KeysFit' /\ PassedSoFar' /\ Spaced' /\ Rated'
    BY <1>1, <1>4, Charges
  <2>2. \E n, m \in Nat : told' = [told EXCEPT ![c] = [when |-> n, after |-> m]]
    BY <1>1, <1>4 DEF Requests!Never
  <2>3. Requests!TypeOK'
    BY <1>1, <1>4, <2>1, <2>2, GuardTypes
  <2>4. Requests!OnlyTheEndedLogIn'
    BY <1>1, <1>4, LoginStays
  <2>5. ToldInTime'
    <3> SUFFICES ASSUME NEW d \in Client
                 PROVE  /\ told'[d].after <= passed'[Requests!Of(d)][GuardTime]
                        /\ told'[d].when <= GuardTime
                             /\ told'[d].after = passed'[Requests!Of(d)][GuardTime] =>
                             buckets'[Requests!Of(d)].tat
                               - (Burst[Requests!Of(d)] - 1) * Period[Requests!Of(d)]
                               <= told'[d].when
      BY <1>4 DEF ToldInTime, Requests!Total, Requests!Of
    <3>1. CASE d = c
      BY <1>1, <1>2, <1>4, <2>1, <3>1, Allowances
    <3>2. CASE d # c /\ Requests!Of(d) = b
      BY <1>1, <1>2, <1>4, <2>1, <3>2 DEF ToldInTime
    <3>3. CASE d # c /\ Requests!Of(d) # b
      BY <1>1, <1>4, <2>1, <3>3 DEF ToldInTime, Requests!Total
    <3> QED BY <3>1, <3>2, <3>3
  <2> QED BY <1>1, <1>4, <2>1, <2>3, <2>4, <2>5 DEF GuardInv, Requests!WaitIsEnough
<1>5. ASSUME NEW c \in Client, Requests!Pass(c) PROVE GuardInv'
  BY <1>4, <1>5 DEF Requests!Pass
<1>6. ASSUME NEW c \in Client, Requests!RedisFails(c) PROVE GuardInv'
  <2>1. CASE UNCHANGED <<buckets, passed>>
    <3>1. /\ UNCHANGED <<sockets, instant, standing, misled>>
          /\ told' = [told EXCEPT ![c] = Requests!Never]
          /\ Requests!Answers(c, "later")
      BY <1>6 DEF Requests!RedisFails
    <3>2. \E n, m \in Nat : told' = [told EXCEPT ![c] = [when |-> n, after |-> m]]
      BY <1>1, <3>1 DEF Requests!Never
    <3>3. Requests!TypeOK'
      BY <1>1, <2>1, <3>1, <3>2, GuardTypes
    <3>4. Requests!OnlyTheEndedLogIn'
      BY <1>1, <3>1, LoginStays
    <3>5. KeysFit' /\ PassedSoFar' /\ Spaced' /\ Rated'
      BY <1>1, <2>1, <3>1, Uncharged
    <3>6. ToldInTime'
      <4> SUFFICES ASSUME NEW d \in Client
                   PROVE  /\ told'[d].after <= Requests!Total(Requests!Of(d))
                          /\ told'[d].when <= GuardTime
                               /\ told'[d].after = Requests!Total(Requests!Of(d)) =>
                               buckets[Requests!Of(d)].tat
                                 - (Burst[Requests!Of(d)] - 1) * Period[Requests!Of(d)]
                                 <= told'[d].when
        BY <2>1, <3>1 DEF ToldInTime, Requests!Total, Requests!Of
      <4>1. CASE d = c
        BY <1>1, <1>2, <3>1, <4>1, Allowances
      <4>2. CASE d # c
        BY <1>1, <3>1, <4>2 DEF ToldInTime
      <4> QED BY <4>1, <4>2
    <3> QED BY <1>1, <3>1, <3>3, <3>4, <3>5, <3>6 DEF GuardInv, Requests!WaitIsEnough
  <2>2. CASE ~UNCHANGED <<buckets, passed>>
    BY <1>4, <1>6, <2>2 DEF Requests!RedisFails
  <2> QED BY <2>1, <2>2
<1>7. ASSUME NEW c \in Client, Requests!Refuse(c) PROVE GuardInv'
  <2> DEFINE b == Requests!Of(c)
             away == Requests!AllowAt(b) - instant
  <2>1. /\ instant < Requests!AllowAt(b) /\ Requests!Answers(c, "later")
        /\ UNCHANGED <<sockets, instant, buckets, standing, passed>>
        /\ misled' = (misled \/ (told[c].when <= instant /\ told[c].after = Requests!Total(b)))
        /\ told' = [told EXCEPT ![c] = IF c \in sockets THEN Requests!Never
                                       ELSE [when |-> instant
                                         + Requests!RetryAfter(b), after |-> Requests!Total(b)]]
    BY <1>7 DEF Requests!Refuse
  <2>2. /\ b \in Requests!Bucket
        /\ Requests!AllowAt(b) = buckets[b].tat - (Burst[b] - 1) * Period[b]
        /\ Requests!AllowAt(b) \in Int
        /\ Requests!Total(b) \in Nat
    <3>1. /\ buckets[b].tat \in Nat /\ Burst[b] * Period[b] \in Nat
          /\ Period[b] <= Burst[b] * Period[b]
          /\ (Burst[b] - 1) * Period[b] = Burst[b] * Period[b] - Period[b] /\ Period[b] \in Nat
          /\ Requests!Total(b) \in Nat
      BY <1>1, <1>2, Allowances
    <3>2. Requests!Tat(b) = buckets[b].tat
      BY <1>1, <2>1, <3>1 DEF Requests!Tat, Requests!AllowAt
    <3> QED BY <1>1, <3>1, <3>2 DEF Requests!AllowAt
  <2>3. Requests!RetryAfter(b) \in Nat /\ Requests!AllowAt(b) <= instant + Requests!RetryAfter(b)
    <3>1. /\ ((away + Second - 1) \div Second) * Second \in Int
          /\ away <= ((away + Second - 1) \div Second) * Second
      <4>1. away \in Int /\ Second \in Nat \ {0}
        BY <1>1, <2>2, Allowances
      <4> HIDE DEF away
      <4> QED BY <4>1, RoundedUp
    <3>2. PICK k \in Int : k = ((away + Second - 1) \div Second) * Second
      BY <3>1
    <3>3. Requests!RetryAfter(b) = Requests!AtLeast(Second, k)
      BY <3>2 DEF Requests!RetryAfter
    <3> QED BY <1>1, <2>2, <3>1, <3>2, <3>3, Allowances DEF Requests!AtLeast
  <2>4. ~misled' /\ misled' \in BOOLEAN
    <3>1. told[c].when \in Nat
      BY <1>1
    <3>2. ~(told[c].when <= instant /\ told[c].after = Requests!Total(b))
      <4>1. told[c].when <= GuardTime /\ told[c].after = Requests!Total(b) =>
              Requests!AllowAt(b) <= told[c].when
        BY <1>1, <2>2 DEF ToldInTime
      <4>2. instant \in Nat /\ GuardTime \in Nat /\ instant <= GuardTime
        BY <1>1, Allowances
      <4> HIDE DEF b
      <4> QED BY <2>1, <2>2, <3>1, <4>1, <4>2
    <3>3. ~misled'
      BY <1>1, <2>1, <3>2
    <3>4. misled' = (misled \/ (told[c].when <= instant /\ told[c].after = Requests!Total(b)))
      BY <2>1
    <3>5. misled' \in BOOLEAN
      BY <3>4, Zenon
    <3> QED BY <3>3, <3>5
  <2>5. \E n, m \in Nat : told' = [told EXCEPT ![c] = [when |-> n, after |-> m]]
    <3>1. CASE c \in sockets
      BY <1>1, <2>1, <3>1 DEF Requests!Never
    <3>2. CASE c \notin sockets
      <4>1. told' = [told EXCEPT ![c]
              = [when |-> instant + Requests!RetryAfter(b), after |-> Requests!Total(b)]]
        BY <2>1, <3>2
      <4>2. instant + Requests!RetryAfter(b) \in Nat /\ Requests!Total(b) \in Nat
        BY <1>1, <2>2, <2>3
      <4> QED BY <4>1, <4>2
    <3> QED BY <3>1, <3>2
  <2>6. Requests!TypeOK'
    BY <1>1, <2>1, <2>4, <2>5, GuardTypes
  <2>7. Requests!OnlyTheEndedLogIn'
    BY <1>1, <2>1, LoginStays
  <2>8. KeysFit' /\ PassedSoFar' /\ Spaced' /\ Rated'
    BY <1>1, <2>1, Uncharged
  <2>9. ToldInTime'
    <3> SUFFICES ASSUME NEW d \in Client
                 PROVE  /\ told'[d].after <= Requests!Total(Requests!Of(d))
                        /\ told'[d].when <= GuardTime
                             /\ told'[d].after = Requests!Total(Requests!Of(d)) =>
                             buckets[Requests!Of(d)].tat
                               - (Burst[Requests!Of(d)] - 1) * Period[Requests!Of(d)]
                               <= told'[d].when
      BY <2>1 DEF ToldInTime, Requests!Total, Requests!Of
    <3>1. CASE d = c /\ c \in sockets
      BY <1>1, <1>2, <2>1, <3>1, Allowances
    <3>2. CASE d = c /\ c \notin sockets
      BY <1>1, <2>1, <2>2, <2>3, <3>2
    <3>3. CASE d # c
      BY <1>1, <2>1, <3>3 DEF ToldInTime
    <3> QED BY <3>1, <3>2, <3>3
  <2> QED BY <2>4, <2>6, <2>7, <2>8, <2>9 DEF GuardInv, Requests!WaitIsEnough
<1>8. ASSUME Requests!Falls PROVE GuardInv'
  <2>1. /\ UNCHANGED <<sockets, instant, buckets, wayAt, answer, passed, told, misled>>
        /\ standing # "ended"
        /\ standing' \in {"viewer", "ended"}
    BY <1>8 DEF Requests!Falls
  <2>2. Requests!TypeOK'
    BY <1>1, <2>1 DEF Requests!TypeOK
  <2>3. KeysFit' /\ PassedSoFar' /\ Spaced' /\ Rated'
    BY <1>1, <2>1, Uncharged
  <2>4. ToldInTime' /\ Requests!WaitIsEnough' /\ Requests!OnlyTheEndedLogIn'
    BY <1>1, <2>1 DEF ToldInTime, Requests!WaitIsEnough, Requests!OnlyTheEndedLogIn,
                      Requests!Total, Requests!Of
  <2> QED BY <2>2, <2>3, <2>4 DEF GuardInv
<1>9. ASSUME Requests!Tick PROVE GuardInv'
  <2>1. /\ UNCHANGED <<sockets, buckets, standing, wayAt, answer, passed, told, misled>>
        /\ instant' = instant + 1
        /\ instant' \in Requests!Time /\ instant <= instant'
    BY <1>1, <1>9, Allowances DEF Requests!Tick, Requests!Time
  <2>2. Requests!TypeOK'
    BY <1>1, <2>1 DEF Requests!TypeOK
  <2>3. KeysFit' /\ PassedSoFar' /\ Spaced' /\ Rated'
    BY <1>1, <2>1, Uncharged
  <2>4. ToldInTime' /\ Requests!WaitIsEnough' /\ Requests!OnlyTheEndedLogIn'
    BY <1>1, <2>1 DEF ToldInTime, Requests!WaitIsEnough, Requests!OnlyTheEndedLogIn,
                      Requests!Total, Requests!Of
  <2> QED BY <2>2, <2>3, <2>4 DEF GuardInv
<1>10. ASSUME UNCHANGED Requests!vars PROVE GuardInv'
  <2>1. UNCHANGED <<sockets, instant, buckets, standing, wayAt, answer, passed, told, misled>>
    BY <1>10 DEF Requests!vars
  <2>2. KeysFit' /\ PassedSoFar' /\ Spaced' /\ Rated'
    BY <1>1, <2>1, Uncharged
  <2>3. Requests!TypeOK' /\ ToldInTime' /\ Requests!WaitIsEnough' /\ Requests!OnlyTheEndedLogIn'
    BY <1>1, <2>1 DEF Requests!TypeOK, ToldInTime, Requests!WaitIsEnough,
                      Requests!OnlyTheEndedLogIn, Requests!Total, Requests!Of
  <2> QED BY <2>2, <2>3 DEF GuardInv
<1> QED BY <1>3, <1>5, <1>6, <1>7, <1>8, <1>9, <1>10 DEF Requests!Next

\* What the invariant says of the properties.
LEMMA GuardRight ==
  ASSUME Requests!RequestGuardAssumption, GuardInv
  PROVE  Requests!TypeOK /\ Requests!RateIsKept /\ Requests!WaitIsEnough
           /\ Requests!OnlyTheEndedLogIn
<1>1. Requests!RateIsKept
  <2> SUFFICES ASSUME NEW b \in Requests!Bucket, NEW s \in Requests!Time, NEW t \in Requests!Time,
                      s <= t
               PROVE  passed[b][t] - Requests!Before(b, s) <= Burst[b] + (t - s) \div Period[b]
    BY DEF Requests!RateIsKept
  <2>1. /\ s \in Nat /\ t \in Nat /\ t - s \in Nat /\ (s # 0 => s - 1 \in Requests!Time)
        /\ passed \in [Requests!Bucket -> [Requests!Time -> Nat]] /\ Burst[b] \in Nat
        /\ Period[b] \in Nat \ {0}
    <3>1. passed \in [Requests!Bucket -> [Requests!Time -> Nat]]
      BY DEF GuardInv, Requests!TypeOK
    <3>2. s \in Nat /\ t \in Nat /\ (s # 0 => s - 1 \in Requests!Time)
      BY Allowances
    <3>3. Burst[b] \in Nat /\ Period[b] \in Nat \ {0}
      BY DEF Requests!RequestGuardAssumption
    <3> QED BY <3>1, <3>2, <3>3
  <2>2. passed[b][t] - Requests!Before(b, s) \in Int
    BY <2>1 DEF Requests!Before
  <2>3. (passed[b][t] - Requests!Before(b, s)) * Period[b] <= Burst[b] * Period[b] + (t - s)
    BY DEF GuardInv, Rated
  <2> QED BY <2>1, <2>2, <2>3, WholeRequests
<1> QED BY <1>1 DEF GuardInv

-----------------------------------------------------------------------------
(* The services *)

\* A step of the services is a step of each part, or leaves it alone.
LEMMA ServicesSteps ==
  ASSUME [Next]_vars
  PROVE  /\ [Links!Next]_(Links!vars) /\ [Throttle!Next]_(Throttle!vars)
         /\ [Outbox!Next]_(Outbox!vars) /\ [Signing!Next]_(Signing!vars)
         /\ [Readings!Next]_(Readings!vars) /\ [Erasing!Next]_(Erasing!vars)
         /\ [Runs!Next]_(Runs!vars) /\ [Certified!Next]_(Certified!vars) /\ [Kind!Next]_(Kind!vars)
         /\ [Taking!Next]_(Taking!vars) /\ [Single!Next]_(Single!vars)
         /\ [Servers!Next]_(Servers!vars) /\ [Requests!Next]_(Requests!vars)
         /\ part' = part
         /\ part = "presses" => [Presses!Next]_(Presses!vars)
<1>1. [Links!Next]_(Links!vars)
  BY DEF Next, vars, links, Links!vars
<1>2. [Throttle!Next]_(Throttle!vars)
  BY DEF Next, vars, throttle, Throttle!vars
<1>3. [Outbox!Next]_(Outbox!vars)
  BY DEF Next, vars, outbox, Outbox!vars
<1>4. [Signing!Next]_(Signing!vars)
  BY DEF Next, vars, signing, Signing!vars
<1>5. [Readings!Next]_(Readings!vars)
  BY DEF Next, vars, readings, Readings!vars
<1>6. [Erasing!Next]_(Erasing!vars)
  BY DEF Next, vars, erasing, Erasing!vars
<1>7. [Runs!Next]_(Runs!vars)
  BY DEF Next, vars, versions, Runs!vars
<1>8. [Certified!Next]_(Certified!vars)
  BY DEF Next, vars, pki, Certified!vars
<1>9. [Kind!Next]_(Kind!vars)
  BY DEF Next, vars, containers, Kind!vars
<1>10. part' = part
  BY DEF Next, vars
<1>11. part = "presses" => [Presses!Next]_(Presses!vars)
  BY DEF Next, vars, decisions, Presses!vars
<1>12. [Taking!Next]_(Taking!vars)
  BY DEF Next, vars, intake, Taking!vars
<1>13. [Single!Next]_(Single!vars)
  BY DEF Next, vars, pipeline, Single!vars
<1>14. [Servers!Next]_(Servers!vars)
  BY DEF Next, vars, processes, Servers!vars
<1>15. [Requests!Next]_(Requests!vars)
  BY DEF Next, vars, requests, Requests!vars
<1> QED BY <1>1, <1>2, <1>3, <1>4, <1>5, <1>6, <1>7, <1>8, <1>9, <1>10, <1>11, <1>12, <1>13,
           <1>14, <1>15

\* The decisions run from the start of a behaviour to its end, or never.
LEMMA PressesInv ==
  FairSpec => [](part = "presses" => DecisionsInv)
<1>1. Init => (part = "presses" => DecisionsInv)
  BY ServicesAssumption, DecisionsStart DEF Init
<1>2. (part = "presses" => DecisionsInv) /\ [Next]_vars => (part = "presses" => DecisionsInv)'
  BY ServicesAssumption, ServicesSteps, DecisionsStep
<1> QED BY <1>1, <1>2, PTL DEF FairSpec

\* decide, notify_decision, claim_display and edit_message: however many decisions are made, and
\* in whatever order their notices come, the message shows the one that is recorded when nothing
\* is under way, but for the reasons that the code leaves open.
THEOREM DecisionIsShown == FairSpec => []MessageShowsDecision
<1>1. DecisionsInv => Presses!TypeOK /\ Presses!MessageShowsDecision
  BY ServicesAssumption, DecisionTypes, QuietShown
<1>2. (part = "presses" => DecisionsInv) => MessageShowsDecision
  BY <1>1 DEF MessageShowsDecision
<1> QED BY <1>2, PressesInv, PTL

\* _first_time and the poller's lease: though a lease lapses, a poller dies and Redis fails, no
\* press is forwarded by two pollers, or after it was answered.
THEOREM PressIsForwardedOnce == FairSpec => []PressedOnce
<1>1. DecisionsInv => Presses!PressedOnce
  BY DEF DecisionsInv, PollShape
<1>2. (part = "presses" => DecisionsInv) => PressedOnce
  BY <1>1 DEF PressedOnce
<1> QED BY <1>2, PressesInv, PTL

\* store_telegram_link, check_login and record_failure: one link of an operator is good, and a
\* lock holds whatever logins fail at once, each for its time.
THEOREM EntryStaysGuarded == FairSpec => []EntryIsGuarded
<1>1. Init => Links!Init /\ Throttle!Init
  BY DEF Init
<1>2. FairSpec => Links!Spec /\ Throttle!Spec
  BY <1>1, ServicesSteps, PTL DEF FairSpec, Links!Spec, Throttle!Spec
<1>3. Links!Spec => [](Links!TypeOK /\ Links!OneLinkIsGood)
  BY ServicesAssumption, LinksHold
<1>4. Throttle!Spec => [](/\ Throttle!TypeOK /\ Throttle!TriesAreBounded
                          /\ Throttle!LocksHold /\ Throttle!CountsPass)
  BY ServicesAssumption, ThrottleHolds
<1>5. /\ Links!TypeOK /\ Links!OneLinkIsGood
      /\ Throttle!TypeOK /\ Throttle!TriesAreBounded /\ Throttle!LocksHold /\ Throttle!CountsPass
      => EntryIsGuarded
  BY DEF EntryIsGuarded
<1> QED BY <1>2, <1>3, <1>4, <1>5, PTL

\* enqueue, claim and bury; LocalFileSigner and PublicKeyring; _record_access and query;
\* delete_user, ErasePayloads and their tools: a change has its event, every checkpoint verifies,
\* what is read is recorded, and of a deleted account only what was late is left.
THEOREM AuditStaysTrue == FairSpec => []AuditIsTrue
<1> DEFINE Inv == OutboxInv /\ KeysInv /\ ReadsInv /\ ErasureInv
<1>1. Init => Inv
  BY ServicesAssumption, OutboxStart, KeysStart, ReadsStart, ErasureStart DEF Init
<1>2. Inv /\ [Next]_vars => Inv'
  BY ServicesAssumption, ServicesSteps, OutboxStep, KeysStep, ReadsStep, ErasureStep
<1>3. Inv => AuditIsTrue
  BY DEF OutboxInv, KeysInv, ReadsInv, ErasureInv, AuditIsTrue
<1> QED BY <1>1, <1>2, <1>3, PTL DEF FairSpec

\* _run, _record and _Lock; ensure_ca, ensure_leaf, ensure_intermediate and issue; start, stop,
\* release_moved and pin_ip: wherever the commands died before, what is recorded of the
\* migrations is what the database has, certificates have their keys and a thorough run leaves
\* them good, and the containers keep their addresses.
THEOREM RerunsStayRight == FairSpec => []RerunsConverge
<1> DEFINE Inv == MigrationsInv /\ CertsInv /\ ClusterInv
<1>1. Init => Inv
  BY ServicesAssumption, MigrationsStart, CertsStart, ClusterStart DEF Init
<1>2. Inv /\ [Next]_vars => Inv'
  BY ServicesAssumption, ServicesSteps, MigrationsStep, CertsStep, ClusterStep
<1>3. Inv => RerunsConverge
  BY ServicesAssumption, MigrationsRight, CertsRight, ClusterRight DEF RerunsConverge
<1> QED BY <1>1, <1>2, <1>3, PTL DEF FairSpec

\* acquire, resolve_recipient, _summarise and _deliver: what is accepted is told once for each
\* recipient there was, whatever is asked again and whatever fails or dies before a post, unless
\* two tasks meet over an intent or a post is not recorded; what is shown of it is then the worst
\* of its intents; and one worker posts an alert once, when nothing fails.
THEOREM NoticesStayOne == FairSpec => []NoticesArriveOnce
<1>1. Init => IntakeInv
  BY ServicesAssumption, IntakeStart DEF Init
<1>2. IntakeInv /\ [Next]_vars => IntakeInv'
  BY ServicesAssumption, ServicesSteps, IntakeStep
<1>3. Init => Single!Init
  BY DEF Init
<1>4. FairSpec => Single!Spec
  BY <1>3, ServicesSteps, PTL DEF FairSpec, Single!Spec
<1>5. Single!Spec => [](Single!TypeOK /\ Single!PostedOnce)
  <2>1. \A v, w \in {q1} : v = w
    OBVIOUS
  <2>2. Single!Spec => []Single!PostedOnce
    BY <2>1, SingleAssumption, Single!OneWorkerPostsOnce DEF Single!DeliveryAssumption
  <2>3. Single!Spec => []Single!TypeOK
    BY SingleAssumption, Single!TypeCorrect DEF Single!DeliveryAssumption
  <2> QED BY <2>2, <2>3, PTL
<1>6. IntakeInv /\ Single!TypeOK /\ Single!PostedOnce => NoticesArriveOnce
  BY ServicesAssumption, IntakeRight DEF NoticesArriveOnce
<1> QED BY <1>1, <1>2, <1>4, <1>5, <1>6, PTL DEF FairSpec

\* _services, _serve, _run and HealthWatch; rate_limit, its script and get_current_user: however
\* long a process has been told to stop, no request or iteration works with what is closed, and a
\* process is ready only while what it probes of itself is up; at no time do more requests pass
\* than the rate, who waits as told is let in, and only an ended session leads to a login.
THEOREM ServersStayInOrder == FairSpec => []ServersKeepOrder
<1> DEFINE Inv == LifeInv /\ GuardInv
<1>1. Init => Inv
  BY ServicesAssumption, LifeStart, GuardStart DEF Init
<1>2. Inv /\ [Next]_vars => Inv'
  BY ServicesAssumption, ServicesSteps, LifeStep, GuardStep
<1>3. Inv => ServersKeepOrder
  BY ServicesAssumption, LifeRight, GuardRight DEF ServersKeepOrder
<1> QED BY <1>1, <1>2, <1>3, PTL DEF FairSpec
=============================================================================
