------------------------ MODULE WeightUpdateProofs ------------------------
(***************************************************************************)
(* Proofs about what happens when the trainer has new weights.             *)
(*                                                                         *)
(* Requests, for any number of requests, servers and updates, any limits   *)
(* and any routing table.  The load balancer's counts are exact            *)
(* (CountsExact), so that release_server never raises, and no attempt is   *)
(* sent without a token left (RoomLeft), whatever is aborted and whichever *)
(* abort raises.  If every abort pauses its engine and the client resumes  *)
(* what was aborted, the versions recorded for a request enclose those of  *)
(* its tokens (LabelsCover), and a request is generated as if nothing      *)
(* interrupted it (Uninterrupted).                                         *)
(*                                                                         *)
(* Weights, for a chain of any length, any number of buckets and weights   *)
(* and buckets of any size: every server is given the buckets in order,    *)
(* each one whole (ChainSound), and its engine every weight once           *)
(* (WeightsLoaded).                                                        *)
(***************************************************************************)
EXTENDS MCWeightUpdate, FiniteSetTheorems, SequenceTheorems, TLAPS

ClientTypes ==
  /\ pc \in [Request -> {"ready", "routed", "running", "returned", "done"}]
  /\ at \in [Request -> 0 .. NumServers]
  /\ merged \in [Request -> Seq(Int)]
  /\ chunk \in [Request -> Seq(Int)]
  /\ reason \in [Request -> {"aborted", "completed"}]
  /\ label \in [Request -> Nat]
  /\ steps \in [Request -> Int \X Int]

BalancerTypes ==
  /\ inflight \in [Server -> Nat]
  /\ release \in [Request -> 0 .. NumServers]
  /\ recent \in Seq(Request)
  /\ route \in [Request -> 0 .. NumServers]

ServerTypes ==
  /\ weights \in [Server -> Int]
  /\ named \in [Server -> Nat]
  /\ paused \subseteq Server

ManagerTypes ==
  /\ phase \in {"idle", "abort", "load", "resume"}
  /\ stage \in [Server -> {"todo", "loading", "loaded", "over"}]
  /\ target \in Nat
  /\ failures \in Nat

\* A request is at a server exactly while it has an attempt, and has then no release on its way.
Places ==
  \A r \in Request :
    /\ at[r] # 0 <=> pc[r] \in {"routed", "running", "returned"}
    /\ at[r] # 0 => release[r] = 0

\* An attempt that was aborted had not reached the limit.
AbortedRoom ==
  \A r \in Request :
    pc[r] = "returned" /\ reason[r] = "aborted" => Len(merged[r]) + Len(chunk[r]) < TotalLimit

IInv ==
  /\ ClientTypes /\ BalancerTypes /\ ServerTypes /\ ManagerTypes
  /\ Places /\ CountsExact /\ RoomLeft /\ AbortedRoom

-----------------------------------------------------------------------------
(* Counting. *)

On(f, s) == {q \in Request : f[q] = s}
OthersOn(f, r, s) == {q \in Request \ {r} : f[q] = s}

LEMMA CountIn ==
  ASSUME NEW f, NEW r \in Request, NEW s, f[r] = s
  PROVE  Cardinality(On(f, s)) = Cardinality(OthersOn(f, r, s)) + 1
  <1>1. IsFiniteSet(OthersOn(f, r, s))
    BY FS_Subset, PartialRolloutAssumption DEF OthersOn
  <1>2. On(f, s) = OthersOn(f, r, s) \cup {r} /\ r \notin OthersOn(f, r, s)
    BY DEF On, OthersOn
  <1>. QED
    BY <1>1, <1>2, FS_AddElement

LEMMA CountOut ==
  ASSUME NEW f, NEW r \in Request, NEW s, f[r] # s
  PROVE  Cardinality(On(f, s)) = Cardinality(OthersOn(f, r, s))
  <1>1. On(f, s) = OthersOn(f, r, s)
    BY DEF On, OthersOn
  <1>. QED
    BY <1>1

LEMMA OthersOnCount ==
  ASSUME NEW f, NEW r, NEW s
  PROVE  Cardinality(OthersOn(f, r, s)) \in Nat
  BY FS_Subset, FS_CardinalityType, PartialRolloutAssumption DEF OthersOn

Moves(f, g, r, s) ==
  \E n \in Nat :
    /\ f[r] = s => Cardinality(On(f, s)) = n + 1
    /\ f[r] # s => Cardinality(On(f, s)) = n
    /\ g[r] = s => Cardinality(On(g, s)) = n + 1
    /\ g[r] # s => Cardinality(On(g, s)) = n

\* One request moves from one place to another; what is counted at s follows.
LEMMA Moved ==
  ASSUME NEW f, NEW g, NEW r \in Request, NEW s,
         \A q \in Request \ {r} : g[q] = f[q]
  PROVE  Moves(f, g, r, s)
  <1>. USE DEF Moves
  <1>1. OthersOn(g, r, s) = OthersOn(f, r, s)
    BY DEF OthersOn
  <1>. Cardinality(OthersOn(f, r, s)) \in Nat
    BY OthersOnCount
  <1>. WITNESS Cardinality(OthersOn(f, r, s)) \in Nat
  <1>. QED
    BY <1>1, CountIn, CountOut

LEMMA Servers == 0 \notin Server /\ Server \subseteq 0 .. NumServers /\ Server \subseteq Nat
  BY PartialRolloutAssumption DEF Server

LEMMA Limits == TotalLimit \in Nat \ {0}
  BY PartialRolloutAssumption DEF TotalLimit, NoLimit

-----------------------------------------------------------------------------
LEMMA Initially == Init => IInv
  <1>. SUFFICES ASSUME Init PROVE IInv
    OBVIOUS
  <1>. USE DEF Init
  <1>1. ClientTypes /\ BalancerTypes /\ ServerTypes /\ ManagerTypes
    BY PartialRolloutAssumption
    DEF ClientTypes, BalancerTypes, ServerTypes, ManagerTypes, Server, Unset
  <1>2. Places
    BY DEF Places
  <1>3. CountsExact
    <2>. SUFFICES ASSUME NEW s \in Server
                  PROVE  inflight[s] = Cardinality({r \in Request : at[r] = s})
                                       + Cardinality({r \in Request : release[r] = s})
      BY DEF CountsExact
    <2>1. {r \in Request : at[r] = s} = {} /\ {r \in Request : release[r] = s} = {}
      BY Servers
    <2>2. /\ Cardinality({r \in Request : at[r] = s}) = 0
          /\ Cardinality({r \in Request : release[r] = s}) = 0
      BY ONLY <2>1, FS_EmptySet, Zenon
    <2>3. inflight[s] = 0
      OBVIOUS
    <2>. QED
      BY ONLY <2>2, <2>3
  <1>4. RoomLeft /\ AbortedRoom
    <2>1. \A r \in Request : Len(merged[r]) = 0 /\ Len(chunk[r]) = 0
      OBVIOUS
    <2>. QED
      BY <2>1, Limits DEF RoomLeft, AbortedRoom
  <1>. QED
    BY <1>1, <1>2, <1>3, <1>4 DEF IInv

-----------------------------------------------------------------------------
(* What the steps need to know of the operators they are built from. *)

LEMMA TouchType ==
  ASSUME BalancerTypes, NEW r \in Request
  PROVE  Touch(r) \in Seq(Request)
  <1>. USE PartialRolloutAssumption
  <1>. DEFINE i == CHOOSE i \in 1 .. Len(recent) : recent[i] = r
              Others == IF Cached(r) THEN SubSeq(recent, 1, i - 1) \o SubSeq(recent, i + 1, Len(recent))
                        ELSE IF Len(recent) >= CacheSize THEN Tail(recent) ELSE recent
  <1>1. recent \in Seq(Request) /\ Len(recent) \in Nat
    BY LenProperties DEF BalancerTypes
  <1>2. CASE Cached(r)
    <2>1. i \in 1 .. Len(recent)
      BY <1>2 DEF Cached
    <2>. HIDE DEF i
    <2>2. SubSeq(recent, 1, i - 1) \in Seq(Request)
      BY <1>1, <2>1, SubSeqProperties
    <2>3. SubSeq(recent, i + 1, Len(recent)) \in Seq(Request)
      BY <1>1, <2>1, SubSeqProperties
    <2>4. SubSeq(recent, 1, i - 1) \o SubSeq(recent, i + 1, Len(recent)) \in Seq(Request)
      BY <2>2, <2>3, ConcatProperties
    <2>5. Others \in Seq(Request)
      BY <1>2, <2>4
    <2>. QED
      BY <2>5, AppendProperties DEF Touch, i
  <1>3. CASE ~Cached(r)
    <2>1. Others \in Seq(Request)
      BY <1>1, <1>3, HeadTailProperties
    <2>. QED
      BY <2>1, AppendProperties DEF Touch
  <1>. QED
    BY <1>2, <1>3

\* What the server allows an attempt does not exceed what is left of the request's limit.
LEMMA LimitKept ==
  ASSUME ClientTypes, NEW r \in Request
  PROVE  /\ AttemptLimit(r) \in Int
         /\ Len(merged[r]) + AttemptLimit(r) <= TotalLimit
  <1>1. Len(merged[r]) \in Nat
    BY LenProperties DEF ClientTypes
  <1>. DEFINE Room == Slack + ResponseLength - Len(merged[r])
  <1>2. CASE CallerLimit # NoLimit
    BY <1>1, <1>2, PartialRolloutAssumption DEF AttemptLimit, TotalLimit
  <1>3. CASE CallerLimit = NoLimit
    <2>1. AttemptLimit(r) = IF Room < ResponseLength THEN Room ELSE ResponseLength
      BY <1>3 DEF AttemptLimit
    <2>2. TotalLimit = Slack + ResponseLength
      BY <1>3 DEF TotalLimit
    <2>3. Slack \in Nat /\ ResponseLength \in Nat
      BY PartialRolloutAssumption
    <2>4. Room \in Int /\ Len(merged[r]) + Room = TotalLimit
      BY <1>1, <2>2, <2>3
    <2>. HIDE DEF Room
    <2>5. CASE Room < ResponseLength
      <3>1. AttemptLimit(r) = Room
        BY <2>1, <2>5, Zenon
      <3>. QED
        BY <1>1, <2>4, <3>1
    <2>6. CASE ~(Room < ResponseLength)
      <3>1. AttemptLimit(r) = ResponseLength
        BY <2>1, <2>6, Zenon
      <3>. QED
        BY <1>1, <2>3, <2>4, <2>6, <3>1
    <2>. QED
      BY <2>5, <2>6
  <1>. QED
    BY <1>2, <1>3

\* The counts follow from the two places where a server can stand.
LEMMA CountsFollow ==
  ASSUME CountsExact, NEW r \in Request, NEW s \in Server,
         \A q \in Request \ {r} : at'[q] = at[q],
         \A q \in Request \ {r} : release'[q] = release[q]
  PROVE  \E a, b \in Nat :
           /\ inflight[s] = (IF at[r] = s THEN a + 1 ELSE a) + (IF release[r] = s THEN b + 1 ELSE b)
           /\ Cardinality(On(at', s)) = IF at'[r] = s THEN a + 1 ELSE a
           /\ Cardinality(On(release', s)) = IF release'[r] = s THEN b + 1 ELSE b
  <1>1. inflight[s] = Cardinality(On(at, s)) + Cardinality(On(release, s))
    BY DEF CountsExact, On
  <1>2. Moves(at, at', r, s) /\ Moves(release, release', r, s)
    BY Moved
  <1>3. PICK a \in Nat :
           /\ at[r] = s => Cardinality(On(at, s)) = a + 1
           /\ at[r] # s => Cardinality(On(at, s)) = a
           /\ at'[r] = s => Cardinality(On(at', s)) = a + 1
           /\ at'[r] # s => Cardinality(On(at', s)) = a
    BY <1>2 DEF Moves
  <1>4. PICK b \in Nat :
           /\ release[r] = s => Cardinality(On(release, s)) = b + 1
           /\ release[r] # s => Cardinality(On(release, s)) = b
           /\ release'[r] = s => Cardinality(On(release', s)) = b + 1
           /\ release'[r] # s => Cardinality(On(release', s)) = b
    BY <1>2 DEF Moves
  <1>. WITNESS a \in Nat, b \in Nat
  <1>. QED
    BY <1>1, <1>3, <1>4

\* What a step leaves alone stays as it is.
LEMMA ClientKept ==
  ASSUME UNCHANGED clientVars
  PROVE  ClientTypes => ClientTypes'
  BY DEF clientVars, ClientTypes

LEMMA BalancerKept ==
  ASSUME UNCHANGED balancerVars
  PROVE  BalancerTypes => BalancerTypes'
  BY DEF balancerVars, BalancerTypes

LEMMA ServersKept ==
  ASSUME UNCHANGED serverVars
  PROVE  ServerTypes => ServerTypes'
  BY DEF serverVars, ServerTypes

LEMMA ManagerKept ==
  ASSUME UNCHANGED managerVars
  PROVE  ManagerTypes => ManagerTypes'
  BY DEF managerVars, ManagerTypes

LEMMA PlacesKept ==
  ASSUME UNCHANGED <<pc, at, release>>
  PROVE  Places => Places'
  BY DEF Places

LEMMA CountsKept ==
  ASSUME UNCHANGED <<at, release, inflight>>
  PROVE  CountsExact => CountsExact'
  <1>1. at' = at /\ release' = release /\ inflight' = inflight
    OBVIOUS
  <1>. QED
    BY <1>1, Zenon DEF CountsExact

LEMMA RoomKept ==
  ASSUME UNCHANGED <<pc, merged, chunk, reason>>
  PROVE  RoomLeft /\ AbortedRoom => RoomLeft' /\ AbortedRoom'
  <1>1. pc' = pc /\ merged' = merged /\ chunk' = chunk /\ reason' = reason
    OBVIOUS
  <1>. QED
    BY <1>1, Zenon DEF RoomLeft, AbortedRoom

\* Acquire moves a request to a server; its release moves it away from there in two steps.
LEMMA AcquireCounts ==
  ASSUME IInv, NEW r \in Request, Acquire(r)
  PROVE  CountsExact'
  <1>. USE DEF IInv
  <1>1. PICK s \in Server : inflight' = Counted(r, s) /\ at' = [at EXCEPT ![r] = s]
    BY DEF Acquire
  <1>2. at[r] = 0 /\ release[r] = 0 /\ release' = release
    BY DEF Acquire, Places
  <1>3. at'[r] = s /\ \A q \in Request \ {r} : at'[q] = at[q]
    BY <1>1 DEF ClientTypes
  <1>4. SUFFICES ASSUME NEW t \in Server
                 PROVE  inflight'[t] = Cardinality(On(at', t)) + Cardinality(On(release', t))
    BY DEF CountsExact, On
  <1>5. inflight[t] \in Nat /\ t # 0 /\ inflight'[t] = IF t = s THEN inflight[t] + 1 ELSE inflight[t]
    BY <1>1, Servers DEF Counted, BalancerTypes
  <1>6. PICK a, b \in Nat :
           /\ inflight[t] = (IF at[r] = t THEN a + 1 ELSE a) + (IF release[r] = t THEN b + 1 ELSE b)
           /\ Cardinality(On(at', t)) = IF at'[r] = t THEN a + 1 ELSE a
           /\ Cardinality(On(release', t)) = IF release'[r] = t THEN b + 1 ELSE b
    BY <1>2, <1>3, CountsFollow
  <1>. QED
    BY <1>2, <1>3, <1>5, <1>6

LEMMA ReleaseCounts ==
  ASSUME IInv, NEW r \in Request, Release(r)
  PROVE  CountsExact' /\ inflight' \in [Server -> Nat]
  <1>. USE DEF IInv
  <1>1. /\ release[r] \in Server /\ at[r] = 0 /\ at' = at /\ release' = [release EXCEPT ![r] = 0]
        /\ inflight' = [inflight EXCEPT ![release[r]] = @ - 1]
    BY DEF Release, clientVars, BalancerTypes, Places, Server
  <1>2. release'[r] = 0 /\ \A q \in Request \ {r} : release'[q] = release[q]
    BY <1>1 DEF BalancerTypes
  <1>3. ASSUME NEW t \in Server
        PROVE  /\ inflight'[t] = Cardinality(On(at', t)) + Cardinality(On(release', t))
               /\ inflight'[t] \in Nat
    <2>1. /\ inflight[t] \in Nat /\ t # 0
          /\ inflight'[t] = IF t = release[r] THEN inflight[t] - 1 ELSE inflight[t]
      BY <1>1, Servers DEF BalancerTypes
    <2>3. CountsExact /\ \A q \in Request \ {r} : at'[q] = at[q]
      BY <1>1
    <2>2. PICK a, b \in Nat :
             /\ inflight[t] = (IF at[r] = t THEN a + 1 ELSE a) + (IF release[r] = t THEN b + 1 ELSE b)
             /\ Cardinality(On(at', t)) = IF at'[r] = t THEN a + 1 ELSE a
             /\ Cardinality(On(release', t)) = IF release'[r] = t THEN b + 1 ELSE b
      BY <1>2, <2>3, CountsFollow, Zenon
    <2>. QED
      BY <1>1, <1>2, <2>1, <2>2
  <1>. QED
    BY <1>1, <1>3 DEF CountsExact, On, BalancerTypes

LEMMA MergeCounts ==
  ASSUME IInv, NEW r \in Request, Merge(r)
  PROVE  CountsExact'
  <1>. USE DEF IInv
  <1>1. /\ at[r] \in Server /\ release[r] = 0 /\ inflight' = inflight
        /\ at' = [at EXCEPT ![r] = 0] /\ release' = [release EXCEPT ![r] = at[r]]
    BY DEF Merge, Places, ClientTypes, Server
  <1>2. /\ at'[r] = 0 /\ release'[r] = at[r]
        /\ \A q \in Request \ {r} : at'[q] = at[q]
        /\ \A q \in Request \ {r} : release'[q] = release[q]
    BY <1>1 DEF ClientTypes, BalancerTypes
  <1>3. SUFFICES ASSUME NEW t \in Server
                 PROVE  inflight'[t] = Cardinality(On(at', t)) + Cardinality(On(release', t))
    BY DEF CountsExact, On
  <1>4. PICK a, b \in Nat :
           /\ inflight[t] = (IF at[r] = t THEN a + 1 ELSE a) + (IF release[r] = t THEN b + 1 ELSE b)
           /\ Cardinality(On(at', t)) = IF at'[r] = t THEN a + 1 ELSE a
           /\ Cardinality(On(release', t)) = IF release'[r] = t THEN b + 1 ELSE b
    BY <1>2, CountsFollow
  <1>. QED
    BY <1>1, <1>2, <1>4, Servers

LEMMA Step == IInv /\ [Next]_vars => IInv'
  <1>. SUFFICES ASSUME IInv, [Next]_vars PROVE IInv'
    OBVIOUS
  <1>. USE DEF IInv
  <1>1. ASSUME NEW r \in Request, Acquire(r) PROVE IInv'
    <2>1. PICK s \in Server :
            /\ inflight' = Counted(r, s)
            /\ at' = [at EXCEPT ![r] = s]
            /\ route' = [route EXCEPT ![r] = s]
      BY <1>1 DEF Acquire
    <2>2. /\ pc[r] = "ready" /\ release[r] = 0 /\ pc' = [pc EXCEPT ![r] = "routed"]
          /\ recent' = Touch(r)
          /\ UNCHANGED <<merged, chunk, reason, label, steps, release, serverVars, managerVars>>
      BY <1>1 DEF Acquire
    <2>3. ClientTypes' /\ BalancerTypes'
      <3>1. ClientTypes'
        BY <2>1, <2>2, Servers DEF ClientTypes
      <3>2. inflight' \in [Server -> Nat] /\ route' \in [Request -> 0 .. NumServers]
        BY <2>1, Servers DEF Counted, BalancerTypes
      <3>3. recent' \in Seq(Request) /\ release' \in [Request -> 0 .. NumServers]
        BY <2>2, TouchType DEF BalancerTypes
      <3>. QED
        BY <3>1, <3>2, <3>3 DEF BalancerTypes
    <2>4. ServerTypes' /\ ManagerTypes'
      BY <2>2, ServersKept, ManagerKept
    <2>5. Places'
      BY <2>1, <2>2, Servers DEF ClientTypes, Places
    <2>6. RoomLeft' /\ AbortedRoom'
      BY <2>2 DEF ClientTypes, RoomLeft, AbortedRoom
    <2>. QED
      BY <1>1, <2>3, <2>4, <2>5, <2>6, AcquireCounts
  <1>2. ASSUME NEW r \in Request, Release(r) PROVE IInv'
    <2>1. /\ release[r] # 0 /\ release' = [release EXCEPT ![r] = 0]
          /\ UNCHANGED <<clientVars, recent, route, serverVars, managerVars>>
      BY <1>2 DEF Release
    <2>2. BalancerTypes' /\ CountsExact'
      BY <1>2, <2>1, ReleaseCounts, PartialRolloutAssumption DEF BalancerTypes
    <2>3. ClientTypes' /\ ServerTypes' /\ ManagerTypes'
      BY <2>1, ClientKept, ServersKept, ManagerKept
    <2>4. Places'
      BY <2>1 DEF clientVars, BalancerTypes, Places
    <2>5. RoomLeft' /\ AbortedRoom'
      BY <2>1, RoomKept DEF clientVars
    <2>. QED
      BY <2>2, <2>3, <2>4, <2>5
  <1>3. ASSUME NEW r \in Request, Start(r) PROVE IInv'
    <2>1. /\ pc[r] = "routed" /\ pc' = [pc EXCEPT ![r] = "running"]
          /\ UNCHANGED <<at, merged, chunk, reason, label, steps, balancerVars, serverVars, managerVars>>
      BY <1>3 DEF Start
    <2>2. ClientTypes' /\ Places'
      BY <2>1 DEF ClientTypes, Places, balancerVars
    <2>3. RoomLeft' /\ AbortedRoom'
      BY <2>1 DEF ClientTypes, RoomLeft, AbortedRoom
    <2>. QED
      BY <2>1, <2>2, <2>3, BalancerKept, ServersKept, ManagerKept, CountsKept DEF balancerVars
  <1>4. ASSUME NEW r \in Request, Sample(r) PROVE IInv'
    <2>1. /\ pc[r] = "running" /\ chunk' = [chunk EXCEPT ![r] = Append(@, weights[at[r]])]
          /\ UNCHANGED <<at, merged, steps, balancerVars, serverVars, managerVars>>
      BY <1>4 DEF Sample
    <2>2. at[r] \in Server /\ named[at[r]] \in Nat /\ weights[at[r]] \in Int
      BY <2>1 DEF Places, ClientTypes, ServerTypes, Server
    <2>3. /\ chunk' \in [Request -> Seq(Int)] /\ Len(chunk'[r]) = Len(chunk[r]) + 1
          /\ \A q \in Request \ {r} : chunk'[q] = chunk[q]
      BY <2>1, <2>2 DEF ClientTypes
    <2>4. \/ /\ UNCHANGED <<pc, reason, label>>
             /\ Len(chunk[r]) + 1 < AttemptLimit(r)
          \/ Return({r}, "completed")
      BY <1>4 DEF Sample
    <2>5. /\ pc' \in [Request -> {"ready", "routed", "running", "returned", "done"}]
          /\ reason' \in [Request -> {"aborted", "completed"}]
          /\ label' \in [Request -> Nat]
          /\ \A q \in Request \ {r} : pc'[q] = pc[q] /\ reason'[q] = reason[q]
          /\ \/ pc'[r] = "running" /\ Len(chunk[r]) + 1 < AttemptLimit(r)
             \/ pc'[r] = "returned" /\ reason'[r] = "completed"
      <3>1. CASE UNCHANGED <<pc, reason, label>> /\ Len(chunk[r]) + 1 < AttemptLimit(r)
        BY <2>1, <3>1 DEF ClientTypes
      <3>2. CASE Return({r}, "completed")
        <4>1. \A q \in {r} : named[at[q]] \in Nat
          BY <2>2
        <4>. QED
          BY <3>2, <4>1 DEF Return, ClientTypes
      <3>. QED
        BY <2>4, <3>1, <3>2
    <2>6. ClientTypes' /\ Places'
      BY <2>1, <2>3, <2>5 DEF ClientTypes, Places, balancerVars
    <2>7. /\ Len(merged[r]) \in Nat /\ Len(chunk[r]) \in Nat
          /\ Len(merged[r]) + Len(chunk[r]) < TotalLimit
      BY <2>1 DEF ClientTypes, RoomLeft
    <2>8. AttemptLimit(r) \in Int /\ Len(merged[r]) + AttemptLimit(r) <= TotalLimit
      BY LimitKept
    <2>9. /\ Len(merged'[r]) + Len(chunk'[r]) <= TotalLimit
          /\ pc'[r] = "running" => Len(merged'[r]) + Len(chunk'[r]) < TotalLimit
      <3>. DEFINE m == Len(merged[r])
                  c == Len(chunk[r])
      <3>1. m \in Nat /\ c \in Nat /\ m + c < TotalLimit
        BY <2>7, Zenon
      <3>2. Len(merged'[r]) = m /\ Len(chunk'[r]) = c + 1
        BY <2>1, <2>3
      <3>3. pc'[r] = "running" => c + 1 < AttemptLimit(r)
        BY <2>5
      <3>4. AttemptLimit(r) \in Int /\ m + AttemptLimit(r) <= TotalLimit
        BY <2>8
      <3>. HIDE DEF m, c
      <3>5. m + (c + 1) <= TotalLimit /\ (pc'[r] = "running" => m + (c + 1) < TotalLimit)
        BY <3>1, <3>3, <3>4, Limits
      <3>. QED
        BY <3>2, <3>5
    <2>10. RoomLeft' /\ AbortedRoom'
      BY <2>1, <2>3, <2>5, <2>9 DEF RoomLeft, AbortedRoom
    <2>. QED
      BY <2>1, <2>6, <2>10, BalancerKept, ServersKept, ManagerKept, CountsKept DEF balancerVars
  <1>5. ASSUME NEW r \in Request, Merge(r) PROVE IInv'
    <2>1. /\ pc[r] = "returned"
          /\ merged' = [merged EXCEPT ![r] = @ \o chunk[r]]
          /\ chunk' = [chunk EXCEPT ![r] = <<>>]
          /\ steps' = [steps EXCEPT ![r] = StepsAfter(r)]
          /\ release' = [release EXCEPT ![r] = at[r]]
          /\ at' = [at EXCEPT ![r] = 0]
          /\ pc' = [pc EXCEPT ![r] = IF Resumes(r) THEN "ready" ELSE "done"]
          /\ UNCHANGED <<reason, label, inflight, recent, route, serverVars, managerVars>>
      BY <1>5 DEF Merge
    <2>2. /\ Len(merged[r]) \in Nat /\ Len(chunk[r]) \in Nat
          /\ merged[r] \o chunk[r] \in Seq(Int)
          /\ Len(merged[r] \o chunk[r]) = Len(merged[r]) + Len(chunk[r])
          /\ Len(<<>>) = 0 /\ <<>> \in Seq(Int)
      BY EmptySeq DEF ClientTypes
    <2>3. StepsAfter(r) \in Int \X Int
      BY DEF StepsAfter, ClientTypes
    <2>4. at[r] \in Server
      BY <2>1 DEF Places, ClientTypes, Server
    <2>5. /\ merged'[r] = merged[r] \o chunk[r] /\ chunk'[r] = <<>> /\ at'[r] = 0
          /\ pc'[r] \in {"ready", "done"} /\ (pc'[r] = "ready" => Resumes(r))
          /\ \A q \in Request \ {r} :
               /\ merged'[q] = merged[q] /\ chunk'[q] = chunk[q] /\ pc'[q] = pc[q]
               /\ at'[q] = at[q] /\ release'[q] = release[q]
      BY <2>1 DEF ClientTypes, BalancerTypes
    <2>6. ClientTypes'
      <3>1. pc' \in [Request -> {"ready", "routed", "running", "returned", "done"}]
        BY <2>1 DEF ClientTypes
      <3>2. merged' \in [Request -> Seq(Int)] /\ chunk' \in [Request -> Seq(Int)]
        BY <2>1, <2>2 DEF ClientTypes
      <3>3. steps' \in [Request -> Int \X Int] /\ at' \in [Request -> 0 .. NumServers]
        BY <2>1, <2>3, PartialRolloutAssumption DEF ClientTypes
      <3>. QED
        BY <2>1, <3>1, <3>2, <3>3 DEF ClientTypes
    <2>7. BalancerTypes'
      BY <2>1, <2>4, Servers DEF BalancerTypes
    <2>8. Places'
      BY <2>5 DEF Places
    <2>9. pc'[r] = "ready" => Len(merged[r]) + Len(chunk[r]) < TotalLimit
      BY <2>1, <2>5 DEF Resumes, AbortedRoom
    <2>10. /\ Len(merged'[r]) + Len(chunk'[r]) <= TotalLimit
           /\ pc'[r] = "ready" => Len(merged'[r]) + Len(chunk'[r]) < TotalLimit
      <3>1. Len(merged[r]) + Len(chunk[r]) <= TotalLimit
        BY DEF RoomLeft
      <3>2. Len(merged'[r]) = Len(merged[r]) + Len(chunk[r]) /\ Len(chunk'[r]) = 0
        BY <2>2, <2>5
      <3>3. Len(merged'[r]) + Len(chunk'[r]) = Len(merged[r]) + Len(chunk[r])
        BY <2>2, <3>2
      <3>. QED
        BY <2>9, <3>1, <3>3
    <2>11. RoomLeft' /\ AbortedRoom'
      BY <2>1, <2>5, <2>10 DEF RoomLeft, AbortedRoom
    <2>. QED
      BY <1>5, <2>1, <2>6, <2>7, <2>8, <2>11, ServersKept, ManagerKept, MergeCounts
  <1>6. ASSUME NEW s \in Server, Abort(s) PROVE IInv'
    <2>1. /\ stage' = [stage EXCEPT ![s] = "over"] /\ paused' \in {paused, paused \cup {s}}
          /\ Return(Running(s), "aborted")
          /\ UNCHANGED <<at, merged, chunk, steps, balancerVars, weights, named, phase, target, failures>>
      BY <1>6 DEF Abort
    <2>2. \A r \in Request : r \in Running(s) <=> pc[r] = "running" /\ at[r] = s
      BY DEF Running
    <2>3. \A r \in Request :
            IF pc[r] = "running" /\ at[r] = s
              THEN pc'[r] = "returned" /\ reason'[r] = "aborted" /\ label'[r] = named[s]
              ELSE pc'[r] = pc[r] /\ reason'[r] = reason[r] /\ label'[r] = label[r]
      BY <2>1, <2>2 DEF Return
    <2>4. ClientTypes'
      <3>1. /\ pc' = [r \in Request |-> pc'[r]] /\ reason' = [r \in Request |-> reason'[r]]
            /\ label' = [r \in Request |-> label'[r]]
        BY <2>1 DEF Return
      <3>2. named[s] \in Nat
        BY DEF ServerTypes
      <3>. QED
        BY <2>1, <2>3, <3>1, <3>2 DEF ClientTypes
    <2>5. ServerTypes' /\ ManagerTypes'
      BY <2>1 DEF ServerTypes, ManagerTypes
    <2>6. Places'
      BY <2>1, <2>3 DEF Places, balancerVars
    <2>7. RoomLeft' /\ AbortedRoom'
      BY <2>1, <2>3 DEF RoomLeft, AbortedRoom
    <2>. QED
      BY <2>1, <2>4, <2>5, <2>6, <2>7, BalancerKept, CountsKept DEF balancerVars
  <1>7. ASSUME NEW s \in Server,
               AbortRaises(s) \/ LoadBegin(s) \/ LoadEnd(s) \/ SetGlobalSteps(s) \/ Resume(s)
        PROVE  IInv'
    <2>1. UNCHANGED <<clientVars, balancerVars>>
      BY <1>7 DEF AbortRaises, LoadBegin, LoadEnd, SetGlobalSteps, Resume
    <2>2. ServerTypes'
      BY <1>7 DEF AbortRaises, LoadBegin, LoadEnd, SetGlobalSteps, Resume, Unpaused, Mixed,
                  serverVars, ServerTypes, ManagerTypes
    <2>3. ManagerTypes'
      BY <1>7 DEF AbortRaises, LoadBegin, LoadEnd, SetGlobalSteps, Resume, ManagerTypes
    <2>. QED
      BY <2>1, <2>2, <2>3, ClientKept, BalancerKept, PlacesKept, CountsKept, RoomKept
      DEF clientVars, balancerVars
  <1>8. ASSUME BeginUpdate \/ NextPhase PROVE IInv'
    <2>1. UNCHANGED <<clientVars, balancerVars, serverVars>>
      BY <1>8 DEF BeginUpdate, NextPhase
    <2>2. ManagerTypes'
      BY <1>8 DEF BeginUpdate, NextPhase, ManagerTypes
    <2>. QED
      BY <2>1, <2>2, ClientKept, BalancerKept, ServersKept, PlacesKept, CountsKept, RoomKept
      DEF clientVars, balancerVars
  <1>9. CASE UNCHANGED vars
    BY <1>9, ClientKept, BalancerKept, ServersKept, ManagerKept, PlacesKept, CountsKept, RoomKept
    DEF vars, clientVars, balancerVars
  <1>. QED
    BY <1>1, <1>2, <1>3, <1>4, <1>5, <1>6, <1>7, <1>8, <1>9 DEF Next, RequestStep, ServerStep

THEOREM Inductive == Spec => []IInv
  BY Initially, Step, PTL DEF Spec

\* Every variable keeps its type; above all no count of the load balancer falls below zero.
THEOREM PartialRolloutTypes == Spec => []TypeOK
  <1>1. IInv => TypeOK
    BY DEF IInv, ClientTypes, BalancerTypes, ServerTypes, ManagerTypes, TypeOK
  <1>. QED
    BY <1>1, Inductive, PTL

\* The load balancer's counts are those of the attempts and of the releases on their way.
THEOREM CountsAreExact == Spec => []CountsExact
  <1>1. IInv => CountsExact
    BY DEF IInv
  <1>. QED
    BY <1>1, Inductive, PTL

\* No request exceeds its limit over all its attempts, and none is sent with no token left.
THEOREM RoomIsLeft == Spec => []RoomLeft
  <1>1. IInv => RoomLeft
    BY DEF IInv
  <1>. QED
    BY <1>1, Inductive, PTL

-----------------------------------------------------------------------------
(* Updates that no request notices. *)

\* Every abort pauses its engine, none raises, and what was aborted is resumed.
Seamless == Pausing /\ Partial /\ MaxFailures = 0

\* What a replica holds in each phase of an update.
Versions ==
  \A s \in Server :
    /\ phase \in {"idle", "resume"} => weights[s] = target /\ named[s] = target
    /\ phase = "abort" =>
         /\ weights[s] = target - 1 /\ named[s] = target - 1
         /\ stage[s] = "over" => s \in paused
    /\ phase = "load" =>
         /\ s \in paused
         /\ stage[s] \in {"loaded", "over"} => weights[s] = target
         /\ stage[s] = "over" => named[s] = target

UpdateBegun == phase \in {"abort", "load"} => target >= 1

\* A request that runs has only tokens of the version of the moment, and none runs while
\* replicas load.
RunsOnOneVersion ==
  \A r \in Request :
    pc[r] = "running" =>
      /\ at[r] \notin paused
      /\ \A i \in 1 .. Len(chunk[r]) : chunk[r][i] = GVersion

\* What has returned was sampled by the version it names, and holds a token if it is complete.
ReturnsOneVersion ==
  \A r \in Request :
    /\ pc[r] = "returned" =>
         /\ \A i \in 1 .. Len(chunk[r]) : chunk[r][i] = label[r]
         /\ reason[r] = "completed" => chunk[r] # <<>>
    /\ pc[r] \in {"ready", "routed", "done"} => chunk[r] = <<>>

\* The recorded versions are ordered, and a later answer names no older one.
StepsOrdered ==
  \A r \in Request :
    /\ label[r] <= GVersion
    /\ steps[r][1] = Unset => steps[r][2] = Unset /\ merged[r] = <<>>
    /\ steps[r][1] # Unset => steps[r][1] \in Nat /\ steps[r][1] <= steps[r][2]
    /\ steps[r][2] <= label[r]

SInv ==
  /\ IInv /\ Versions /\ UpdateBegun /\ RunsOnOneVersion /\ ReturnsOneVersion /\ StepsOrdered
  /\ LabelsCover

LEMMA SeamlessInitially == Init => SInv
  <1>. SUFFICES ASSUME Init PROVE SInv
    OBVIOUS
  <1>1. IInv
    BY Initially
  <1>2. Versions /\ UpdateBegun
    BY DEF Init, Versions, UpdateBegun
  <1>3. \A r \in Request :
          /\ pc[r] = "ready" /\ chunk[r] = <<>> /\ merged[r] = <<>> /\ Len(merged[r]) = 0
          /\ steps[r] = <<Unset, Unset>> /\ label[r] = 0
    BY EmptySeq DEF Init
  <1>4. GVersion = 0
    BY DEF Init, GVersion
  <1>5. RunsOnOneVersion /\ ReturnsOneVersion
    BY <1>3 DEF RunsOnOneVersion, ReturnsOneVersion
  <1>6. StepsOrdered
    BY <1>3, <1>4 DEF StepsOrdered, Unset
  <1>7. LabelsCover
    BY <1>3 DEF LabelsCover
  <1>. QED
    BY <1>1, <1>2, <1>5, <1>6, <1>7 DEF SInv

\* Who runs is on a replica whose weights and name are the version of the moment.
LEMMA RunningVersion ==
  ASSUME SInv, NEW r \in Request, pc[r] = "running"
  PROVE  /\ at[r] \in Server /\ phase # "load"
         /\ weights[at[r]] = GVersion /\ named[at[r]] = GVersion
  <1>1. at[r] \in Server /\ at[r] \notin paused
    BY DEF SInv, IInv, Places, ClientTypes, Server, RunsOnOneVersion
  <1>2. phase # "load"
    BY <1>1 DEF SInv, Versions
  <1>. QED
    BY <1>1, <1>2 DEF SInv, IInv, ManagerTypes, Versions, GVersion

LEMMA VersionTypes ==
  ASSUME SInv
  PROVE  GVersion \in Nat
  BY DEF SInv, IInv, ManagerTypes, UpdateBegun, GVersion

\* What a step that leaves the versions alone keeps.
LEMMA VersionsKept ==
  ASSUME UNCHANGED <<serverVars, managerVars>>
  PROVE  /\ Versions => Versions'
         /\ UpdateBegun => UpdateBegun'
         /\ GVersion' = GVersion
  BY DEF serverVars, managerVars, Versions, UpdateBegun, GVersion

LEMMA RequestsKept ==
  ASSUME UNCHANGED clientVars, UNCHANGED paused, GVersion' = GVersion
  PROVE  /\ RunsOnOneVersion => RunsOnOneVersion'
         /\ ReturnsOneVersion => ReturnsOneVersion'
         /\ StepsOrdered => StepsOrdered'
         /\ LabelsCover => LabelsCover'
  BY DEF clientVars, RunsOnOneVersion, ReturnsOneVersion, StepsOrdered, LabelsCover

LEMMA SampleSeamless ==
  ASSUME SInv, NEW r \in Request, Sample(r)
  PROVE  RunsOnOneVersion' /\ ReturnsOneVersion' /\ StepsOrdered' /\ LabelsCover'
  <1>. USE DEF SInv, IInv
  <1>1. /\ pc[r] = "running" /\ chunk' = [chunk EXCEPT ![r] = Append(@, weights[at[r]])]
        /\ UNCHANGED <<at, merged, steps, balancerVars, serverVars, managerVars>>
        /\ \/ UNCHANGED <<pc, reason, label>>
           \/ Return({r}, "completed")
    BY DEF Sample
  <1>2. weights[at[r]] = GVersion /\ named[at[r]] = GVersion /\ GVersion \in Nat
    BY <1>1, RunningVersion, VersionTypes
  <1>3. GVersion' = GVersion /\ paused' = paused
    BY <1>1, VersionsKept DEF serverVars
  <1>4. /\ chunk[r] \in Seq(Int) /\ chunk'[r] = Append(chunk[r], GVersion)
        /\ \A q \in Request \ {r} : chunk'[q] = chunk[q]
    BY <1>1, <1>2 DEF ClientTypes
  <1>5. /\ Len(chunk'[r]) = Len(chunk[r]) + 1 /\ chunk'[r] # <<>>
        /\ \A i \in 1 .. Len(chunk'[r]) : chunk'[r][i] = GVersion
    <2>1. \A i \in 1 .. Len(chunk[r]) : chunk[r][i] = GVersion
      BY <1>1 DEF RunsOnOneVersion
    <2>. QED
      BY <1>2, <1>4, <2>1
  <1>6. /\ \A q \in Request \ {r} : pc'[q] = pc[q] /\ reason'[q] = reason[q] /\ label'[q] = label[q]
        /\ \/ pc'[r] = "running" /\ label'[r] = label[r]
           \/ pc'[r] = "returned" /\ label'[r] = GVersion
    <2>1. CASE UNCHANGED <<pc, reason, label>>
      BY <1>1, <2>1
    <2>2. CASE Return({r}, "completed")
      BY <1>2, <2>2 DEF Return
    <2>. QED
      BY <1>1, <2>1, <2>2
  <1>7. RunsOnOneVersion'
    BY <1>1, <1>3, <1>4, <1>5, <1>6 DEF RunsOnOneVersion
  <1>8. ReturnsOneVersion'
    BY <1>1, <1>3, <1>4, <1>5, <1>6 DEF ReturnsOneVersion
  <1>9. StepsOrdered'
    <2>1. /\ label[r] \in Nat /\ steps[r][2] \in Int /\ label[r] <= GVersion /\ steps[r][2] <= label[r]
      BY DEF StepsOrdered, ClientTypes
    <2>2. label'[r] <= GVersion' /\ steps'[r][2] <= label'[r]
      BY <1>1, <1>2, <1>3, <1>6, <2>1
    <2>. QED
      BY <1>1, <1>3, <1>6, <2>2 DEF StepsOrdered
  <1>10. LabelsCover'
    BY <1>1, <1>6 DEF LabelsCover
  <1>. QED
    BY <1>7, <1>8, <1>9, <1>10

LEMMA AbortSeamless ==
  ASSUME SInv, Seamless, NEW s \in Server, Abort(s)
  PROVE  SInv'
  <1>. USE DEF SInv, IInv
  <1>0. IInv'
    BY Step DEF Next, ServerStep
  <1>1. /\ phase = "abort" /\ stage' = [stage EXCEPT ![s] = "over"] /\ paused' = paused \cup {s}
        /\ Return(Running(s), "aborted")
        /\ UNCHANGED <<at, merged, chunk, steps, balancerVars, weights, named, phase, target, failures>>
    BY DEF Abort, Seamless
  <1>2. GVersion' = GVersion /\ GVersion \in Nat
    BY <1>1, VersionTypes DEF GVersion
  <1>3. Versions' /\ UpdateBegun'
    BY <1>1 DEF ManagerTypes, Versions, UpdateBegun
  <1>4. \A r \in Request : r \in Running(s) <=> pc[r] = "running" /\ at[r] = s
    BY DEF Running
  <1>5. \A r \in Request :
          \/ /\ pc[r] = "running" /\ at[r] = s
             /\ pc'[r] = "returned" /\ reason'[r] = "aborted" /\ label'[r] = GVersion
          \/ /\ ~(pc[r] = "running" /\ at[r] = s)
             /\ pc'[r] = pc[r] /\ reason'[r] = reason[r] /\ label'[r] = label[r]
    BY <1>1, <1>4, RunningVersion DEF Return
  <1>6. RunsOnOneVersion' /\ ReturnsOneVersion'
    BY <1>1, <1>2, <1>5 DEF RunsOnOneVersion, ReturnsOneVersion
  <1>7. StepsOrdered'
    <2>1. ASSUME NEW r \in Request
          PROVE  label'[r] <= GVersion /\ steps[r][2] <= label'[r]
      <3>1. /\ label[r] \in Nat /\ steps[r][2] \in Int /\ label[r] <= GVersion
            /\ steps[r][2] <= label[r]
        BY DEF StepsOrdered, ClientTypes
      <3>. QED
        BY <1>2, <1>5, <3>1
    <2>. QED
      BY <1>1, <1>2, <2>1 DEF StepsOrdered
  <1>8. LabelsCover'
    BY <1>1, <1>5 DEF LabelsCover
  <1>. QED
    BY <1>0, <1>3, <1>6, <1>7, <1>8

\* An aborted answer is sent again, and only an aborted one.
LEMMA MergeResumes ==
  ASSUME IInv, Seamless, NEW r \in Request, Merge(r)
  PROVE  Resumes(r) <=> reason[r] = "aborted"
  <1>. DEFINE m == Len(merged[r])
              c == Len(chunk[r])
  <1>1. CASE reason[r] = "aborted"
    <2>1. m + c < TotalLimit
      BY <1>1 DEF Merge, IInv, AbortedRoom
    <2>2. CallerLimit # NoLimit => m + c < CallerLimit
      BY <2>1, Zenon DEF TotalLimit
    <2>. QED
      BY <1>1, <2>2, Zenon DEF Resumes, Seamless
  <1>2. CASE reason[r] # "aborted"
    BY <1>2 DEF Resumes
  <1>. QED
    BY <1>1, <1>2

\* Where the elements of u come from, if it is t appended to s.
Joins(s, t, u) ==
  /\ \A i \in 1 .. Len(u) :
       (\E j \in 1 .. Len(s) : u[i] = s[j]) \/ (\E j \in 1 .. Len(t) : u[i] = t[j])
  /\ t # <<>> => Len(t) \in 1 .. Len(t) /\ u[Len(u)] = t[Len(t)]

LEMMA Joined ==
  ASSUME NEW s \in Seq(Int), NEW t \in Seq(Int), NEW u, u = s \o t
  PROVE  Joins(s, t, u)
  <1>. DEFINE m == Len(s)
              n == Len(t)
  <1>1. /\ m \in Nat /\ n \in Nat /\ Len(u) = m + n
        /\ \A j \in 1 .. m + n : u[j] = IF j <= m THEN s[j] ELSE t[j - m]
    BY ConcatProperties, LenProperties
  <1>2. t # <<>> => n # 0
    BY EmptySeq
  <1>. HIDE DEF m, n
  <1>3. ASSUME NEW i \in 1 .. m + n
        PROVE  (\E j \in 1 .. m : u[i] = s[j]) \/ (\E j \in 1 .. n : u[i] = t[j])
    <2>1. CASE i <= m
      <3>1. i \in 1 .. m /\ u[i] = s[i]
        BY <1>1, <2>1
      <3>. QED
        BY <3>1
    <2>2. CASE ~(i <= m)
      <3>1. i - m \in 1 .. n /\ u[i] = t[i - m]
        BY <1>1, <2>2
      <3>. QED
        BY <3>1
    <2>. QED
      BY <2>1, <2>2
  <1>4. t # <<>> => n \in 1 .. n /\ u[m + n] = t[n]
    <2>. SUFFICES ASSUME t # <<>> PROVE n \in 1 .. n /\ u[m + n] = t[n]
      OBVIOUS
    <2>1. n \in 1 .. n /\ m + n \in 1 .. m + n /\ ~(m + n <= m) /\ (m + n) - m = n
      BY <1>1, <1>2
    <2>. QED
      BY <1>1, <2>1
  <1>. QED
    BY <1>1, <1>3, <1>4, Zenon DEF Joins, m, n

LEMMA MergeSeamless ==
  ASSUME SInv, Seamless, NEW r \in Request, Merge(r)
  PROVE  RunsOnOneVersion' /\ ReturnsOneVersion' /\ StepsOrdered' /\ LabelsCover'
  <1>. USE DEF SInv, IInv
  <1>1. /\ pc[r] = "returned"
        /\ merged' = [merged EXCEPT ![r] = @ \o chunk[r]]
        /\ chunk' = [chunk EXCEPT ![r] = <<>>]
        /\ steps' = [steps EXCEPT ![r] = StepsAfter(r)]
        /\ at' = [at EXCEPT ![r] = 0]
        /\ pc' = [pc EXCEPT ![r] = IF Resumes(r) THEN "ready" ELSE "done"]
        /\ UNCHANGED <<reason, label, inflight, recent, route, serverVars, managerVars>>
    BY DEF Merge
  <1>2. GVersion' = GVersion /\ paused' = paused
    BY <1>1, VersionsKept DEF serverVars
  <1>3. /\ merged'[r] = merged[r] \o chunk[r] /\ chunk'[r] = <<>> /\ steps'[r] = StepsAfter(r)
        /\ pc'[r] \in {"ready", "done"} /\ (pc'[r] = "done" => ~Resumes(r))
        /\ \A q \in Request \ {r} :
             /\ merged'[q] = merged[q] /\ chunk'[q] = chunk[q] /\ pc'[q] = pc[q]
             /\ at'[q] = at[q] /\ steps'[q] = steps[q]
        /\ \A q \in Request : reason'[q] = reason[q] /\ label'[q] = label[q]
    BY <1>1 DEF ClientTypes
  <1>4. /\ merged[r] \in Seq(Int) /\ chunk[r] \in Seq(Int) /\ label[r] \in Nat
        /\ steps[r] \in Int \X Int
    BY DEF ClientTypes
  <1>5. /\ \A i \in 1 .. Len(chunk[r]) : chunk[r][i] = label[r]
        /\ reason[r] = "completed" => chunk[r] # <<>>
    BY <1>1 DEF ReturnsOneVersion
  <1>6. /\ StepsAfter(r)[2] = label[r]
        /\ StepsAfter(r)[1] = IF steps[r][1] = Unset THEN label[r] ELSE steps[r][1]
        /\ StepsAfter(r)[1] \in Nat /\ StepsAfter(r)[1] <= label[r]
        /\ StepsAfter(r)[1] # Unset
    <2>1. /\ steps[r][2] <= label[r]
          /\ steps[r][1] # Unset => steps[r][1] \in Nat /\ steps[r][1] <= steps[r][2]
      BY DEF StepsOrdered
    <2>2. CASE steps[r][1] = Unset
      BY <1>4, <2>2 DEF StepsAfter, Unset
    <2>3. CASE steps[r][1] # Unset
      BY <1>4, <2>1, <2>3 DEF StepsAfter, Unset
    <2>. QED
      BY <2>2, <2>3
  <1>7. RunsOnOneVersion'
    BY <1>2, <1>3 DEF RunsOnOneVersion
  <1>8. ReturnsOneVersion'
    BY <1>3 DEF ReturnsOneVersion
  <1>9. StepsOrdered'
    <2>1. /\ steps'[r][1] # Unset /\ steps'[r][1] \in Nat
          /\ steps'[r][1] <= steps'[r][2] /\ steps'[r][2] <= label'[r]
      BY <1>3, <1>4, <1>6
    <2>. QED
      BY <1>2, <1>3, <2>1 DEF StepsOrdered
  <1>10. Joins(merged[r], chunk[r], merged'[r])
    BY <1>3, <1>4, Joined
  <1>11. ASSUME NEW i \in 1 .. Len(merged'[r])
         PROVE  steps'[r][1] <= merged'[r][i] /\ merged'[r][i] <= steps'[r][2]
    <2>1. CASE \E j \in 1 .. Len(merged[r]) : merged'[r][i] = merged[r][j]
      <3>1. PICK j \in 1 .. Len(merged[r]) : merged'[r][i] = merged[r][j]
        BY <2>1
      <3>2. merged[r][j] \in Int /\ merged[r] # <<>>
        BY <1>4
      <3>3. steps[r][1] <= merged[r][j] /\ merged[r][j] <= steps[r][2]
        BY DEF LabelsCover
      <3>4. steps[r][1] # Unset /\ steps[r][2] <= label[r] /\ steps[r][2] \in Int
        BY <1>4, <3>2 DEF StepsOrdered
      <3>5. steps'[r][1] = steps[r][1] /\ steps'[r][2] = label[r]
        BY <1>3, <1>6, <3>4
      <3>6. label[r] \in Int
        BY <1>4
      <3>. HIDE DEF SInv
      <3>. QED
        BY <3>1, <3>2, <3>3, <3>4, <3>5, <3>6
    <2>2. CASE \E j \in 1 .. Len(chunk[r]) : merged'[r][i] = chunk[r][j]
      <3>1. merged'[r][i] = label[r]
        BY <1>5, <2>2
      <3>. QED
        BY <1>3, <1>4, <1>6, <3>1
    <2>. QED
      BY <1>10, <2>1, <2>2 DEF Joins
  <1>12. pc'[r] = "done" => merged'[r][Len(merged'[r])] = steps'[r][2]
    <2>. SUFFICES ASSUME pc'[r] = "done"
                  PROVE  merged'[r][Len(merged'[r])] = label[r]
      BY <1>3, <1>6
    <2>1. chunk[r] # <<>>
      BY <1>3, <1>5, MergeResumes DEF ClientTypes
    <2>2. /\ Len(chunk[r]) \in 1 .. Len(chunk[r])
          /\ merged'[r][Len(merged'[r])] = chunk[r][Len(chunk[r])]
      BY <1>10, <2>1, Zenon DEF Joins
    <2>. QED
      BY <1>5, <2>2
  <1>13. LabelsCover'
    <2>. SUFFICES ASSUME NEW q \in Request
                  PROVE  /\ \A i \in 1 .. Len(merged'[q]) :
                              steps'[q][1] <= merged'[q][i] /\ merged'[q][i] <= steps'[q][2]
                         /\ pc'[q] = "done" => merged'[q][Len(merged'[q])] = steps'[q][2]
      BY DEF LabelsCover
    <2>1. CASE q = r
      BY <1>11, <1>12, <2>1, Zenon
    <2>2. CASE q # r
      <3>1. merged'[q] = merged[q] /\ pc'[q] = pc[q] /\ steps'[q] = steps[q]
        BY <1>3, <2>2
      <3>2. /\ \A i \in 1 .. Len(merged[q]) :
                 steps[q][1] <= merged[q][i] /\ merged[q][i] <= steps[q][2]
            /\ pc[q] = "done" => merged[q][Len(merged[q])] = steps[q][2]
        BY DEF LabelsCover
      <3>. QED
        BY <3>1, <3>2, Zenon
    <2>. QED
      BY <2>1, <2>2
  <1>. QED
    BY <1>7, <1>8, <1>9, <1>13

LEMMA SeamlessStep ==
  ASSUME Seamless
  PROVE  SInv /\ [Next]_vars => SInv'
  <1>. SUFFICES ASSUME SInv, [Next]_vars PROVE SInv'
    OBVIOUS
  <1>. USE DEF SInv
  <1>1. IInv'
    BY Step
  <1>2. ASSUME NEW r \in Request, Acquire(r) \/ Release(r) \/ Start(r) PROVE SInv'
    <2>1. /\ UNCHANGED <<merged, chunk, reason, label, steps, serverVars, managerVars>>
      BY <1>2 DEF Acquire, Release, Start, clientVars
    <2>2. GVersion' = GVersion /\ Versions' /\ UpdateBegun'
      BY <2>1, VersionsKept
    <2>3. \A q \in Request :
            /\ pc'[q] = "running" => at'[q] = at[q] /\ at[q] \notin paused
                                     /\ (pc[q] = "running" \/ chunk[q] = <<>>)
            /\ pc'[q] = "returned" => pc[q] = "returned"
            /\ pc'[q] \in {"ready", "routed", "done"} => chunk[q] = <<>>
            /\ pc'[q] = "done" => pc[q] = "done"
      <3>1. CASE Acquire(r)
        BY <3>1 DEF Acquire, IInv, ClientTypes, RunsOnOneVersion, ReturnsOneVersion
      <3>2. CASE Release(r)
        BY <3>2 DEF Release, clientVars, IInv, ClientTypes, RunsOnOneVersion, ReturnsOneVersion
      <3>3. CASE Start(r)
        BY <3>3 DEF Start, MayRun, IInv, ClientTypes, RunsOnOneVersion, ReturnsOneVersion
      <3>. QED
        BY <1>2, <3>1, <3>2, <3>3
    <2>4. RunsOnOneVersion'
      BY <2>1, <2>2, <2>3, EmptySeq DEF serverVars, RunsOnOneVersion
    <2>5. ReturnsOneVersion' /\ StepsOrdered' /\ LabelsCover'
      BY <2>1, <2>2, <2>3 DEF ReturnsOneVersion, StepsOrdered, LabelsCover
    <2>. QED
      BY <1>1, <2>2, <2>4, <2>5
  <1>3. ASSUME NEW r \in Request, Sample(r) PROVE SInv'
    <2>1. UNCHANGED <<serverVars, managerVars>>
      BY <1>3 DEF Sample
    <2>. QED
      BY <1>1, <1>3, <2>1, VersionsKept, SampleSeamless
  <1>4. ASSUME NEW r \in Request, Merge(r) PROVE SInv'
    <2>1. UNCHANGED <<serverVars, managerVars>>
      BY <1>4 DEF Merge
    <2>. QED
      BY <1>1, <1>4, <2>1, VersionsKept, MergeSeamless
  <1>5. ASSUME NEW s \in Server, Abort(s) PROVE SInv'
    BY <1>5, AbortSeamless
  <1>6. ASSUME NEW s \in Server, AbortRaises(s) PROVE FALSE
    BY <1>6 DEF AbortRaises, Seamless, IInv, ManagerTypes
  <1>7. ASSUME NEW s \in Server, LoadBegin(s) \/ LoadEnd(s) \/ SetGlobalSteps(s) PROVE SInv'
    <2>1. /\ phase = "load" /\ UNCHANGED <<clientVars, paused, phase, target>>
      BY <1>7 DEF LoadBegin, LoadEnd, SetGlobalSteps
    <2>2. GVersion' = GVersion /\ UpdateBegun'
      BY <2>1 DEF GVersion, UpdateBegun
    <2>3. Versions'
      BY <1>7, <2>1
      DEF LoadBegin, LoadEnd, SetGlobalSteps, IInv, ServerTypes, ManagerTypes, Versions
    <2>. QED
      BY <1>1, <2>1, <2>2, <2>3, RequestsKept
  <1>8. ASSUME NEW s \in Server, Resume(s) PROVE SInv'
    <2>1. /\ phase = "resume" /\ UNCHANGED <<clientVars, weights, named, phase, target>>
          /\ paused' = paused \ {s}
      BY <1>8 DEF Resume, Unpaused
    <2>2. GVersion' = GVersion /\ UpdateBegun' /\ Versions'
      BY <2>1 DEF GVersion, UpdateBegun, Versions
    <2>3. RunsOnOneVersion'
      BY <2>1, <2>2 DEF clientVars, RunsOnOneVersion
    <2>4. ReturnsOneVersion' /\ StepsOrdered' /\ LabelsCover'
      BY <2>1, <2>2 DEF clientVars, ReturnsOneVersion, StepsOrdered, LabelsCover
    <2>. QED
      BY <1>1, <2>2, <2>3, <2>4
  <1>9. CASE BeginUpdate
    <2>1. /\ phase = "idle" /\ phase' = "abort" /\ target' = target + 1 /\ target \in Nat
          /\ stage' = [s \in Server |-> "todo"] /\ UNCHANGED <<clientVars, serverVars>>
      BY <1>9 DEF BeginUpdate, IInv, ManagerTypes
    <2>2. GVersion' = GVersion
      BY <2>1 DEF GVersion
    <2>3. Versions' /\ UpdateBegun'
      BY <2>1 DEF serverVars, Versions, UpdateBegun
    <2>. QED
      BY <1>1, <2>1, <2>2, <2>3, RequestsKept DEF serverVars
  <1>10. CASE NextPhase
    <2>1. /\ phase # "idle" /\ Gathered /\ UNCHANGED <<target, clientVars, serverVars>>
          /\ phase = "abort" => phase' = "load"
          /\ phase = "load" => phase' = "resume"
          /\ phase = "resume" => phase' = "idle"
          /\ phase # "resume" => stage' = [s \in Server |-> "todo"]
          /\ phase \in {"abort", "load", "resume"}
      BY <1>10 DEF NextPhase, IInv, ManagerTypes
    <2>2. Versions' /\ UpdateBegun'
      BY <2>1 DEF Gathered, serverVars, Versions, UpdateBegun
    <2>3. CASE phase # "load"
      <3>1. GVersion' = GVersion
        BY <2>1, <2>3 DEF GVersion
      <3>. QED
        BY <1>1, <2>1, <2>2, <3>1, RequestsKept DEF serverVars
    <2>4. CASE phase = "load"
      <3>1. \A r \in Request : pc[r] # "running"
        BY <2>4, RunningVersion
      <3>2. GVersion' = target /\ GVersion = target - 1 /\ target \in Nat
        BY <2>1, <2>4 DEF GVersion, IInv, ManagerTypes
      <3>3. RunsOnOneVersion'
        BY <2>1, <3>1 DEF clientVars, RunsOnOneVersion
      <3>4. \A r \in Request : label[r] <= GVersion'
        BY <3>2 DEF StepsOrdered, IInv, ClientTypes
      <3>5. ReturnsOneVersion' /\ StepsOrdered' /\ LabelsCover'
        BY <2>1, <3>4 DEF clientVars, ReturnsOneVersion, StepsOrdered, LabelsCover
      <3>. QED
        BY <1>1, <2>2, <3>3, <3>5
    <2>. QED
      BY <2>3, <2>4
  <1>11. CASE UNCHANGED vars
    BY <1>1, <1>11, VersionsKept, RequestsKept DEF vars, serverVars
  <1>. QED
    BY <1>2, <1>3, <1>4, <1>5, <1>6, <1>7, <1>8, <1>9, <1>10, <1>11
    DEF Next, RequestStep, ServerStep

THEOREM SeamlessInductive ==
  ASSUME Seamless
  PROVE  Spec => []SInv
  BY SeamlessInitially, SeamlessStep, PTL DEF Spec

\* The versions recorded for a request enclose those that sampled its tokens, and the last token
\* is of the maximum.
THEOREM LabelsAlwaysCover ==
  ASSUME Seamless
  PROVE  Spec => []LabelsCover
  <1>1. SInv => LabelsCover
    BY DEF SInv
  <1>. QED
    BY <1>1, SeamlessInductive, PTL

\* No request samples a token from weights that a replica has only partly received.
THEOREM NeverMixed ==
  ASSUME Seamless
  PROVE  Spec => []NoMixedWeights
  <1>1. ASSUME SInv PROVE NoMixedWeights
    <2>. SUFFICES ASSUME NEW r \in Request, NEW i \in 1 .. Len(chunk[r])
                  PROVE  chunk[r][i] # Mixed
      BY DEF NoMixedWeights
    <2>. USE <1>1 DEF SInv, IInv
    <2>1. GVersion \in Nat /\ label[r] \in Nat
      BY VersionTypes DEF ClientTypes
    <2>2. CASE pc[r] \in {"running", "returned"}
      BY <2>1, <2>2 DEF RunsOnOneVersion, ReturnsOneVersion, Mixed
    <2>3. CASE pc[r] \notin {"running", "returned"}
      BY <2>3, EmptySeq DEF ReturnsOneVersion, ClientTypes
    <2>. QED
      BY <2>2, <2>3
  <1>. QED
    BY <1>1, SeamlessInductive, PTL

-----------------------------------------------------------------------------
(* The refinement. *)

LEMMA GenerationBegins == Init => G!GInit
  <1>. SUFFICES ASSUME Init PROVE G!GInit
    OBVIOUS
  <1>1. GVersion = 0
    BY DEF Init, GVersion
  <1>2. GText = [r \in Request |-> <<>>]
    <2>1. \A r \in Request : merged[r] \o chunk[r] = <<>>
      BY EmptySeq, ConcatEmptySeq DEF Init
    <2>. QED
      BY <2>1 DEF GText
  <1>3. GEnded = {}
    BY DEF Init, GEnded
  <1>. QED
    BY <1>1, <1>2, <1>3 DEF G!GInit

LEMMA AppendedLast ==
  ASSUME NEW s \in Seq(Int), NEW t \in Seq(Int), NEW e \in Nat
  PROVE  s \o Append(t, e) = Append(s \o t, e)
  <1>1. s \o Append(t, e) \in Seq(Int) /\ Append(s \o t, e) \in Seq(Int)
    BY ConcatProperties, AppendProperties
  <1>2. Len(s \o Append(t, e)) = Len(Append(s \o t, e))
    BY <1>1
  <1>. QED
    BY <1>1, <1>2, SeqEqual

LEMMA SampleEmits ==
  ASSUME SInv, NEW r \in Request, Sample(r)
  PROVE  G!Emit(r)
  <1>1. /\ pc[r] = "running" /\ chunk' = [chunk EXCEPT ![r] = Append(@, weights[at[r]])]
        /\ merged' = merged
        /\ \/ UNCHANGED <<pc, reason, label>>
           \/ Return({r}, "completed")
        /\ UNCHANGED <<serverVars, managerVars>>
    BY DEF Sample
  <1>2. weights[at[r]] = GVersion /\ GVersion \in Nat /\ GVersion' = GVersion
    BY <1>1, RunningVersion, VersionTypes, VersionsKept
  <1>3. merged[r] \in Seq(Int) /\ chunk[r] \in Seq(Int)
    BY DEF SInv, IInv, ClientTypes
  <1>4. /\ chunk'[r] = Append(chunk[r], GVersion)
        /\ \A q \in Request \ {r} : chunk'[q] = chunk[q]
    BY <1>1, <1>2 DEF SInv, IInv, ClientTypes
  <1>5. merged[r] \o Append(chunk[r], GVersion) = Append(merged[r] \o chunk[r], GVersion)
    BY <1>2, <1>3, AppendedLast, Zenon
  <1>6. GText' = [GText EXCEPT ![r] = Append(@, GVersion)]
    <2>1. merged'[r] \o chunk'[r] = Append(merged[r] \o chunk[r], GVersion)
      BY <1>1, <1>4, <1>5
    <2>2. \A q \in Request \ {r} : merged'[q] \o chunk'[q] = merged[q] \o chunk[q]
      BY <1>1, <1>4
    <2>. QED
      BY <2>1, <2>2, Zenon DEF GText
  <1>7. r \notin GEnded
    BY <1>1 DEF GEnded
  <1>8. GEnded' \in {GEnded, GEnded \cup {r}}
    <2>1. CASE UNCHANGED <<pc, reason, label>>
      BY <2>1 DEF GEnded
    <2>2. CASE Return({r}, "completed")
      <3>1. \A q \in Request :
              IF q = r THEN pc'[q] = "returned" /\ reason'[q] = "completed"
              ELSE pc'[q] = pc[q] /\ reason'[q] = reason[q]
        BY <2>2 DEF Return
      <3>. QED
        BY <3>1 DEF GEnded
    <2>. QED
      BY <1>1, <2>1, <2>2
  <1>. QED
    BY <1>2, <1>6, <1>7, <1>8 DEF G!Emit

\* Nothing of Generation changes in a step that keeps a request's text and its end.
LEMMA Unnoticed ==
  ASSUME GVersion' = GVersion,
         \A r \in Request :
           /\ merged'[r] \o chunk'[r] = merged[r] \o chunk[r]
           /\ pc'[r] = "done" \/ (pc'[r] = "returned" /\ reason'[r] = "completed")
              <=> pc[r] = "done" \/ (pc[r] = "returned" /\ reason[r] = "completed")
  PROVE  UNCHANGED G!gvars
  <1>1. GText' = GText
    BY DEF GText
  <1>2. GEnded' = GEnded
    BY DEF GEnded
  <1>. QED
    BY <1>1, <1>2 DEF G!gvars

LEMMA StepRefines ==
  ASSUME Seamless, SInv, [Next]_vars
  PROVE  [G!GNext]_(G!gvars)
  <1>1. ASSUME NEW r \in Request, Sample(r) PROVE G!GNext
    BY <1>1, SampleEmits DEF G!GNext
  <1>2. ASSUME NEW r \in Request, Acquire(r) \/ Release(r) \/ Start(r) PROVE UNCHANGED G!gvars
    <2>1. UNCHANGED <<merged, chunk, reason, serverVars, managerVars>>
      BY <1>2 DEF Acquire, Release, Start, clientVars
    <2>2. \A q \in Request : pc'[q] \in {"done", "returned"} \/ pc[q] \in {"done", "returned"}
                            => pc'[q] = pc[q]
      BY <1>2 DEF Acquire, Release, Start, clientVars, SInv, IInv, ClientTypes
    <2>. QED
      BY <2>1, <2>2, VersionsKept, Unnoticed
  <1>3. ASSUME NEW r \in Request, Merge(r) PROVE UNCHANGED G!gvars
    <2>1. /\ pc[r] = "returned"
          /\ merged' = [merged EXCEPT ![r] = @ \o chunk[r]]
          /\ chunk' = [chunk EXCEPT ![r] = <<>>]
          /\ pc' = [pc EXCEPT ![r] = IF Resumes(r) THEN "ready" ELSE "done"]
          /\ UNCHANGED <<reason, serverVars, managerVars>>
      BY <1>3 DEF Merge
    <2>2. Resumes(r) <=> reason[r] = "aborted"
      BY <1>3, MergeResumes DEF SInv
    <2>3. merged[r] \o chunk[r] \in Seq(Int) /\ (merged[r] \o chunk[r]) \o <<>> = merged[r] \o chunk[r]
      BY ConcatProperties, ConcatEmptySeq DEF SInv, IInv, ClientTypes
    <2>4. /\ merged'[r] = merged[r] \o chunk[r] /\ chunk'[r] = <<>>
          /\ reason[r] = "aborted" => pc'[r] = "ready"
          /\ reason[r] # "aborted" => pc'[r] = "done"
          /\ \A q \in Request \ {r} :
               merged'[q] = merged[q] /\ chunk'[q] = chunk[q] /\ pc'[q] = pc[q]
      BY <2>1, <2>2 DEF SInv, IInv, ClientTypes
    <2>5. reason[r] \in {"aborted", "completed"} /\ reason' = reason
      BY <2>1 DEF SInv, IInv, ClientTypes
    <2>. QED
      BY <2>1, <2>3, <2>4, <2>5, VersionsKept, Unnoticed
  <1>4. ASSUME NEW s \in Server, Abort(s) PROVE UNCHANGED G!gvars
    <2>1. Return(Running(s), "aborted") /\ UNCHANGED <<merged, chunk, phase, target>>
      BY <1>4 DEF Abort
    <2>2. \A q \in Request :
            \/ pc[q] = "running" /\ pc'[q] = "returned" /\ reason'[q] = "aborted"
            \/ pc'[q] = pc[q] /\ reason'[q] = reason[q]
      BY <2>1 DEF Return, Running
    <2>3. GVersion' = GVersion
      BY <2>1 DEF GVersion
    <2>. QED
      BY <2>1, <2>2, <2>3, Unnoticed
  <1>5. ASSUME NEW s \in Server,
               AbortRaises(s) \/ LoadBegin(s) \/ LoadEnd(s) \/ SetGlobalSteps(s) \/ Resume(s)
        PROVE  UNCHANGED G!gvars
    <2>1. UNCHANGED <<clientVars, phase, target>>
      BY <1>5 DEF AbortRaises, LoadBegin, LoadEnd, SetGlobalSteps, Resume
    <2>2. GVersion' = GVersion
      BY <2>1 DEF GVersion
    <2>. QED
      BY <2>1, <2>2, Unnoticed DEF clientVars
  <1>6. CASE BeginUpdate
    <2>1. /\ phase = "idle" /\ phase' = "abort" /\ target' = target + 1 /\ target \in Nat
          /\ UNCHANGED clientVars
      BY <1>6 DEF BeginUpdate, SInv, IInv, ManagerTypes
    <2>2. GVersion' = GVersion
      BY <2>1 DEF GVersion
    <2>. QED
      BY <2>1, <2>2, Unnoticed DEF clientVars
  <1>7. CASE NextPhase
    <2>1. /\ UNCHANGED <<target, clientVars>> /\ target \in Nat
          /\ phase = "abort" => phase' = "load"
          /\ phase = "load" => phase' = "resume"
          /\ phase = "resume" => phase' = "idle"
          /\ phase \in {"abort", "load", "resume"}
      BY <1>7 DEF NextPhase, SInv, IInv, ManagerTypes
    <2>2. CASE phase = "load"
      <3>1. GVersion' = GVersion + 1
        BY <2>1, <2>2 DEF GVersion
      <3>2. GText' = GText /\ GEnded' = GEnded
        BY <2>1 DEF clientVars, GText, GEnded
      <3>. QED
        BY <3>1, <3>2 DEF G!GNext, G!Publish
    <2>3. CASE phase # "load"
      <3>1. GVersion' = GVersion
        BY <2>1, <2>3 DEF GVersion
      <3>. QED
        BY <2>1, <3>1, Unnoticed DEF clientVars
    <2>. QED
      BY <2>2, <2>3
  <1>8. CASE UNCHANGED vars
    <2>1. UNCHANGED <<clientVars, phase, target>>
      BY <1>8 DEF vars, managerVars
    <2>2. GVersion' = GVersion
      BY <2>1 DEF GVersion
    <2>. QED
      BY <2>1, <2>2, Unnoticed DEF clientVars
  <1>. QED
    BY <1>1, <1>2, <1>3, <1>4, <1>5, <1>6, <1>7, <1>8 DEF Next, RequestStep, ServerStep

\* A request is generated as if nothing interrupted it, each token by the newest weights.
THEOREM GeneratesUninterrupted ==
  ASSUME Seamless
  PROVE  Spec => Uninterrupted
  <1>1. SInv /\ [Next]_vars => [G!GNext]_(G!gvars)
    BY StepRefines
  <1>. QED
    BY <1>1, GenerationBegins, SeamlessInductive, PTL DEF Spec, Uninterrupted, G!GSpec

-----------------------------------------------------------------------------
(* Requests with a token limit of their own, and aborts that raise: the    *)
(* argument above about the variables of Limited.                          *)

\* PartialRollout of Limited counts with the operator of its own instance of FiniteSets.
LEMMA LimCounting == \A S : Limited!Cardinality(S) = Cardinality(S)
  BY DEF Limited!Cardinality, Cardinality

LEMMA LimAssumption ==
  /\ NumServers \in Nat \ {0} /\ ResponseLength \in Nat \ {0} /\ Slack \in Nat
  /\ OwnLimit \in Nat /\ OwnCacheSize \in Nat \ {0} /\ OwnUpdates \in Nat /\ OwnFailures \in Nat
  BY MCWeightUpdateAssumption DEF Limited!PartialRolloutAssumption

LimCountsExact ==
  \A s \in Limited!Server :
    limInflight[s] = Cardinality({r \in Request : limAt[r] = s})
                     + Cardinality({r \in Request : limRelease[r] = s})

LimClientTypes ==
  /\ limPc \in [Request -> {"ready", "routed", "running", "returned", "done"}]
  /\ limAt \in [Request -> 0 .. NumServers]
  /\ limMerged \in [Request -> Seq(Int)]
  /\ limChunk \in [Request -> Seq(Int)]
  /\ limReason \in [Request -> {"aborted", "completed"}]
  /\ limLabel \in [Request -> Nat]
  /\ limSteps \in [Request -> Int \X Int]

LimBalancerTypes ==
  /\ limInflight \in [Limited!Server -> Nat]
  /\ limRelease \in [Request -> 0 .. NumServers]
  /\ limRecent \in Seq(Request)
  /\ limRoute \in [Request -> 0 .. NumServers]

LimServerTypes ==
  /\ limWeights \in [Limited!Server -> Int]
  /\ limNamed \in [Limited!Server -> Nat]
  /\ limPaused \subseteq Limited!Server

LimManagerTypes ==
  /\ limPhase \in {"idle", "abort", "load", "resume"}
  /\ limStage \in [Limited!Server -> {"todo", "loading", "loaded", "over"}]
  /\ limTarget \in Nat
  /\ limFailures \in Nat

\* A request is at a server exactly while it has an attempt, and has then no release on its way.
LimPlaces ==
  \A r \in Request :
    /\ limAt[r] # 0 <=> limPc[r] \in {"routed", "running", "returned"}
    /\ limAt[r] # 0 => limRelease[r] = 0

\* An attempt that was aborted had not reached the limit.
LimAbortedRoom ==
  \A r \in Request :
    limPc[r] = "returned" /\ limReason[r] = "aborted"
        => Len(limMerged[r]) + Len(limChunk[r]) < Limited!TotalLimit

LimIInv ==
  /\ LimClientTypes /\ LimBalancerTypes /\ LimServerTypes /\ LimManagerTypes
  /\ LimPlaces /\ LimCountsExact /\ Limited!RoomLeft /\ LimAbortedRoom

LEMMA LimServers == 0 \notin Limited!Server /\ Limited!Server \subseteq 0 .. NumServers
    /\ Limited!Server \subseteq Nat
  BY LimAssumption DEF Limited!Server

LEMMA LimLimits == Limited!TotalLimit \in Nat \ {0}
  BY LimAssumption DEF Limited!TotalLimit, Limited!NoLimit

-----------------------------------------------------------------------------
LEMMA LimInitially == Limited!Init => LimIInv
  <1>. SUFFICES ASSUME Limited!Init PROVE LimIInv
    OBVIOUS
  <1>. USE DEF Limited!Init
  <1>1. LimClientTypes /\ LimBalancerTypes /\ LimServerTypes /\ LimManagerTypes
    BY LimAssumption
    DEF LimClientTypes, LimBalancerTypes, LimServerTypes, LimManagerTypes, Limited!Server,
        Limited!Unset
  <1>2. LimPlaces
    BY DEF LimPlaces
  <1>3. LimCountsExact
    <2>. SUFFICES ASSUME NEW s \in Limited!Server
                  PROVE  limInflight[s] = Cardinality({r \in Request : limAt[r] = s})
                                       + Cardinality({r \in Request : limRelease[r] = s})
      BY DEF LimCountsExact
    <2>1. {r \in Request : limAt[r] = s} = {} /\ {r \in Request : limRelease[r] = s} = {}
      BY LimServers
    <2>2. /\ Cardinality({r \in Request : limAt[r] = s}) = 0
          /\ Cardinality({r \in Request : limRelease[r] = s}) = 0
      BY ONLY <2>1, FS_EmptySet, Zenon
    <2>3. limInflight[s] = 0
      OBVIOUS
    <2>. QED
      BY ONLY <2>2, <2>3
  <1>4. Limited!RoomLeft /\ LimAbortedRoom
    <2>1. \A r \in Request : Len(limMerged[r]) = 0 /\ Len(limChunk[r]) = 0
      OBVIOUS
    <2>. QED
      BY <2>1, LimLimits DEF Limited!RoomLeft, LimAbortedRoom
  <1>. QED
    BY <1>1, <1>2, <1>3, <1>4 DEF LimIInv

-----------------------------------------------------------------------------
(* What the steps need to know of the operators they are built from. *)

LEMMA LimTouchType ==
  ASSUME LimBalancerTypes, NEW r \in Request
  PROVE  Limited!Touch(r) \in Seq(Request)
  <1>. USE LimAssumption
  <1>. DEFINE i == CHOOSE i \in 1 .. Len(limRecent) : limRecent[i] = r
              Others == IF Limited!Cached(r)
                  THEN SubSeq(limRecent, 1, i - 1) \o SubSeq(limRecent, i + 1, Len(limRecent))
                        ELSE IF Len(limRecent) >= OwnCacheSize THEN Tail(limRecent) ELSE limRecent
  <1>1. limRecent \in Seq(Request) /\ Len(limRecent) \in Nat
    BY LenProperties DEF LimBalancerTypes
  <1>2. CASE Limited!Cached(r)
    <2>1. i \in 1 .. Len(limRecent)
      BY <1>2 DEF Limited!Cached
    <2>. HIDE DEF i
    <2>2. SubSeq(limRecent, 1, i - 1) \in Seq(Request)
      BY <1>1, <2>1, SubSeqProperties
    <2>3. SubSeq(limRecent, i + 1, Len(limRecent)) \in Seq(Request)
      BY <1>1, <2>1, SubSeqProperties
    <2>4. SubSeq(limRecent, 1, i - 1) \o SubSeq(limRecent, i + 1, Len(limRecent)) \in Seq(Request)
      BY <2>2, <2>3, ConcatProperties
    <2>5. Others \in Seq(Request)
      BY <1>2, <2>4
    <2>. QED
      BY <2>5, AppendProperties DEF Limited!Touch, i
  <1>3. CASE ~Limited!Cached(r)
    <2>1. Others \in Seq(Request)
      BY <1>1, <1>3, HeadTailProperties
    <2>. QED
      BY <2>1, AppendProperties DEF Limited!Touch
  <1>. QED
    BY <1>2, <1>3

\* What the server allows an attempt does not exceed what is left of the request's limit.
LEMMA LimLimitKept ==
  ASSUME LimClientTypes, NEW r \in Request
  PROVE  /\ Limited!AttemptLimit(r) \in Int
         /\ Len(limMerged[r]) + Limited!AttemptLimit(r) <= Limited!TotalLimit
  <1>1. Len(limMerged[r]) \in Nat
    BY LenProperties DEF LimClientTypes
  <1>. DEFINE Room == Slack + ResponseLength - Len(limMerged[r])
  <1>2. CASE OwnLimit # Limited!NoLimit
    BY <1>1, <1>2, LimAssumption DEF Limited!AttemptLimit, Limited!TotalLimit
  <1>3. CASE OwnLimit = Limited!NoLimit
    <2>1. Limited!AttemptLimit(r) = IF Room < ResponseLength THEN Room ELSE ResponseLength
      BY <1>3 DEF Limited!AttemptLimit
    <2>2. Limited!TotalLimit = Slack + ResponseLength
      BY <1>3 DEF Limited!TotalLimit
    <2>3. Slack \in Nat /\ ResponseLength \in Nat
      BY LimAssumption
    <2>4. Room \in Int /\ Len(limMerged[r]) + Room = Limited!TotalLimit
      BY <1>1, <2>2, <2>3
    <2>. HIDE DEF Room
    <2>5. CASE Room < ResponseLength
      <3>1. Limited!AttemptLimit(r) = Room
        BY <2>1, <2>5, Zenon
      <3>. QED
        BY <1>1, <2>4, <3>1
    <2>6. CASE ~(Room < ResponseLength)
      <3>1. Limited!AttemptLimit(r) = ResponseLength
        BY <2>1, <2>6, Zenon
      <3>. QED
        BY <1>1, <2>3, <2>4, <2>6, <3>1
    <2>. QED
      BY <2>5, <2>6
  <1>. QED
    BY <1>2, <1>3

\* The counts follow from the two places where a server can stand.
LEMMA LimCountsFollow ==
  ASSUME LimCountsExact, NEW r \in Request, NEW s \in Limited!Server,
         \A q \in Request \ {r} : limAt'[q] = limAt[q],
         \A q \in Request \ {r} : limRelease'[q] = limRelease[q]
  PROVE  \E a, b \in Nat :
           /\ limInflight[s]
                = (IF limAt[r] = s THEN a + 1 ELSE a) + (IF limRelease[r] = s THEN b + 1 ELSE b)
           /\ Cardinality(On(limAt', s)) = IF limAt'[r] = s THEN a + 1 ELSE a
           /\ Cardinality(On(limRelease', s)) = IF limRelease'[r] = s THEN b + 1 ELSE b
  <1>1. limInflight[s] = Cardinality(On(limAt, s)) + Cardinality(On(limRelease, s))
    BY DEF LimCountsExact, On
  <1>2. Moves(limAt, limAt', r, s) /\ Moves(limRelease, limRelease', r, s)
    BY Moved
  <1>3. PICK a \in Nat :
           /\ limAt[r] = s => Cardinality(On(limAt, s)) = a + 1
           /\ limAt[r] # s => Cardinality(On(limAt, s)) = a
           /\ limAt'[r] = s => Cardinality(On(limAt', s)) = a + 1
           /\ limAt'[r] # s => Cardinality(On(limAt', s)) = a
    BY <1>2 DEF Moves
  <1>4. PICK b \in Nat :
           /\ limRelease[r] = s => Cardinality(On(limRelease, s)) = b + 1
           /\ limRelease[r] # s => Cardinality(On(limRelease, s)) = b
           /\ limRelease'[r] = s => Cardinality(On(limRelease', s)) = b + 1
           /\ limRelease'[r] # s => Cardinality(On(limRelease', s)) = b
    BY <1>2 DEF Moves
  <1>. WITNESS a \in Nat, b \in Nat
  <1>. QED
    BY <1>1, <1>3, <1>4

\* What a step leaves alone stays as it is.
LEMMA LimClientKept ==
  ASSUME UNCHANGED Limited!clientVars
  PROVE  LimClientTypes => LimClientTypes'
  BY DEF Limited!clientVars, LimClientTypes

LEMMA LimBalancerKept ==
  ASSUME UNCHANGED Limited!balancerVars
  PROVE  LimBalancerTypes => LimBalancerTypes'
  BY DEF Limited!balancerVars, LimBalancerTypes

LEMMA LimServersKept ==
  ASSUME UNCHANGED Limited!serverVars
  PROVE  LimServerTypes => LimServerTypes'
  BY DEF Limited!serverVars, LimServerTypes

LEMMA LimManagerKept ==
  ASSUME UNCHANGED Limited!managerVars
  PROVE  LimManagerTypes => LimManagerTypes'
  BY DEF Limited!managerVars, LimManagerTypes

LEMMA LimPlacesKept ==
  ASSUME UNCHANGED <<limPc, limAt, limRelease>>
  PROVE  LimPlaces => LimPlaces'
  BY DEF LimPlaces

LEMMA LimCountsKept ==
  ASSUME UNCHANGED <<limAt, limRelease, limInflight>>
  PROVE  LimCountsExact => LimCountsExact'
  <1>1. limAt' = limAt /\ limRelease' = limRelease /\ limInflight' = limInflight
    OBVIOUS
  <1>. QED
    BY <1>1, Zenon DEF LimCountsExact

LEMMA LimRoomKept ==
  ASSUME UNCHANGED <<limPc, limMerged, limChunk, limReason>>
  PROVE  Limited!RoomLeft /\ LimAbortedRoom => Limited!RoomLeft' /\ LimAbortedRoom'
  <1>1. limPc' = limPc /\ limMerged' = limMerged /\ limChunk' = limChunk /\ limReason' = limReason
    OBVIOUS
  <1>. QED
    BY <1>1, Zenon DEF Limited!RoomLeft, LimAbortedRoom

\* Acquire moves a request to a server; its release moves it away from there in two steps.
LEMMA LimAcquireCounts ==
  ASSUME LimIInv, NEW r \in Request, Limited!Acquire(r)
  PROVE  LimCountsExact'
  <1>. USE DEF LimIInv
  <1>1. PICK s \in Limited!Server : limInflight' = Limited!Counted(r, s)
       /\ limAt' = [limAt EXCEPT ![r] = s]
    BY DEF Limited!Acquire
  <1>2. limAt[r] = 0 /\ limRelease[r] = 0 /\ limRelease' = limRelease
    BY DEF Limited!Acquire, LimPlaces
  <1>3. limAt'[r] = s /\ \A q \in Request \ {r} : limAt'[q] = limAt[q]
    BY <1>1 DEF LimClientTypes
  <1>4. SUFFICES ASSUME NEW t \in Limited!Server
                 PROVE  limInflight'[t]
                     = Cardinality(On(limAt', t)) + Cardinality(On(limRelease', t))
    BY DEF LimCountsExact, On
  <1>5. limInflight[t] \in Nat /\ t # 0 /\ limInflight'[t] = IF t = s THEN limInflight[t] + 1
       ELSE limInflight[t]
    BY <1>1, LimServers DEF Limited!Counted, LimBalancerTypes
  <1>6. PICK a, b \in Nat :
           /\ limInflight[t]
                = (IF limAt[r] = t THEN a + 1 ELSE a) + (IF limRelease[r] = t THEN b + 1 ELSE b)
           /\ Cardinality(On(limAt', t)) = IF limAt'[r] = t THEN a + 1 ELSE a
           /\ Cardinality(On(limRelease', t)) = IF limRelease'[r] = t THEN b + 1 ELSE b
    BY <1>2, <1>3, LimCountsFollow
  <1>. QED
    BY <1>2, <1>3, <1>5, <1>6

LEMMA LimReleaseCounts ==
  ASSUME LimIInv, NEW r \in Request, Limited!Release(r)
  PROVE  LimCountsExact' /\ limInflight' \in [Limited!Server -> Nat]
  <1>. USE DEF LimIInv
  <1>1. /\ limRelease[r] \in Limited!Server /\ limAt[r] = 0 /\ limAt' = limAt
        /\ limRelease' = [limRelease EXCEPT ![r] = 0]
        /\ limInflight' = [limInflight EXCEPT ![limRelease[r]] = @ - 1]
    BY DEF Limited!Release, Limited!clientVars, LimBalancerTypes, LimPlaces, Limited!Server
  <1>2. limRelease'[r] = 0 /\ \A q \in Request \ {r} : limRelease'[q] = limRelease[q]
    BY <1>1 DEF LimBalancerTypes
  <1>3. ASSUME NEW t \in Limited!Server
        PROVE  /\ limInflight'[t] = Cardinality(On(limAt', t)) + Cardinality(On(limRelease', t))
               /\ limInflight'[t] \in Nat
    <2>1. /\ limInflight[t] \in Nat /\ t # 0
          /\ limInflight'[t] = IF t = limRelease[r] THEN limInflight[t] - 1 ELSE limInflight[t]
      BY <1>1, LimServers DEF LimBalancerTypes
    <2>2. PICK a, b \in Nat :
             /\ limInflight[t]
                  = (IF limAt[r] = t THEN a + 1 ELSE a) + (IF limRelease[r] = t THEN b + 1 ELSE b)
             /\ Cardinality(On(limAt', t)) = IF limAt'[r] = t THEN a + 1 ELSE a
             /\ Cardinality(On(limRelease', t)) = IF limRelease'[r] = t THEN b + 1 ELSE b
      <3>1. LimCountsExact /\ \A q \in Request \ {r} : limAt'[q] = limAt[q]
        BY <1>1
      <3>. QED
        BY <1>2, <3>1, LimCountsFollow, Zenon
    <2>. QED
      BY <1>1, <1>2, <2>1, <2>2
  <1>. QED
    BY <1>1, <1>3 DEF LimCountsExact, On, LimBalancerTypes

LEMMA LimMergeCounts ==
  ASSUME LimIInv, NEW r \in Request, Limited!Merge(r)
  PROVE  LimCountsExact'
  <1>. USE DEF LimIInv
  <1>1. /\ limAt[r] \in Limited!Server /\ limRelease[r] = 0 /\ limInflight' = limInflight
        /\ limAt' = [limAt EXCEPT ![r] = 0] /\ limRelease' = [limRelease EXCEPT ![r] = limAt[r]]
    BY DEF Limited!Merge, LimPlaces, LimClientTypes, Limited!Server
  <1>2. /\ limAt'[r] = 0 /\ limRelease'[r] = limAt[r]
        /\ \A q \in Request \ {r} : limAt'[q] = limAt[q]
        /\ \A q \in Request \ {r} : limRelease'[q] = limRelease[q]
    BY <1>1 DEF LimClientTypes, LimBalancerTypes
  <1>3. SUFFICES ASSUME NEW t \in Limited!Server
                 PROVE  limInflight'[t]
                     = Cardinality(On(limAt', t)) + Cardinality(On(limRelease', t))
    BY DEF LimCountsExact, On
  <1>4. PICK a, b \in Nat :
           /\ limInflight[t]
                = (IF limAt[r] = t THEN a + 1 ELSE a) + (IF limRelease[r] = t THEN b + 1 ELSE b)
           /\ Cardinality(On(limAt', t)) = IF limAt'[r] = t THEN a + 1 ELSE a
           /\ Cardinality(On(limRelease', t)) = IF limRelease'[r] = t THEN b + 1 ELSE b
    BY <1>2, LimCountsFollow
  <1>. QED
    BY <1>1, <1>2, <1>4, LimServers

LEMMA LimStep == LimIInv /\ [Limited!Next]_limVars => LimIInv'
  <1>. SUFFICES ASSUME LimIInv, [Limited!Next]_limVars PROVE LimIInv'
    OBVIOUS
  <1>. USE DEF LimIInv
  <1>1. ASSUME NEW r \in Request, Limited!Acquire(r) PROVE LimIInv'
    <2>1. PICK s \in Limited!Server :
            /\ limInflight' = Limited!Counted(r, s)
            /\ limAt' = [limAt EXCEPT ![r] = s]
            /\ limRoute' = [limRoute EXCEPT ![r] = s]
      BY <1>1 DEF Limited!Acquire
    <2>2. /\ limPc[r] = "ready" /\ limRelease[r] = 0 /\ limPc' = [limPc EXCEPT ![r] = "routed"]
          /\ limRecent' = Limited!Touch(r)
          /\ UNCHANGED <<limMerged, limChunk, limReason, limLabel, limSteps, limRelease,
               Limited!serverVars, Limited!managerVars>>
      BY <1>1 DEF Limited!Acquire
    <2>3. LimClientTypes' /\ LimBalancerTypes'
      <3>1. LimClientTypes'
        BY <2>1, <2>2, LimServers DEF LimClientTypes
      <3>2. limInflight' \in [Limited!Server -> Nat] /\ limRoute' \in [Request -> 0 .. NumServers]
        BY <2>1, LimServers DEF Limited!Counted, LimBalancerTypes
      <3>3. limRecent' \in Seq(Request) /\ limRelease' \in [Request -> 0 .. NumServers]
        BY <2>2, LimTouchType DEF LimBalancerTypes
      <3>. QED
        BY <3>1, <3>2, <3>3 DEF LimBalancerTypes
    <2>4. LimServerTypes' /\ LimManagerTypes'
      BY <2>2, LimServersKept, LimManagerKept
    <2>5. LimPlaces'
      BY <2>1, <2>2, LimServers DEF LimClientTypes, LimPlaces
    <2>6. Limited!RoomLeft' /\ LimAbortedRoom'
      BY <2>2 DEF LimClientTypes, Limited!RoomLeft, LimAbortedRoom
    <2>. QED
      BY <1>1, <2>3, <2>4, <2>5, <2>6, LimAcquireCounts
  <1>2. ASSUME NEW r \in Request, Limited!Release(r) PROVE LimIInv'
    <2>1. /\ limRelease[r] # 0 /\ limRelease' = [limRelease EXCEPT ![r] = 0]
          /\ UNCHANGED <<Limited!clientVars, limRecent, limRoute, Limited!serverVars,
               Limited!managerVars>>
      BY <1>2 DEF Limited!Release
    <2>2. LimBalancerTypes' /\ LimCountsExact'
      BY <1>2, <2>1, LimReleaseCounts, LimAssumption DEF LimBalancerTypes
    <2>3. LimClientTypes' /\ LimServerTypes' /\ LimManagerTypes'
      BY <2>1, LimClientKept, LimServersKept, LimManagerKept
    <2>4. LimPlaces'
      BY <2>1 DEF Limited!clientVars, LimBalancerTypes, LimPlaces
    <2>5. Limited!RoomLeft' /\ LimAbortedRoom'
      BY <2>1, LimRoomKept DEF Limited!clientVars
    <2>. QED
      BY <2>2, <2>3, <2>4, <2>5
  <1>3. ASSUME NEW r \in Request, Limited!Start(r) PROVE LimIInv'
    <2>1. /\ limPc[r] = "routed" /\ limPc' = [limPc EXCEPT ![r] = "running"]
          /\ UNCHANGED <<limAt, limMerged, limChunk, limReason, limLabel, limSteps,
               Limited!balancerVars, Limited!serverVars, Limited!managerVars>>
      BY <1>3 DEF Limited!Start
    <2>2. LimClientTypes' /\ LimPlaces'
      BY <2>1 DEF LimClientTypes, LimPlaces, Limited!balancerVars
    <2>3. Limited!RoomLeft' /\ LimAbortedRoom'
      BY <2>1 DEF LimClientTypes, Limited!RoomLeft, LimAbortedRoom
    <2>. QED
      BY <2>1, <2>2, <2>3, LimBalancerKept, LimServersKept, LimManagerKept, LimCountsKept
      DEF Limited!balancerVars
  <1>4. ASSUME NEW r \in Request, Limited!Sample(r) PROVE LimIInv'
    <2>1. /\ limPc[r] = "running"
          /\ limChunk' = [limChunk EXCEPT ![r] = Append(@, limWeights[limAt[r]])]
          /\ UNCHANGED <<limAt, limMerged, limSteps, Limited!balancerVars, Limited!serverVars,
               Limited!managerVars>>
      BY <1>4 DEF Limited!Sample
    <2>2. limAt[r] \in Limited!Server /\ limNamed[limAt[r]] \in Nat /\ limWeights[limAt[r]] \in Int
      BY <2>1 DEF LimPlaces, LimClientTypes, LimServerTypes, Limited!Server
    <2>3. /\ limChunk' \in [Request -> Seq(Int)] /\ Len(limChunk'[r]) = Len(limChunk[r]) + 1
          /\ \A q \in Request \ {r} : limChunk'[q] = limChunk[q]
      BY <2>1, <2>2 DEF LimClientTypes
    <2>4. \/ /\ UNCHANGED <<limPc, limReason, limLabel>>
             /\ Len(limChunk[r]) + 1 < Limited!AttemptLimit(r)
          \/ Limited!Return({r}, "completed")
      BY <1>4 DEF Limited!Sample
    <2>5. /\ limPc' \in [Request -> {"ready", "routed", "running", "returned", "done"}]
          /\ limReason' \in [Request -> {"aborted", "completed"}]
          /\ limLabel' \in [Request -> Nat]
          /\ \A q \in Request \ {r} : limPc'[q] = limPc[q] /\ limReason'[q] = limReason[q]
          /\ \/ limPc'[r] = "running" /\ Len(limChunk[r]) + 1 < Limited!AttemptLimit(r)
             \/ limPc'[r] = "returned" /\ limReason'[r] = "completed"
      <3>1. CASE UNCHANGED <<limPc, limReason, limLabel>>
           /\ Len(limChunk[r]) + 1 < Limited!AttemptLimit(r)
        BY <2>1, <3>1 DEF LimClientTypes
      <3>2. CASE Limited!Return({r}, "completed")
        <4>1. \A q \in {r} : limNamed[limAt[q]] \in Nat
          BY <2>2
        <4>. QED
          BY <3>2, <4>1 DEF Limited!Return, LimClientTypes
      <3>. QED
        BY <2>4, <3>1, <3>2
    <2>6. LimClientTypes' /\ LimPlaces'
      BY <2>1, <2>3, <2>5 DEF LimClientTypes, LimPlaces, Limited!balancerVars
    <2>7. /\ Len(limMerged[r]) \in Nat /\ Len(limChunk[r]) \in Nat
          /\ Len(limMerged[r]) + Len(limChunk[r]) < Limited!TotalLimit
      BY <2>1 DEF LimClientTypes, Limited!RoomLeft
    <2>8. Limited!AttemptLimit(r) \in Int
         /\ Len(limMerged[r]) + Limited!AttemptLimit(r) <= Limited!TotalLimit
      BY LimLimitKept
    <2>9. /\ Len(limMerged'[r]) + Len(limChunk'[r]) <= Limited!TotalLimit
          /\ limPc'[r] = "running" => Len(limMerged'[r]) + Len(limChunk'[r]) < Limited!TotalLimit
      <3>. DEFINE m == Len(limMerged[r])
                  c == Len(limChunk[r])
      <3>1. m \in Nat /\ c \in Nat /\ m + c < Limited!TotalLimit
        BY <2>7, Zenon
      <3>2. Len(limMerged'[r]) = m /\ Len(limChunk'[r]) = c + 1
        BY <2>1, <2>3
      <3>3. limPc'[r] = "running" => c + 1 < Limited!AttemptLimit(r)
        BY <2>5
      <3>4. Limited!AttemptLimit(r) \in Int /\ m + Limited!AttemptLimit(r) <= Limited!TotalLimit
        BY <2>8
      <3>. HIDE DEF m, c
      <3>5. m + (c + 1) <= Limited!TotalLimit
           /\ (limPc'[r] = "running" => m + (c + 1) < Limited!TotalLimit)
        BY <3>1, <3>3, <3>4, LimLimits
      <3>. QED
        BY <3>2, <3>5
    <2>10. Limited!RoomLeft' /\ LimAbortedRoom'
      BY <2>1, <2>3, <2>5, <2>9 DEF Limited!RoomLeft, LimAbortedRoom
    <2>. QED
      BY <2>1, <2>6, <2>10, LimBalancerKept, LimServersKept, LimManagerKept, LimCountsKept
      DEF Limited!balancerVars
  <1>5. ASSUME NEW r \in Request, Limited!Merge(r) PROVE LimIInv'
    <2>1. /\ limPc[r] = "returned"
          /\ limMerged' = [limMerged EXCEPT ![r] = @ \o limChunk[r]]
          /\ limChunk' = [limChunk EXCEPT ![r] = <<>>]
          /\ limSteps' = [limSteps EXCEPT ![r] = Limited!StepsAfter(r)]
          /\ limRelease' = [limRelease EXCEPT ![r] = limAt[r]]
          /\ limAt' = [limAt EXCEPT ![r] = 0]
          /\ limPc' = [limPc EXCEPT ![r] = IF Limited!Resumes(r) THEN "ready" ELSE "done"]
          /\ UNCHANGED <<limReason, limLabel, limInflight, limRecent, limRoute, Limited!serverVars,
               Limited!managerVars>>
      BY <1>5 DEF Limited!Merge
    <2>2. /\ Len(limMerged[r]) \in Nat /\ Len(limChunk[r]) \in Nat
          /\ limMerged[r] \o limChunk[r] \in Seq(Int)
          /\ Len(limMerged[r] \o limChunk[r]) = Len(limMerged[r]) + Len(limChunk[r])
          /\ Len(<<>>) = 0 /\ <<>> \in Seq(Int)
      BY EmptySeq DEF LimClientTypes
    <2>3. Limited!StepsAfter(r) \in Int \X Int
      BY DEF Limited!StepsAfter, LimClientTypes
    <2>4. limAt[r] \in Limited!Server
      BY <2>1 DEF LimPlaces, LimClientTypes, Limited!Server
    <2>5. /\ limMerged'[r] = limMerged[r] \o limChunk[r] /\ limChunk'[r] = <<>> /\ limAt'[r] = 0
          /\ limPc'[r] \in {"ready", "done"} /\ (limPc'[r] = "ready" => Limited!Resumes(r))
          /\ \A q \in Request \ {r} :
               /\ limMerged'[q] = limMerged[q] /\ limChunk'[q] = limChunk[q] /\ limPc'[q] = limPc[q]
               /\ limAt'[q] = limAt[q] /\ limRelease'[q] = limRelease[q]
      BY <2>1 DEF LimClientTypes, LimBalancerTypes
    <2>6. LimClientTypes'
      <3>1. limPc' \in [Request -> {"ready", "routed", "running", "returned", "done"}]
        BY <2>1 DEF LimClientTypes
      <3>2. limMerged' \in [Request -> Seq(Int)] /\ limChunk' \in [Request -> Seq(Int)]
        BY <2>1, <2>2 DEF LimClientTypes
      <3>3. limSteps' \in [Request -> Int \X Int] /\ limAt' \in [Request -> 0 .. NumServers]
        BY <2>1, <2>3, LimAssumption DEF LimClientTypes
      <3>. QED
        BY <2>1, <3>1, <3>2, <3>3 DEF LimClientTypes
    <2>7. LimBalancerTypes'
      BY <2>1, <2>4, LimServers DEF LimBalancerTypes
    <2>8. LimPlaces'
      BY <2>5 DEF LimPlaces
    <2>9. limPc'[r] = "ready" => Len(limMerged[r]) + Len(limChunk[r]) < Limited!TotalLimit
      BY <2>1, <2>5 DEF Limited!Resumes, LimAbortedRoom
    <2>10. /\ Len(limMerged'[r]) + Len(limChunk'[r]) <= Limited!TotalLimit
           /\ limPc'[r] = "ready" => Len(limMerged'[r]) + Len(limChunk'[r]) < Limited!TotalLimit
      <3>1. Len(limMerged[r]) + Len(limChunk[r]) <= Limited!TotalLimit
        BY DEF Limited!RoomLeft
      <3>2. Len(limMerged'[r]) = Len(limMerged[r]) + Len(limChunk[r]) /\ Len(limChunk'[r]) = 0
        BY <2>2, <2>5
      <3>3. Len(limMerged'[r]) + Len(limChunk'[r]) = Len(limMerged[r]) + Len(limChunk[r])
        BY <2>2, <3>2
      <3>. QED
        BY <2>9, <3>1, <3>3
    <2>11. Limited!RoomLeft' /\ LimAbortedRoom'
      BY <2>1, <2>5, <2>10 DEF Limited!RoomLeft, LimAbortedRoom
    <2>. QED
      BY <1>5, <2>1, <2>6, <2>7, <2>8, <2>11, LimServersKept, LimManagerKept, LimMergeCounts
  <1>6. ASSUME NEW s \in Limited!Server, Limited!Abort(s) PROVE LimIInv'
    <2>1. /\ limStage' = [limStage EXCEPT ![s] = "over"]
          /\ limPaused' \in {limPaused, limPaused \cup {s}}
          /\ Limited!Return(Limited!Running(s), "aborted")
          /\ UNCHANGED <<limAt, limMerged, limChunk, limSteps, Limited!balancerVars, limWeights,
               limNamed, limPhase, limTarget, limFailures>>
      BY <1>6 DEF Limited!Abort
    <2>2. \A r \in Request : r \in Limited!Running(s) <=> limPc[r] = "running" /\ limAt[r] = s
      BY DEF Limited!Running
    <2>3. \A r \in Request :
            IF limPc[r] = "running" /\ limAt[r] = s
              THEN limPc'[r] = "returned" /\ limReason'[r] = "aborted" /\ limLabel'[r] = limNamed[s]
              ELSE limPc'[r] = limPc[r] /\ limReason'[r] = limReason[r]
                  /\ limLabel'[r] = limLabel[r]
      BY <2>1, <2>2 DEF Limited!Return
    <2>4. LimClientTypes'
      <3>1. /\ limPc' = [r \in Request |-> limPc'[r]]
            /\ limReason' = [r \in Request |-> limReason'[r]]
            /\ limLabel' = [r \in Request |-> limLabel'[r]]
        BY <2>1 DEF Limited!Return
      <3>2. limNamed[s] \in Nat
        BY DEF LimServerTypes
      <3>. QED
        BY <2>1, <2>3, <3>1, <3>2 DEF LimClientTypes
    <2>5. LimServerTypes' /\ LimManagerTypes'
      BY <2>1 DEF LimServerTypes, LimManagerTypes
    <2>6. LimPlaces'
      BY <2>1, <2>3 DEF LimPlaces, Limited!balancerVars
    <2>7. Limited!RoomLeft' /\ LimAbortedRoom'
      BY <2>1, <2>3 DEF Limited!RoomLeft, LimAbortedRoom
    <2>. QED
      BY <2>1, <2>4, <2>5, <2>6, <2>7, LimBalancerKept, LimCountsKept DEF Limited!balancerVars
  <1>7. ASSUME NEW s \in Limited!Server,
               Limited!AbortRaises(s) \/ Limited!LoadBegin(s) \/ Limited!LoadEnd(s)
                   \/ Limited!SetGlobalSteps(s) \/ Limited!Resume(s)
        PROVE  LimIInv'
    <2>1. UNCHANGED <<Limited!clientVars, Limited!balancerVars>>
      BY <1>7
      DEF Limited!AbortRaises, Limited!LoadBegin, Limited!LoadEnd, Limited!SetGlobalSteps,
          Limited!Resume
    <2>2. LimServerTypes'
      BY <1>7
      DEF Limited!AbortRaises, Limited!LoadBegin, Limited!LoadEnd, Limited!SetGlobalSteps,
          Limited!Resume, Limited!Unpaused, Limited!Mixed, Limited!serverVars, LimServerTypes,
          LimManagerTypes
    <2>3. LimManagerTypes'
      BY <1>7
      DEF Limited!AbortRaises, Limited!LoadBegin, Limited!LoadEnd, Limited!SetGlobalSteps,
          Limited!Resume, LimManagerTypes
    <2>. QED
      BY <2>1, <2>2, <2>3, LimClientKept, LimBalancerKept, LimPlacesKept, LimCountsKept,
         LimRoomKept
      DEF Limited!clientVars, Limited!balancerVars
  <1>8. ASSUME Limited!BeginUpdate \/ Limited!NextPhase PROVE LimIInv'
    <2>1. UNCHANGED <<Limited!clientVars, Limited!balancerVars, Limited!serverVars>>
      BY <1>8 DEF Limited!BeginUpdate, Limited!NextPhase
    <2>2. LimManagerTypes'
      BY <1>8 DEF Limited!BeginUpdate, Limited!NextPhase, LimManagerTypes
    <2>. QED
      BY <2>1, <2>2, LimClientKept, LimBalancerKept, LimServersKept, LimPlacesKept, LimCountsKept,
         LimRoomKept
      DEF Limited!clientVars, Limited!balancerVars
  <1>9. CASE UNCHANGED limVars
    BY <1>9, LimClientKept, LimBalancerKept, LimServersKept, LimManagerKept, LimPlacesKept,
       LimCountsKept, LimRoomKept
    DEF limVars, Limited!clientVars, Limited!balancerVars, Limited!serverVars,
        Limited!managerVars
  <1>. QED
    BY <1>1, <1>2, <1>3, <1>4, <1>5, <1>6, <1>7, <1>8, <1>9
    DEF Limited!Next, Limited!RequestStep, Limited!ServerStep

-----------------------------------------------------------------------------
(* The chain of ranks, of any length.  The invariant relates neighbours:   *)
(* what a rank has offered is what the next one has taken, or one bucket   *)
(* more, and that one lies in the buffer that its owner does not write to. *)

\* Buckets that a rank has offered to the next one, buckets that a receiver has begun to read, and
\* the buffer in which an offered bucket lies.
Published(n) ==
  IF rankPc[n] \in {"fill", "filling", "offer", "publish"} THEN current[n] - 1 ELSE current[n]
Taken(n) == IF xfer[n] = "idle" THEN current[n] ELSE current[n] + 1
Held(n) == IF n = 0 /\ rankPc[n] # "wait" THEN Chain!Back(n) ELSE front[n]

\* Where rank 0 is.
SenderPlace ==
  /\ rankPc[0] \in {"fill", "filling", "offer", "wait", "done"}
  /\ current[0] >= 1
  /\ rankPc[0] \in {"wait", "done"} => current[0] = NumBuckets
  /\ rankPc[0] = "offer" => buf[0][front[0]] = current[0]
  /\ rankPc[0] = "done" => ~offered[0]

\* Where a receiver is: the bucket in send_buf is whole until it is given to the inference server,
\* and the bucket that is read into the other buffer is the one that follows it.
ReceiverPlace(n) ==
  /\ rankPc[n] \in {"first", "publish", "meta", "yield", "wait", "done"}
  /\ rankPc[n] = "first" => current[n] = 0
  /\ rankPc[n] = "done" => current[n] = NumBuckets
  /\ rankPc[n] = "meta" => current[n] < NumBuckets
  /\ rankPc[n] \in {"publish", "meta", "yield"} => current[n] >= 1 /\ buf[n][front[n]] = current[n]
  /\ rankPc[n] \in {"first", "publish", "done"} => ~offered[n]
  /\ rankPc[n] \in {"first", "publish", "meta", "done"} => xfer[n] = "idle"
  /\ rankPc[n] \in {"yield", "wait"} /\ current[n] < NumBuckets => xfer[n] # "idle"
  /\ xfer[n] # "idle" => current[n] < NumBuckets /\ coming[n] = current[n] + 1
  /\ xfer[n] = "over" => buf[n][Chain!Back(n)] = coming[n]
  /\ Len(delivered[n]) =
       IF rankPc[n] \in {"publish", "meta", "yield"} THEN current[n] - 1 ELSE current[n]
  /\ \A i \in 1 .. Len(delivered[n]) : delivered[n][i] = i

\* Between a rank and the next one: an offer is either in the mail or being read, it is the next
\* bucket of the reader, and it lies in the buffer that its owner does not write to.
Link(n) ==
  /\ offered[n] <=> mail[n + 1] # <<>> \/ xfer[n + 1] = "running"
  /\ offered[n] => buf[n][Held(n)] = Published(n)
  /\ mail[n + 1] = <<>> => Published(n) = Taken(n + 1)
  /\ mail[n + 1] # <<>> =>
       /\ xfer[n + 1] # "running"
       /\ mail[n + 1] = <<[bucket |-> Published(n), buffer |-> Held(n)]>>
       /\ Published(n) = Taken(n + 1) + 1
  /\ xfer[n + 1] = "running" => from[n + 1] = Held(n) /\ seen[n + 1] = Published(n)

ChainInv ==
  /\ SenderPlace
  /\ \A n \in Chain!Receiver : ReceiverPlace(n)
  /\ \A n \in 0 .. LastRank - 1 : Link(n)
  /\ ~offered[LastRank]

CInv == Chain!TypeOK /\ ChainInv

LEMMA RankNumbers ==
  /\ LastRank \in Nat /\ LastRank >= 1 /\ NumBuckets \in Nat /\ NumBuckets >= 1
  /\ 0 \in Chain!Rank /\ LastRank \in Chain!Receiver
  /\ \A n \in Chain!Receiver :
       /\ n \in Nat /\ n # 0 /\ n \in Chain!Rank
       /\ n - 1 \in 0 .. LastRank - 1 /\ n - 1 \in Chain!Rank /\ (n - 1) + 1 = n
  /\ \A n \in 0 .. LastRank - 1 :
       /\ n \in Nat /\ n \in Chain!Rank /\ n # LastRank /\ (n # 0 => n \in Chain!Receiver)
       /\ n + 1 \in Chain!Receiver /\ n + 1 \in Chain!Rank /\ (n + 1) - 1 = n
  BY MCWeightUpdateAssumption DEF Chain!WeightPipelineAssumption, Chain!Rank, Chain!Receiver

LEMMA ChainInit == Chain!Init => CInv
  <1>. SUFFICES ASSUME Chain!Init PROVE CInv
    OBVIOUS
  <1>1. Chain!TypeOK
    BY RankNumbers DEF Chain!Init, Chain!TypeOK, Chain!Rank, Chain!Empty
  <1>2. SenderPlace
    BY RankNumbers DEF Chain!Init, SenderPlace
  <1>3. ASSUME NEW n \in Chain!Receiver PROVE ReceiverPlace(n)
    <2>. n \in Chain!Rank /\ n # 0
      BY RankNumbers
    <2>1. delivered[n] = <<>>
      BY DEF Chain!Init
    <2>2. rankPc[n] = "first" /\ current[n] = 0 /\ xfer[n] = "idle" /\ ~offered[n]
      BY DEF Chain!Init
    <2>. QED
      BY <2>1, <2>2, RankNumbers DEF ReceiverPlace
  <1>4. ASSUME NEW n \in 0 .. LastRank - 1 PROVE Link(n)
    <2>. n \in Chain!Rank /\ n + 1 \in Chain!Rank /\ n + 1 # 0
      BY RankNumbers
    <2>1. mail[n + 1] = <<>> /\ xfer[n + 1] = "idle" /\ ~offered[n] /\ current[n + 1] = 0
      BY DEF Chain!Init
    <2>2. Published(n) = 0
      BY DEF Chain!Init, Published
    <2>3. Taken(n + 1) = 0
      BY <2>1 DEF Taken
    <2>. QED
      BY <2>1, <2>2, <2>3 DEF Link
  <1>. QED
    BY <1>1, <1>2, <1>3, <1>4, RankNumbers DEF CInv, ChainInv, Chain!Init

\* What TypeOK says of one rank.
LEMMA RankTypes ==
  ASSUME Chain!TypeOK, NEW n \in Chain!Rank
  PROVE  /\ front[n] \in {0, 1} /\ Chain!Back(n) \in {0, 1} /\ Chain!Back(n) # front[n]
         /\ current[n] \in 0 .. NumBuckets /\ coming[n] \in 0 .. NumBuckets
         /\ mail[n] \in Seq([bucket : 1 .. NumBuckets, buffer : {0, 1}])
         /\ offered[n] \in BOOLEAN /\ xfer[n] \in {"idle", "running", "over"}
         /\ seen[n] \in -1 .. NumBuckets /\ from[n] \in {0, 1}
         /\ delivered[n] \in Seq(-1 .. NumBuckets)
         /\ DOMAIN buf = Chain!Rank /\ DOMAIN buf[n] = {0, 1}
         /\ \A b \in {0, 1} : buf[n][b] \in -1 .. NumBuckets
  <1>1. front[n] \in {0, 1}
    BY DEF Chain!TypeOK
  <1>2. Chain!Back(n) \in {0, 1} /\ Chain!Back(n) # front[n]
    BY <1>1 DEF Chain!Back
  <1>3. DOMAIN buf = Chain!Rank /\ buf[n] \in [{0, 1} -> -1 .. NumBuckets]
    BY DEF Chain!TypeOK
  <1>4. offered[n] \in BOOLEAN
    BY Zenon DEF Chain!TypeOK
  <1>5. current[n] \in 0 .. NumBuckets /\ coming[n] \in 0 .. NumBuckets
       /\ seen[n] \in -1 .. NumBuckets
    BY DEF Chain!TypeOK
  <1>6. /\ mail[n] \in Seq([bucket : 1 .. NumBuckets, buffer : {0, 1}])
        /\ delivered[n] \in Seq(-1 .. NumBuckets)
    BY DEF Chain!TypeOK
  <1>7. xfer[n] \in {"idle", "running", "over"} /\ from[n] \in {0, 1}
    BY DEF Chain!TypeOK
  <1>. QED
    BY <1>1, <1>2, <1>3, <1>4, <1>5, <1>6, <1>7

\* A rank that does nothing keeps its place, also when its offer is answered.
Own(n) == <<rankPc[n], front[n], buf[n], current[n], coming[n], xfer[n], delivered[n]>>

LEMMA PlaceKept ==
  ASSUME NEW n \in Chain!Rank, Own(n)' = Own(n), offered'[n] => offered[n]
  PROVE  /\ n # 0 /\ ReceiverPlace(n) => ReceiverPlace(n)'
         /\ n = 0 /\ SenderPlace => SenderPlace'
  BY Zenon DEF Own, ReceiverPlace, SenderPlace, Chain!Back

\* A link that neither of its ranks touches stays as it is.
Ends(n) == <<rankPc[n], front[n], current[n], offered[n], mail[n + 1], xfer[n + 1], current[n + 1],
             seen[n + 1], from[n + 1]>>

LEMMA LinkKept ==
  ASSUME NEW n, Ends(n)' = Ends(n), Link(n), offered[n] => buf'[n][Held(n)] = buf[n][Held(n)]
  PROVE  Link(n)'
  BY Zenon DEF Ends, Link, Held, Chain!Back, Published, Taken

-----------------------------------------------------------------------------
\* A step of rank 0.
SenderFrame ==
  /\ \A n \in Chain!Receiver : Own(n)' = Own(n)
  /\ \A n \in Chain!Receiver : offered'[n] = offered[n]
  /\ \A n \in Chain!Receiver : n # LastRank => Ends(n)' = Ends(n) /\ buf'[n] = buf[n]

LEMMA SenderStep ==
  ASSUME CInv, Chain!TypeOK', SenderFrame, SenderPlace', Link(0)'
  PROVE  CInv'
  <1>1. ASSUME NEW n \in Chain!Receiver PROVE ReceiverPlace(n)'
    BY PlaceKept, RankNumbers DEF SenderFrame, CInv, ChainInv
  <1>2. ASSUME NEW n \in 0 .. LastRank - 1 PROVE Link(n)'
    <2>1. CASE n = 0
      BY <2>1
    <2>2. CASE n # 0
      BY <2>2, LinkKept, RankNumbers DEF SenderFrame, CInv, ChainInv
    <2>. QED
      BY <2>1, <2>2
  <1>3. ~offered'[LastRank]
    BY RankNumbers DEF SenderFrame, CInv, ChainInv
  <1>. QED
    BY <1>1, <1>2, <1>3 DEF CInv, ChainInv

LEMMA FillStep == CInv /\ (Chain!Fill \/ Chain!Filled) => CInv'
  <1>. SUFFICES ASSUME CInv, Chain!Fill \/ Chain!Filled PROVE CInv'
    OBVIOUS
  <1>0. /\ rankPc[0] \in {"fill", "filling"}
        /\ rankPc' = [rankPc EXCEPT ![0] = IF rankPc[0] = "fill" THEN "filling" ELSE "offer"]
        /\ buf' = [buf EXCEPT ![0][front[0]] = IF rankPc[0] = "fill" THEN Chain!Torn
             ELSE current[0]]
        /\ UNCHANGED <<front, current, coming, mail, offered, xfer, seen, from, delivered>>
    BY DEF Chain!Fill, Chain!Filled
  <1>1. Chain!TypeOK /\ 0 \in Chain!Rank /\ current[0] \in 0 .. NumBuckets /\ front[0] \in {0, 1}
        /\ Chain!Back(0) \in {0, 1} /\ Chain!Back(0) # front[0] /\ DOMAIN buf = Chain!Rank
        /\ DOMAIN buf[0] = {0, 1}
    BY RankNumbers, RankTypes DEF CInv
  <1>2. Chain!TypeOK'
    <2>1. buf' \in [Chain!Rank -> [{0, 1} -> -1 .. NumBuckets]]
      <3>1. buf[0] \in [{0, 1} -> -1 .. NumBuckets]
           /\ buf \in [Chain!Rank -> [{0, 1} -> -1 .. NumBuckets]]
        BY <1>1 DEF Chain!TypeOK
      <3>. DEFINE v == IF rankPc[0] = "fill" THEN Chain!Torn ELSE current[0]
      <3>2. v \in -1 .. NumBuckets
        BY <1>1, RankNumbers DEF Chain!Torn
      <3>. HIDE DEF v
      <3>3. [buf[0] EXCEPT ![front[0]] = v] \in [{0, 1} -> -1 .. NumBuckets]
        BY <1>1, <3>1, <3>2
      <3>4. buf' = [buf EXCEPT ![0] = [buf[0] EXCEPT ![front[0]] = v]]
        BY <1>0, <1>1 DEF v
      <3>. QED
        BY <3>1, <3>3, <3>4
    <2>2. rankPc' \in [Chain!Rank ->
                        {"fill", "filling", "offer", "first", "meta", "publish", "yield",
                         "wait", "done"}]
      BY <1>0, <1>1 DEF Chain!TypeOK
    <2>. QED
      BY <1>0, <1>1, <2>1, <2>2, Zenon DEF Chain!TypeOK
  <1>3. SenderFrame
    BY <1>0, <1>1, RankNumbers DEF SenderFrame, Own, Ends, Chain!TypeOK
  <1>4. SenderPlace'
    BY <1>0, <1>1 DEF SenderPlace, CInv, ChainInv, Chain!TypeOK
  <1>5. Link(0)'
    <2>1. Link(0)
      BY RankNumbers DEF CInv, ChainInv
    <2>2. Published(0)' = Published(0) /\ Held(0) = Chain!Back(0) /\ Held(0)' = Chain!Back(0)
      BY <1>0, <1>1 DEF Published, Held, Chain!Back, Chain!TypeOK
    <2>3. Taken(0 + 1)' = Taken(0 + 1)
      BY <1>0 DEF Taken
    <2>4. buf'[0][Chain!Back(0)] = buf[0][Chain!Back(0)]
      BY <1>0, <1>1
    <2>. QED
      BY <1>0, <2>1, <2>2, <2>3, <2>4 DEF Link
  <1>. QED
    BY <1>2, <1>3, <1>4, <1>5, SenderStep

LEMMA SendStep == CInv /\ Chain!Send => CInv'
  <1>. SUFFICES ASSUME CInv, Chain!Send PROVE CInv'
    OBVIOUS
  <1>. DEFINE m == [bucket |-> current[0], buffer |-> front[0]]
              last == current[0] = NumBuckets
  <1>0. /\ rankPc[0] = "offer" /\ ~offered[0]
        /\ mail' = [mail EXCEPT ![1] = Append(@, m)]
        /\ offered' = [offered EXCEPT ![0] = TRUE]
        /\ UNCHANGED <<buf, coming, xfer, seen, from, delivered>>
        /\ last => rankPc' = [rankPc EXCEPT ![0] = "wait"] /\ UNCHANGED <<front, current>>
        /\ ~last => /\ front' = [front EXCEPT ![0] = 1 - @]
                    /\ current' = [current EXCEPT ![0] = @ + 1]
                    /\ rankPc' = [rankPc EXCEPT ![0] = "fill"]
    <2>1. 0 # LastRank /\ 0 + 1 = 1
      BY RankNumbers
    <2>2. offered' = [offered EXCEPT ![0] = TRUE]
      BY <2>1, Zenon DEF Chain!Send, Chain!Offer
    <2>. QED
      BY <2>1, <2>2 DEF Chain!Send, Chain!MayOffer, Chain!Offer, Chain!IsLast, Chain!Swap
  <1>1. Chain!TypeOK /\ 0 \in Chain!Rank /\ 1 \in Chain!Rank /\ 1 \in Chain!Receiver
       /\ current[0] \in 0 .. NumBuckets
        /\ front[0] \in {0, 1} /\ Link(0) /\ SenderPlace /\ current[0] >= 1
        /\ Chain!Back(0) \in {0, 1} /\ Chain!Back(0) = 1 - front[0]
    BY RankNumbers, RankTypes
    DEF CInv, ChainInv, Chain!Back, Chain!Receiver, Chain!Rank, SenderPlace
  <1>2. mail[1] = <<>> /\ xfer[1] # "running"
    BY <1>0, <1>1 DEF Link
  <1>3. m \in [bucket : 1 .. NumBuckets, buffer : {0, 1}] /\ mail'[1] = <<m>>
        /\ mail \in [Chain!Rank -> Seq([bucket : 1 .. NumBuckets, buffer : {0, 1}])]
    <2>1. mail \in [Chain!Rank -> Seq([bucket : 1 .. NumBuckets, buffer : {0, 1}])]
      BY <1>1 DEF Chain!TypeOK
    <2>2. m \in [bucket : 1 .. NumBuckets, buffer : {0, 1}]
      BY <1>1
    <2>. HIDE DEF m
    <2>3. mail'[1] = Append(<<>>, m)
      BY <1>0, <1>1, <1>2, <2>1
    <2>4. Append(<<>>, m) = <<m>>
      OBVIOUS
    <2>. QED
      BY <2>1, <2>2, <2>3, <2>4, Zenon
  <1>. DEFINE cur == IF last THEN current[0] ELSE current[0] + 1
              side == IF last THEN front[0] ELSE Chain!Back(0)
              place == IF last THEN "wait" ELSE "fill"
  <1>n. /\ current' = [current EXCEPT ![0] = cur] /\ cur \in 0 .. NumBuckets /\ cur >= 1
        /\ front' = [front EXCEPT ![0] = side] /\ side \in {0, 1}
        /\ rankPc' = [rankPc EXCEPT ![0] = place]
    <2>1. current \in [Chain!Rank -> 0 .. NumBuckets] /\ front \in [Chain!Rank -> {0, 1}]
      BY <1>1 DEF Chain!TypeOK
    <2>2. current' = [current EXCEPT ![0] = cur]
      BY <1>0, <1>1, <2>1
    <2>3. front' = [front EXCEPT ![0] = side]
      BY <1>0, <1>1, <2>1
    <2>4. cur \in 0 .. NumBuckets /\ cur >= 1
      BY <1>1, RankNumbers
    <2>5. rankPc' = [rankPc EXCEPT ![0] = place] /\ side \in {0, 1}
      BY <1>0, <1>1
    <2>. HIDE DEF cur, place, side
    <2>. QED
      BY <2>2, <2>3, <2>4, <2>5
  <1>. HIDE DEF m, cur, side, place
  <1>4. Chain!TypeOK'
    <2>1. mail' \in [Chain!Rank -> Seq([bucket : 1 .. NumBuckets, buffer : {0, 1}])]
      <3>1. <<m>> \in Seq([bucket : 1 .. NumBuckets, buffer : {0, 1}])
        BY <1>3
      <3>2. mail' = [mail EXCEPT ![1] = <<m>>]
        BY <1>0, <1>2, <1>3
      <3>. QED
        BY <1>1, <1>3, <3>1, <3>2
    <2>2. current' \in [Chain!Rank -> 0 .. NumBuckets] /\ front' \in [Chain!Rank -> {0, 1}]
      BY <1>n, <1>1 DEF Chain!TypeOK
    <2>3. rankPc' \in [Chain!Rank ->
                        {"fill", "filling", "offer", "first", "meta", "publish", "yield",
                         "wait", "done"}]
      BY <1>n, <1>1 DEF Chain!TypeOK, place
    <2>4. offered' \in [Chain!Rank -> BOOLEAN]
      BY <1>0, <1>1, Zenon DEF Chain!TypeOK
    <2>. QED
      BY <1>0, <1>1, <2>1, <2>2, <2>3, <2>4, Zenon DEF Chain!TypeOK
  <1>5. SenderFrame
    <2>1. ASSUME NEW n \in Chain!Receiver
          PROVE  /\ rankPc'[n] = rankPc[n] /\ front'[n] = front[n] /\ current'[n] = current[n]
                 /\ offered'[n] = offered[n]
                 /\ n # LastRank => mail'[n + 1] = mail[n + 1] /\ current'[n + 1] = current[n + 1]
      <3>1. n # 0 /\ n \in Chain!Rank
           /\ (n # LastRank => n + 1 \in Chain!Rank /\ n + 1 # 1 /\ n + 1 # 0)
        BY RankNumbers DEF Chain!Receiver, Chain!Rank
      <3>2. rankPc'[n] = rankPc[n] /\ front'[n] = front[n] /\ current'[n] = current[n]
        BY <1>n, <1>1, <3>1 DEF Chain!TypeOK
      <3>3. offered'[n] = offered[n]
        BY <1>0, <1>1, <3>1, Zenon DEF Chain!TypeOK
      <3>4. n # LastRank => mail'[n + 1] = mail[n + 1] /\ current'[n + 1] = current[n + 1]
        BY <1>n, <1>0, <1>1, <3>1 DEF Chain!TypeOK
      <3>. QED
        BY <3>2, <3>3, <3>4
    <2>. QED
      BY <1>0, <2>1 DEF SenderFrame, Own, Ends
  <1>p. rankPc'[0] = place /\ current'[0] = cur /\ front'[0] = side
    BY <1>n, <1>1 DEF Chain!TypeOK
  <1>6. SenderPlace'
    BY <1>p, <1>1, <1>n DEF SenderPlace, place, cur
  <1>7. Link(0)'
    <2>1. Published(0) = current[0] - 1 /\ Published(0)' = current[0]
      BY <1>0, <1>1, <1>p DEF Published, place, cur
    <2>2. Held(0)' = front[0]
      BY <1>1, <1>p DEF Held, Chain!Back, place, side
    <2>3. Taken(1)' = Taken(1) /\ Taken(1) = current[0] - 1
      <3>1. current'[1] = current[1]
        BY <1>n, <1>1 DEF Chain!TypeOK
      <3>. QED
        BY <1>0, <1>1, <1>2, <2>1, <3>1 DEF Taken, Link
    <2>4. buf'[0][front[0]] = current[0]
      BY <1>0, <1>1 DEF SenderPlace
    <2>5. offered'[0] /\ xfer'[1] # "running"
      BY <1>0, <1>1, <1>2, Zenon DEF Chain!TypeOK
    <2>6. mail'[1] = <<[bucket |-> current[0], buffer |-> front[0]]>>
      BY <1>3 DEF m
    <2>7. Published(0)' = Taken(1)' + 1
      BY <2>1, <2>3, <1>1
    <2>. QED
      BY <2>1, <2>2, <2>4, <2>5, <2>6, <2>7 DEF Link
  <1>. QED
    BY <1>4, <1>5, <1>6, <1>7, SenderStep

LEMMA SentStep == CInv /\ Chain!Sent => CInv'
  <1>. SUFFICES ASSUME CInv, Chain!Sent PROVE CInv'
    OBVIOUS
  <1>0. /\ rankPc[0] = "wait" /\ ~offered[0] /\ rankPc' = [rankPc EXCEPT ![0] = "done"]
        /\ UNCHANGED <<front, buf, current, coming, mail, offered, xfer, seen, from, delivered>>
    BY DEF Chain!Sent
  <1>1. Chain!TypeOK /\ 0 \in Chain!Rank /\ SenderPlace /\ Link(0)
    BY RankNumbers DEF CInv, ChainInv
  <1>2. Chain!TypeOK'
    BY <1>0, <1>1 DEF Chain!TypeOK
  <1>3. SenderFrame
    BY <1>0, <1>1, RankNumbers DEF SenderFrame, Own, Ends, Chain!TypeOK
  <1>4. SenderPlace'
    BY <1>0, <1>1 DEF SenderPlace, Chain!TypeOK
  <1>5. Link(0)'
    <2>1. Published(0)' = Published(0) /\ Taken(0 + 1)' = Taken(0 + 1)
      BY <1>0, <1>1 DEF Published, Taken, Chain!TypeOK
    <2>. QED
      BY <1>0, <1>1, <2>1 DEF Link
  <1>. QED
    BY <1>2, <1>3, <1>4, <1>5, SenderStep

-----------------------------------------------------------------------------
\* A step of receiver n touches what is its own, the offer of the rank before it and the mail of the
\* rank behind it.
Around(n) ==
  /\ \A k \in Chain!Rank : k # n => /\ Own(k)' = Own(k)
                                    /\ seen'[k] = seen[k] /\ from'[k] = from[k]
  /\ \A k \in Chain!Rank : k # n /\ k # n - 1 => offered'[k] = offered[k]
  /\ offered'[n - 1] => offered[n - 1]
  /\ \A k \in Chain!Rank : k # n /\ k # n + 1 => mail'[k] = mail[k]

LEMMA ReceiverStepKeeps ==
  ASSUME CInv, Chain!TypeOK', NEW n \in Chain!Receiver, Around(n), ReceiverPlace(n)', Link(n - 1)',
         n # LastRank => Link(n)', n = LastRank => ~offered'[n]
  PROVE  CInv'
  <1>1. SenderPlace'
    <2>1. n # 0 /\ 0 \in Chain!Rank
      BY RankNumbers
    <2>2. offered'[0] => offered[0]
      BY <2>1, Zenon DEF Around
    <2>3. Own(0)' = Own(0)
      BY <2>1, Zenon DEF Around
    <2>. QED
      BY <2>1, <2>2, <2>3, PlaceKept DEF CInv, ChainInv
  <1>2. ASSUME NEW k \in Chain!Receiver PROVE ReceiverPlace(k)'
    <2>1. CASE k = n
      BY <2>1
    <2>2. CASE k # n
      <3>1. k \in Chain!Rank /\ k # 0 /\ ReceiverPlace(k)
        BY RankNumbers DEF CInv, ChainInv
      <3>2. offered'[k] => offered[k]
        BY <2>2, <3>1, Zenon DEF Around
      <3>3. Own(k)' = Own(k)
        BY <2>2, <3>1, Zenon DEF Around
      <3>. QED
        BY <3>1, <3>2, <3>3, PlaceKept
    <2>. QED
      BY <2>1, <2>2
  <1>3. ASSUME NEW k \in 0 .. LastRank - 1 PROVE Link(k)'
    <2>1. CASE k = n
      BY <2>1, RankNumbers
    <2>2. CASE k = n - 1
      BY <2>2
    <2>3. CASE k # n /\ k # n - 1
      <3>1. k \in Chain!Rank /\ k + 1 \in Chain!Rank /\ k + 1 # n /\ k + 1 # n + 1 /\ Link(k)
        BY <2>3, RankNumbers DEF CInv, ChainInv
      <3>2. Own(k)' = Own(k) /\ Own(k + 1)' = Own(k + 1) /\ seen'[k + 1] = seen[k + 1]
            /\ from'[k + 1] = from[k + 1]
        BY <2>3, <3>1, Zenon DEF Around
      <3>3. offered'[k] = offered[k] /\ mail'[k + 1] = mail[k + 1]
        BY <2>3, <3>1, Zenon DEF Around
      <3>4. Ends(k)' = Ends(k) /\ buf'[k] = buf[k]
        BY <3>2, <3>3, Zenon DEF Own, Ends
      <3>. QED
        BY <3>1, <3>4, LinkKept, Zenon
    <2>. QED
      BY <2>1, <2>2, <2>3
  <1>4. ~offered'[LastRank]
    <2>1. CASE n = LastRank
      BY <2>1
    <2>2. CASE n # LastRank
      <3>1. LastRank \in Chain!Rank /\ LastRank # n - 1 /\ ~offered[LastRank]
        BY <2>2, RankNumbers DEF CInv, ChainInv, Chain!Receiver
      <3>. QED
        BY <2>2, <3>1, Zenon DEF Around
    <2>. QED
      BY <2>1, <2>2
  <1>. QED
    BY <1>1, <1>2, <1>3, <1>4 DEF CInv, ChainInv

\* What holds of a receiver and of the rank before it.
LEMMA ReceiverFacts ==
  ASSUME CInv, NEW n \in Chain!Receiver
  PROVE  /\ Chain!TypeOK /\ ReceiverPlace(n) /\ Link(n - 1) /\ (n # LastRank => Link(n))
         /\ (n = LastRank => ~offered[n])
         /\ n \in Nat /\ n # 0 /\ n \in Chain!Rank /\ n - 1 \in Chain!Rank /\ n - 1 # n
         /\ (n - 1) + 1 = n
         /\ (n # LastRank => n + 1 \in Chain!Rank /\ n + 1 # n /\ n + 1 # n - 1)
         /\ Held(n) = front[n]
  BY RankNumbers DEF CInv, ChainInv, Held

LEMMA BeginReadStep == ASSUME CInv, NEW n \in Chain!Receiver, Chain!BeginRead(n) PROVE CInv'
  <1>. DEFINE p == n - 1
              b == Chain!Back(n)
              place == IF rankPc[n] = "first" THEN "wait" ELSE "yield"
  <1>0. /\ rankPc[n] \in {"first", "meta"} /\ mail[n] # <<>>
        /\ coming' = [coming EXCEPT ![n] = Head(mail[n]).bucket]
        /\ from' = [from EXCEPT ![n] = Head(mail[n]).buffer]
        /\ seen' = [seen EXCEPT ![n] = buf[p][Head(mail[n]).buffer]]
        /\ mail' = [mail EXCEPT ![n] = Tail(@)]
        /\ buf' = [buf EXCEPT ![n][b] = Chain!Torn]
        /\ xfer' = [xfer EXCEPT ![n] = "running"]
        /\ rankPc' = [rankPc EXCEPT ![n] = place]
        /\ UNCHANGED <<front, current, offered, delivered>>
    BY DEF Chain!BeginRead, Chain!Into
  <1>1. /\ Chain!TypeOK /\ ReceiverPlace(n) /\ Link(p) /\ (n # LastRank => Link(n))
        /\ (n = LastRank => ~offered[n])
        /\ n \in Chain!Rank /\ p \in Chain!Rank /\ p # n /\ p + 1 = n /\ n # 0
        /\ (n # LastRank => n + 1 \in Chain!Rank /\ n + 1 # n /\ n + 1 # p)
        /\ Held(n) = front[n]
    BY ReceiverFacts
  <1>2. /\ front[n] \in {0, 1} /\ b \in {0, 1} /\ b # front[n]
        /\ DOMAIN buf = Chain!Rank /\ DOMAIN buf[n] = {0, 1}
        /\ buf[p] \in [{0, 1} -> -1 .. NumBuckets]
        /\ current[n] \in 0 .. NumBuckets /\ current[p] \in 0 .. NumBuckets
    BY <1>1, RankTypes DEF Chain!TypeOK
  <1>. DEFINE P == Published(p)
              H == Held(p)
  <1>3. /\ mail[n] = <<[bucket |-> P, buffer |-> H]>>
        /\ P = current[n] + 1 /\ offered[p] /\ buf[p][H] = P
        /\ xfer[n] = "idle"
    <2>1. xfer[n] = "idle"
      BY <1>0, <1>1 DEF ReceiverPlace
    <2>. QED
      BY <1>0, <1>1, <2>1 DEF Link, Taken
  <1>4. P \in 1 .. NumBuckets /\ H \in {0, 1}
    <2>1. P \in 1 .. NumBuckets
      BY <1>2, <1>3, RankNumbers DEF Published
    <2>2. front[p] \in {0, 1} /\ Chain!Back(p) \in {0, 1}
      BY <1>1, RankTypes
    <2>. QED
      BY <2>1, <2>2 DEF Held
  <1>. HIDE DEF P, H, p, b, place
  <1>5. Head(mail[n]).bucket = P /\ Head(mail[n]).buffer = H /\ Tail(mail[n]) = <<>>
    BY <1>3
  <1>6. /\ coming' = [coming EXCEPT ![n] = P] /\ from' = [from EXCEPT ![n] = H]
        /\ seen' = [seen EXCEPT ![n] = P] /\ mail' = [mail EXCEPT ![n] = <<>>]
    BY <1>0, <1>3, <1>5
  <1>b. buf' \in [Chain!Rank -> [{0, 1} -> -1 .. NumBuckets]]
       /\ buf'[n][front[n]] = buf[n][front[n]]
        /\ \A k \in Chain!Rank : k # n => buf'[k] = buf[k]
    <2>1. buf \in [Chain!Rank -> [{0, 1} -> -1 .. NumBuckets]] /\ Chain!Torn \in -1 .. NumBuckets
      BY <1>1, RankNumbers DEF Chain!TypeOK, Chain!Torn
    <2>. QED
      BY <1>0, <1>1, <1>2, <2>1
  <1>7. Chain!TypeOK'
    <2>1. /\ coming' \in [Chain!Rank -> 0 .. NumBuckets] /\ from' \in [Chain!Rank -> {0, 1}]
          /\ seen' \in [Chain!Rank -> -1 .. NumBuckets]
      BY <1>1, <1>4, <1>6 DEF Chain!TypeOK
    <2>2. mail' \in [Chain!Rank -> Seq([bucket : 1 .. NumBuckets, buffer : {0, 1}])]
      <3>1. mail \in [Chain!Rank -> Seq([bucket : 1 .. NumBuckets, buffer : {0, 1}])]
        BY <1>1 DEF Chain!TypeOK
      <3>2. <<>> \in Seq([bucket : 1 .. NumBuckets, buffer : {0, 1}])
        OBVIOUS
      <3>. QED
        BY <1>6, <3>1, <3>2
    <2>3. xfer' \in [Chain!Rank -> {"idle", "running", "over"}]
      BY <1>0, <1>1 DEF Chain!TypeOK
    <2>4. rankPc' \in [Chain!Rank ->
                        {"fill", "filling", "offer", "first", "meta", "publish", "yield",
                         "wait", "done"}]
      BY <1>0, <1>1 DEF Chain!TypeOK, place
    <2>. QED
      BY <1>0, <1>1, <1>b, <2>1, <2>2, <2>3, <2>4, Zenon DEF Chain!TypeOK
  <1>8. Around(n)
    <2>1. ASSUME NEW k \in Chain!Rank, k # n
          PROVE  /\ Own(k)' = Own(k) /\ seen'[k] = seen[k] /\ from'[k] = from[k]
                 /\ mail'[k] = mail[k]
      BY <1>0, <1>1, <1>6, <1>b, <2>1 DEF Own, Chain!TypeOK
    <2>. QED
      BY <1>0, <2>1, Zenon DEF Around
  <1>9. /\ rankPc'[n] = place /\ xfer'[n] = "running" /\ coming'[n] = P /\ from'[n] = H
        /\ seen'[n] = P
        /\ mail'[n] = <<>> /\ current'[n] = current[n] /\ front'[n] = front[n]
    BY <1>0, <1>1, <1>6 DEF Chain!TypeOK
  <1>10. ReceiverPlace(n)'
    <2>1. current[n] < NumBuckets /\ P = current[n] + 1
      <3>. DEFINE c == current[n]
      <3>1. c \in 0 .. NumBuckets /\ P = c + 1 /\ P \in 1 .. NumBuckets
        BY <1>2, <1>3, <1>4
      <3>2. NumBuckets \in Nat
        BY RankNumbers
      <3>. HIDE DEF c, P
      <3>3. c < NumBuckets
        BY <3>1, <3>2
      <3>. QED
        BY <3>1, <3>3, Zenon DEF c
    <2>2. /\ rankPc'[n] \in {"wait", "yield"} /\ Len(delivered'[n]) = Len(delivered[n])
          /\ delivered'[n] = delivered[n]
          /\ rankPc'[n] = "wait" => rankPc[n] = "first"
          /\ rankPc'[n] = "yield" => rankPc[n] = "meta"
      BY <1>0, <1>9 DEF place
    <2>. QED
      BY <1>1, <1>b, <1>9, <2>1, <2>2 DEF ReceiverPlace
  <1>11. Link(p)'
    <2>1. /\ rankPc'[p] = rankPc[p] /\ current'[p] = current[p] /\ front'[p] = front[p]
          /\ buf'[p] = buf[p]
          /\ offered'[p]
      BY <1>0, <1>1, <1>3, <1>b DEF Chain!TypeOK
    <2>2. Published(p)' = P /\ Held(p)' = H
      BY <2>1 DEF Published, Held, Chain!Back, P, H
    <2>3. Taken(n)' = P
      BY <1>3, <1>9 DEF Taken
    <2>. QED
      BY <1>1, <1>3, <1>9, <2>1, <2>2, <2>3 DEF Link
  <1>12. n # LastRank => Link(n)'
    <2>. SUFFICES ASSUME n # LastRank PROVE Link(n)'
      OBVIOUS
    <2>1. Published(n)' = Published(n) /\ Held(n)' = Held(n)
      BY <1>0, <1>1, <1>9 DEF Published, Held, place
    <2>2. /\ offered'[n] = offered[n] /\ mail'[n + 1] = mail[n + 1] /\ xfer'[n + 1] = xfer[n + 1]
          /\ current'[n + 1] = current[n + 1] /\ from'[n + 1] = from[n + 1]
          /\ seen'[n + 1] = seen[n + 1]
      BY <1>0, <1>1, <1>6 DEF Chain!TypeOK
    <2>3. Taken(n + 1)' = Taken(n + 1)
      BY <2>2 DEF Taken
    <2>4. buf'[n][Held(n)] = buf[n][Held(n)]
      BY <1>1, <1>b
    <2>. QED
      BY <1>1, <2>1, <2>2, <2>3, <2>4 DEF Link
  <1>. QED
    BY <1>0, <1>1, <1>7, <1>8, <1>10, <1>11, <1>12, ReceiverStepKeeps DEF p

LEMMA EndReadStep == ASSUME CInv, NEW n \in Chain!Receiver, Chain!EndRead(n) PROVE CInv'
  <1>. DEFINE p == n - 1
              b == Chain!Back(n)
              v == IF buf[p][from[n]] = seen[n] THEN seen[n] ELSE Chain!Torn
  <1>0. /\ xfer[n] = "running"
        /\ xfer' = [xfer EXCEPT ![n] = "over"]
        /\ buf' = [buf EXCEPT ![n][b] = v]
        /\ offered' = [offered EXCEPT ![p] = FALSE]
        /\ UNCHANGED <<rankPc, front, current, coming, mail, seen, from, delivered>>
    BY DEF Chain!EndRead, Chain!Into, Chain!Notify
  <1>1. /\ Chain!TypeOK /\ ReceiverPlace(n) /\ Link(p) /\ (n # LastRank => Link(n))
        /\ (n = LastRank => ~offered[n])
        /\ n \in Chain!Rank /\ p \in Chain!Rank /\ p # n /\ p + 1 = n /\ n # 0
        /\ (n # LastRank => n + 1 \in Chain!Rank /\ n + 1 # n /\ n + 1 # p)
        /\ Held(n) = front[n]
    BY ReceiverFacts
  <1>2. /\ front[n] \in {0, 1} /\ b \in {0, 1} /\ b # front[n]
        /\ DOMAIN buf = Chain!Rank /\ DOMAIN buf[n] = {0, 1}
        /\ seen[n] \in -1 .. NumBuckets
    BY <1>1, RankTypes DEF Chain!TypeOK
  <1>. DEFINE P == Published(p)
              H == Held(p)
  <1>3. /\ mail[n] = <<>> /\ offered[p] /\ buf[p][H] = P /\ from[n] = H /\ seen[n] = P
        /\ P = Taken(n) /\ Taken(n) = coming[n]
    BY <1>0, <1>1 DEF Link, Taken, ReceiverPlace
  <1>4. v = coming[n] /\ v \in -1 .. NumBuckets
    BY <1>2, <1>3
  <1>. HIDE DEF p, b, v, P, H
  <1>b. buf' \in [Chain!Rank -> [{0, 1} -> -1 .. NumBuckets]]
       /\ buf'[n][front[n]] = buf[n][front[n]]
        /\ buf'[n][b] = v
        /\ \A k \in Chain!Rank : k # n => buf'[k] = buf[k]
    <2>1. buf \in [Chain!Rank -> [{0, 1} -> -1 .. NumBuckets]]
      BY <1>1 DEF Chain!TypeOK
    <2>. QED
      BY <1>0, <1>1, <1>2, <1>4, <2>1
  <1>7. Chain!TypeOK'
    <2>1. xfer' \in [Chain!Rank -> {"idle", "running", "over"}]
      BY <1>0, <1>1 DEF Chain!TypeOK
    <2>2. offered' \in [Chain!Rank -> BOOLEAN]
      BY <1>0, <1>1, Zenon DEF Chain!TypeOK
    <2>. QED
      BY <1>0, <1>1, <1>b, <2>1, <2>2, Zenon DEF Chain!TypeOK
  <1>o. ~offered'[p] /\ \A k \in Chain!Rank : k # p => offered'[k] = offered[k]
    BY <1>0, <1>1, Zenon DEF Chain!TypeOK
  <1>x. xfer'[n] = "over" /\ \A k \in Chain!Rank : k # n => xfer'[k] = xfer[k]
    BY <1>0, <1>1 DEF Chain!TypeOK
  <1>8. Around(n)
    <2>1. ASSUME NEW k \in Chain!Rank, k # n
          PROVE  Own(k)' = Own(k) /\ seen'[k] = seen[k] /\ from'[k] = from[k]
      BY <1>0, <1>b, <1>x, <2>1 DEF Own
    <2>2. \A k \in Chain!Rank : k # n /\ k # p => offered'[k] = offered[k]
      BY <1>o
    <2>3. offered'[p] => offered[p]
      BY <1>o
    <2>. QED
      BY <1>0, <2>1, <2>2, <2>3, Zenon DEF Around, p
  <1>10. ReceiverPlace(n)'
    <2>1. buf'[n][Chain!Back(n)'] = coming'[n]
      BY <1>0, <1>4, <1>b DEF Chain!Back, b
    <2>2. offered'[n] = offered[n]
      BY <1>o, <1>1
    <2>. QED
      BY <1>0, <1>1, <1>b, <1>x, <2>1, <2>2 DEF ReceiverPlace
  <1>11. Link(p)'
    <2>2. Published(p)' = P /\ Taken(n)' = Taken(n) /\ xfer'[p] = xfer[p]
      BY <1>0, <1>1, <1>x DEF Published, Taken, P
    <2>. QED
      BY <1>0, <1>1, <1>3, <1>o, <1>x, <2>2 DEF Link
  <1>12. n # LastRank => Link(n)'
    <2>. SUFFICES ASSUME n # LastRank PROVE Link(n)'
      OBVIOUS
    <2>2. offered'[n] = offered[n] /\ xfer'[n + 1] = xfer[n + 1]
      BY <1>1, <1>o, <1>x
    <2>3. Ends(n)' = Ends(n)
      BY <1>0, <2>2 DEF Ends
    <2>4. buf'[n][Held(n)] = buf[n][Held(n)]
      BY <1>1, <1>b
    <2>. QED
      BY <1>1, <2>3, <2>4, LinkKept
  <1>13. n = LastRank => ~offered'[n]
    BY <1>1, <1>o
  <1>. QED
    BY <1>1, <1>7, <1>8, <1>10, <1>11, <1>12, <1>13, ReceiverStepKeeps DEF p

\* Steps of a receiver that neither read nor end a read.
LEMMA QuietStep ==
  ASSUME CInv, NEW n \in Chain!Receiver, Chain!TypeOK', UNCHANGED <<buf, coming, seen, from>>,
         \A k \in Chain!Rank : k # n => /\ rankPc'[k] = rankPc[k] /\ front'[k] = front[k]
                                 /\ current'[k] = current[k] /\ xfer'[k] = xfer[k]
                                 /\ delivered'[k] = delivered[k] /\ offered'[k] = offered[k],
         \A k \in Chain!Rank : k # n + 1 => mail'[k] = mail[k],
         Taken(n)' = Taken(n), (xfer[n] = "running") <=> (xfer'[n] = "running"),
         ReceiverPlace(n)', n # LastRank => Link(n)', n = LastRank => ~offered'[n]
  PROVE  CInv'
  <1>. DEFINE p == n - 1
  <1>1. Link(p) /\ n \in Chain!Rank /\ p \in Chain!Rank /\ p # n /\ p + 1 = n /\ n # n + 1
    BY ReceiverFacts
  <1>2. Around(n)
    <2>1. ASSUME NEW k \in Chain!Rank, k # n
          PROVE  Own(k)' = Own(k) /\ seen'[k] = seen[k] /\ from'[k] = from[k]
      BY <2>1, Zenon DEF Own
    <2>. QED
      BY <1>1, <2>1, Zenon DEF Around
  <1>. HIDE DEF p
  <1>3. Link(p)'
    <2>1. /\ rankPc'[p] = rankPc[p] /\ current'[p] = current[p] /\ front'[p] = front[p]
          /\ offered'[p] = offered[p] /\ mail'[n] = mail[n]
      BY <1>1
    <2>2. Published(p)' = Published(p) /\ Held(p)' = Held(p)
      BY <2>1 DEF Published, Held, Chain!Back
    <2>. QED
      BY <1>1, <2>1, <2>2, Zenon DEF Link
  <1>. QED
    BY <1>2, <1>3, ReceiverStepKeeps DEF p

LEMMA YieldStep == ASSUME CInv, NEW n \in Chain!Receiver, Chain!Yield(n) PROVE CInv'
  <1>0. /\ rankPc[n] = "yield"
        /\ delivered' = [delivered EXCEPT ![n] = Append(@, buf[n][front[n]])]
        /\ rankPc' = [rankPc EXCEPT ![n] = "wait"]
        /\ UNCHANGED <<front, buf, current, coming, mail, offered, xfer, seen, from>>
    BY DEF Chain!Yield
  <1>1. /\ Chain!TypeOK /\ ReceiverPlace(n) /\ (n # LastRank => Link(n))
             /\ (n = LastRank => ~offered[n])
        /\ n \in Chain!Rank /\ n # 0 /\ Held(n) = front[n]
    BY ReceiverFacts
  <1>2. /\ delivered \in [Chain!Rank -> Seq(-1 .. NumBuckets)] /\ current[n] \in 0 .. NumBuckets
        /\ rankPc \in [Chain!Rank ->
                        {"fill", "filling", "offer", "first", "meta", "publish", "yield",
                         "wait", "done"}]
    BY <1>1 DEF Chain!TypeOK
  <1>3. current[n] >= 1 /\ buf[n][front[n]] = current[n] /\ Len(delivered[n]) = current[n] - 1
        /\ \A i \in 1 .. Len(delivered[n]) : delivered[n][i] = i
    BY <1>0, <1>1 DEF ReceiverPlace
  <1>. DEFINE d == Append(delivered[n], current[n])
  <1>4. /\ d \in Seq(-1 .. NumBuckets) /\ Len(d) = current[n]
        /\ \A i \in 1 .. current[n] : d[i] = i
    <2>1. delivered[n] \in Seq(-1 .. NumBuckets) /\ current[n] \in -1 .. NumBuckets
      BY <1>1, <1>2, RankNumbers
    <2>2. d \in Seq(-1 .. NumBuckets) /\ Len(d) = Len(delivered[n]) + 1
      BY <2>1
    <2>3. \A i \in 1 .. current[n] : d[i] = i
      <3>. SUFFICES ASSUME NEW i \in 1 .. current[n] PROVE d[i] = i
        OBVIOUS
      <3>1. CASE i = current[n]
        <4>1. i = Len(delivered[n]) + 1
          BY <1>2, <1>3, <3>1, RankNumbers
        <4>. QED
          BY <2>1, <3>1, <4>1
      <3>2. CASE i # current[n]
        <4>1. i \in 1 .. Len(delivered[n])
          <5>. DEFINE last == current[n]
                      l == Len(delivered[n])
          <5>1. last \in Nat /\ l = last - 1 /\ i \in 1 .. last /\ i # last
            BY <1>2, <1>3, <3>2, RankNumbers
          <5>. HIDE DEF last, l
          <5>2. i \in 1 .. l
            BY <5>1
          <5>. QED
            BY <5>2, Zenon DEF l
        <4>2. d[i] = delivered[n][i]
          BY <2>1, <4>1
        <4>. QED
          BY <1>3, <4>1, <4>2
      <3>. QED
        BY <3>1, <3>2
    <2>4. Len(d) = current[n]
      BY <1>2, <1>3, <2>2, RankNumbers
    <2>. QED
      BY <2>2, <2>3, <2>4
  <1>. HIDE DEF d
  <1>5. delivered' = [delivered EXCEPT ![n] = d]
    BY <1>0, <1>1, <1>2, <1>3 DEF d
  <1>6. Chain!TypeOK'
    <2>1. /\ delivered' \in [Chain!Rank -> Seq(-1 .. NumBuckets)]
          /\ rankPc' \in [Chain!Rank ->
                           {"fill", "filling", "offer", "first", "meta", "publish", "yield",
                            "wait", "done"}]
      BY <1>0, <1>1, <1>2, <1>4, <1>5
    <2>. QED
      BY <1>0, <1>1, <2>1, Zenon DEF Chain!TypeOK
  <1>7. /\ delivered'[n] = d /\ rankPc'[n] = "wait"
        /\ \A k \in Chain!Rank : k # n => rankPc'[k] = rankPc[k] /\ delivered'[k] = delivered[k]
    BY <1>0, <1>1, <1>2, <1>5
  <1>8. ReceiverPlace(n)'
    BY <1>0, <1>1, <1>3, <1>4, <1>7 DEF ReceiverPlace, Chain!Back
  <1>9. n # LastRank => Link(n)'
    <2>1. Published(n)' = Published(n) /\ Held(n)' = Held(n)
      BY <1>0, <1>1, <1>7 DEF Published, Held, Chain!Back
    <2>2. Taken(n + 1)' = Taken(n + 1)
      BY <1>0 DEF Taken
    <2>. QED
      BY <1>0, <1>1, <2>1, <2>2, Zenon DEF Link
  <1>10. Taken(n)' = Taken(n)
    BY <1>0 DEF Taken
  <1>. QED
    BY <1>0, <1>1, <1>6, <1>7, <1>8, <1>9, <1>10, QuietStep

LEMMA PublishStep == ASSUME CInv, NEW n \in Chain!Receiver, Chain!Publish(n) PROVE CInv'
  <1>. DEFINE m == [bucket |-> current[n], buffer |-> front[n]]
              place == Chain!AfterOffer(n)
  <1>0. /\ rankPc[n] = "publish"
        /\ mail' = IF n = LastRank THEN mail ELSE [mail EXCEPT ![n + 1] = Append(@, m)]
        /\ offered' = [offered EXCEPT ![n] = n # LastRank]
        /\ rankPc' = [rankPc EXCEPT ![n] = place]
        /\ UNCHANGED <<front, buf, current, coming, xfer, seen, from, delivered>>
    BY Zenon DEF Chain!Publish, Chain!Offer
  <1>1. /\ Chain!TypeOK /\ ReceiverPlace(n) /\ (n # LastRank => Link(n))
        /\ n \in Chain!Rank /\ n # 0 /\ Held(n) = front[n] /\ n # n + 1
        /\ (n # LastRank => n + 1 \in Chain!Rank)
    BY ReceiverFacts
  <1>2. /\ mail \in [Chain!Rank -> Seq([bucket : 1 .. NumBuckets, buffer : {0, 1}])]
        /\ current[n] \in 0 .. NumBuckets /\ front[n] \in {0, 1}
        /\ rankPc \in [Chain!Rank ->
                        {"fill", "filling", "offer", "first", "meta", "publish", "yield",
                         "wait", "done"}]
    BY <1>1 DEF Chain!TypeOK
  <1>3. /\ current[n] >= 1 /\ buf[n][front[n]] = current[n] /\ ~offered[n] /\ xfer[n] = "idle"
        /\ Published(n) = current[n] - 1
    BY <1>0, <1>1 DEF ReceiverPlace, Published
  <1>4. n # LastRank => mail[n + 1] = <<>> /\ xfer[n + 1] # "running" /\ Published(n) = Taken(n + 1)
    BY <1>1, <1>3 DEF Link
  <1>5. /\ m \in [bucket : 1 .. NumBuckets, buffer : {0, 1}]
        /\ place = IF current[n] = NumBuckets THEN "yield" ELSE "meta"
    <2>1. place = IF current[n] = NumBuckets THEN "yield" ELSE "meta"
      BY Zenon DEF Chain!AfterOffer, Chain!IsLast
    <2>2. m \in [bucket : 1 .. NumBuckets, buffer : {0, 1}]
      BY <1>2, <1>3, RankNumbers
    <2>. QED
      BY <2>1, <2>2
  <1>. HIDE DEF m, place
  <1>6. /\ mail' \in [Chain!Rank -> Seq([bucket : 1 .. NumBuckets, buffer : {0, 1}])]
        /\ n # LastRank => mail'[n + 1] = <<m>>
        /\ \A k \in Chain!Rank : k # n + 1 => mail'[k] = mail[k]
    <2>1. CASE n = LastRank
      BY <1>0, <1>2, <2>1
    <2>2. CASE n # LastRank
      <3>1. Append(<<>>, m) = <<m>> /\ <<m>> \in Seq([bucket : 1 .. NumBuckets, buffer : {0, 1}])
        BY <1>5
      <3>2. mail' = [mail EXCEPT ![n + 1] = <<m>>]
        BY <1>0, <1>4, <2>2, <3>1
      <3>. QED
        BY <1>1, <1>2, <2>2, <3>1, <3>2
    <2>. QED
      BY <2>1, <2>2
  <1>7. /\ offered' \in [Chain!Rank -> BOOLEAN] /\ (offered'[n] <=> n # LastRank)
        /\ \A k \in Chain!Rank : k # n => offered'[k] = offered[k]
    BY <1>0, <1>1, Zenon DEF Chain!TypeOK
  <1>8. /\ rankPc' \in [Chain!Rank ->
                         {"fill", "filling", "offer", "first", "meta", "publish", "yield",
                          "wait", "done"}]
        /\ rankPc'[n] = place /\ \A k \in Chain!Rank : k # n => rankPc'[k] = rankPc[k]
    BY <1>0, <1>1, <1>2, <1>5
  <1>9. Chain!TypeOK'
    BY <1>0, <1>1, <1>6, <1>7, <1>8, Zenon DEF Chain!TypeOK
  <1>10. ReceiverPlace(n)'
    BY <1>0, <1>1, <1>2, <1>3, <1>5, <1>8, RankNumbers DEF ReceiverPlace, Chain!Back
  <1>11. n # LastRank => Link(n)'
    <2>. SUFFICES ASSUME n # LastRank PROVE Link(n)'
      OBVIOUS
    <2>1. Published(n)' = current[n] /\ Held(n)' = front[n]
      BY <1>0, <1>1, <1>5, <1>8 DEF Published, Held, Chain!Back
    <2>2. Taken(n + 1)' = Taken(n + 1) /\ Published(n)' = Taken(n + 1)' + 1
      BY <1>0, <1>2, <1>3, <1>4, <2>1 DEF Taken
    <2>3. mail'[n + 1] = <<[bucket |-> current[n], buffer |-> front[n]]>>
      BY <1>6 DEF m
    <2>. QED
      BY <1>0, <1>3, <1>4, <1>7, <2>1, <2>2, <2>3 DEF Link
  <1>12. Taken(n)' = Taken(n)
    BY <1>0 DEF Taken
  <1>. QED
    BY <1>0, <1>6, <1>7, <1>8, <1>9, <1>10, <1>11, <1>12, QuietStep

LEMMA AdvanceStep == ASSUME CInv, NEW n \in Chain!Receiver, Chain!Advance(n) PROVE CInv'
  <1>. DEFINE last == current[n] = NumBuckets
              cur == IF last THEN current[n] ELSE coming[n]
              side == IF last THEN front[n] ELSE 1 - front[n]
              place == IF last THEN "done" ELSE "publish"
              after == IF last THEN xfer[n] ELSE "idle"
  <1>1. /\ Chain!TypeOK /\ ReceiverPlace(n) /\ (n # LastRank => Link(n))
        /\ n \in Chain!Rank /\ n # 0 /\ Held(n) = front[n] /\ n # n + 1
        /\ (n # LastRank => n + 1 \in Chain!Rank)
    BY ReceiverFacts
  <1>2. /\ current \in [Chain!Rank -> 0 .. NumBuckets] /\ front \in [Chain!Rank -> {0, 1}]
        /\ xfer \in [Chain!Rank -> {"idle", "running", "over"}] /\ coming[n] \in 0 .. NumBuckets
        /\ rankPc \in [Chain!Rank ->
                        {"fill", "filling", "offer", "first", "meta", "publish", "yield",
                         "wait", "done"}]
    BY <1>1 DEF Chain!TypeOK
  <1>0. /\ rankPc[n] = "wait" /\ ~offered[n] /\ (last \/ xfer[n] = "over")
        /\ rankPc' = [rankPc EXCEPT ![n] = place]
        /\ front' = [front EXCEPT ![n] = side]
        /\ current' = [current EXCEPT ![n] = cur]
        /\ xfer' = [xfer EXCEPT ![n] = after]
        /\ UNCHANGED <<buf, coming, mail, offered, seen, from, delivered>>
    <2>1. rankPc[n] = "wait" /\ ~offered[n] /\ (last \/ xfer[n] = "over")
          /\ UNCHANGED <<buf, coming, mail, offered, seen, from, delivered>>
      BY DEF Chain!Advance, Chain!WaitOver, Chain!IsLast
    <2>2. CASE last
      BY <1>1, <1>2, <2>1, <2>2 DEF Chain!Advance, Chain!IsLast
    <2>3. CASE ~last
      BY <2>1, <2>3 DEF Chain!Advance, Chain!IsLast, Chain!Swap
    <2>. QED
      BY <2>1, <2>2, <2>3
  <1>3. ~last => /\ current[n] < NumBuckets /\ coming[n] = current[n] + 1
                 /\ buf[n][Chain!Back(n)] = coming[n]
    BY <1>0, <1>1 DEF ReceiverPlace
  <1>4. last => xfer[n] = "idle"
    BY <1>1, <1>2, RankNumbers DEF ReceiverPlace
  <1>5. /\ cur \in 0 .. NumBuckets /\ side \in {0, 1} /\ after = "idle"
        /\ ~last => cur = current[n] + 1 /\ side = Chain!Back(n)
        /\ last => cur = current[n] /\ side = front[n]
    <2>1. side \in {0, 1} /\ (~last => side = Chain!Back(n))
      BY <1>1, <1>2 DEF Chain!Back
    <2>. QED
      BY <1>0, <1>1, <1>2, <1>3, <1>4, <2>1
  <1>. HIDE DEF cur, side, after, place
  <1>6. /\ rankPc'[n] = place /\ front'[n] = side /\ current'[n] = cur /\ xfer'[n] = "idle"
        /\ \A k \in Chain!Rank : k # n => /\ rankPc'[k] = rankPc[k] /\ front'[k] = front[k]
                                   /\ current'[k] = current[k] /\ xfer'[k] = xfer[k]
    BY <1>0, <1>1, <1>2, <1>5
  <1>7. Chain!TypeOK'
    <2>1. /\ current' \in [Chain!Rank -> 0 .. NumBuckets] /\ front' \in [Chain!Rank -> {0, 1}]
          /\ xfer' \in [Chain!Rank -> {"idle", "running", "over"}]
      BY <1>0, <1>1, <1>2, <1>5
    <2>2. rankPc' \in [Chain!Rank ->
                        {"fill", "filling", "offer", "first", "meta", "publish", "yield",
                         "wait", "done"}]
      BY <1>0, <1>1, <1>2 DEF place
    <2>. QED
      BY <1>0, <1>1, <2>1, <2>2, Zenon DEF Chain!TypeOK
  <1>8. ReceiverPlace(n)'
    <2>1. Len(delivered[n]) = current[n] /\ \A i \in 1 .. Len(delivered[n]) : delivered[n][i] = i
      BY <1>0, <1>1 DEF ReceiverPlace
    <2>2. CASE last
      BY <1>0, <1>5, <1>6, <2>1, <2>2 DEF ReceiverPlace, place
    <2>3. CASE ~last
      <3>1. rankPc'[n] = "publish" /\ current'[n] = current[n] + 1
           /\ buf'[n][front'[n]] = current'[n]
        BY <1>0, <1>3, <1>5, <1>6, <2>3 DEF place
      <3>2. current[n] \in Nat
        BY <1>1, <1>2, RankNumbers
      <3>. QED
        BY <1>0, <1>6, <2>1, <3>1, <3>2 DEF ReceiverPlace
    <2>. QED
      BY <2>2, <2>3
  <1>9. n # LastRank => Link(n)'
    <2>. SUFFICES ASSUME n # LastRank PROVE Link(n)'
      OBVIOUS
    <2>1. Published(n)' = Published(n)
      <3>1. Published(n) = current[n] /\ current[n] \in Nat
        BY <1>0, <1>1, <1>2, RankNumbers DEF Published
      <3>2. CASE last
        BY <1>5, <1>6, <3>1, <3>2 DEF Published, place
      <3>3. CASE ~last
        BY <1>5, <1>6, <3>1, <3>3 DEF Published, place
      <3>. QED
        BY <3>2, <3>3
    <2>2. xfer'[n + 1] = xfer[n + 1] /\ Taken(n + 1)' = Taken(n + 1)
      BY <1>1, <1>6 DEF Taken
    <2>3. mail[n + 1] = <<>> /\ xfer[n + 1] # "running"
      BY <1>0, <1>1 DEF Link
    <2>. QED
      BY <1>0, <1>1, <2>1, <2>2, <2>3 DEF Link
  <1>10. Taken(n)' = Taken(n) /\ xfer[n] # "running" /\ xfer'[n] # "running"
    <2>1. CASE last
      BY <1>4, <1>5, <1>6, <2>1 DEF Taken
    <2>2. CASE ~last
      BY <1>0, <1>5, <1>6, <2>2 DEF Taken
    <2>. QED
      BY <2>1, <2>2
  <1>. QED
    BY <1>0, <1>6, <1>7, <1>8, <1>9, <1>10, QuietStep

LEMMA ChainStep == CInv /\ [Chain!Next]_chainVars => CInv'
  <1>. SUFFICES ASSUME CInv, [Chain!Next]_chainVars PROVE CInv'
    OBVIOUS
  <1>1. CASE Chain!Fill \/ Chain!Filled \/ Chain!Send \/ Chain!Sent
    BY <1>1, FillStep, SendStep, SentStep
  <1>2. ASSUME NEW n \in Chain!Receiver, Chain!ReceiverStep(n) PROVE CInv'
    BY <1>2, BeginReadStep, EndReadStep, PublishStep, YieldStep, AdvanceStep
    DEF Chain!ReceiverStep
  <1>3. CASE UNCHANGED chainVars
    <2>1. Chain!TypeOK'
      BY <1>3, Zenon DEF chainVars, CInv, Chain!TypeOK
    <2>2. SenderPlace' /\ \A n \in Chain!Receiver : ReceiverPlace(n)'
      BY <1>3, Zenon DEF chainVars, CInv, ChainInv, SenderPlace, ReceiverPlace, Chain!Back
    <2>3. \A n \in 0 .. LastRank - 1 : Link(n)'
      BY <1>3, Zenon DEF chainVars, CInv, ChainInv, Link, Published, Taken, Held, Chain!Back
    <2>4. ~offered'[LastRank]
      BY <1>3, Zenon DEF chainVars, CInv, ChainInv
    <2>. QED
      BY <2>1, <2>2, <2>3, <2>4 DEF CInv, ChainInv
  <1>. QED
    BY <1>1, <1>2, <1>3 DEF Chain!Next, Chain!Done, Chain!vars, chainVars

LEMMA ChainIsSound == CInv => ChainSound
  <1>. SUFFICES ASSUME CInv PROVE Chain!InOrder /\ Chain!OffersStand /\ Chain!Depth
    BY DEF CInv, ChainSound
  <1>1. Chain!InOrder
    BY ReceiverFacts DEF Chain!InOrder, ReceiverPlace
  <1>2. Chain!OffersStand
    <2>. SUFFICES ASSUME NEW n \in 0 .. LastRank - 1
                  PROVE  /\ \A i \in 1 .. Len(mail[n + 1]) :
                              buf[n][mail[n + 1][i].buffer] = mail[n + 1][i].bucket
                         /\ xfer[n + 1] = "running" => buf[n][from[n + 1]] = coming[n + 1]
      BY DEF Chain!OffersStand
    <2>1. Link(n) /\ ReceiverPlace(n + 1)
      BY RankNumbers DEF CInv, ChainInv
    <2>2. \A i \in 1 .. Len(mail[n + 1]) : buf[n][mail[n + 1][i].buffer] = mail[n + 1][i].bucket
      <3>1. CASE mail[n + 1] = <<>>
        BY <3>1
      <3>2. CASE mail[n + 1] # <<>>
        <4>. DEFINE m == [bucket |-> Published(n), buffer |-> Held(n)]
        <4>1. mail[n + 1] = <<m>> /\ buf[n][m.buffer] = m.bucket
          BY <2>1, <3>2 DEF Link
        <4>. HIDE DEF m
        <4>. QED
          BY <4>1
      <3>. QED
        BY <3>1, <3>2
    <2>3. xfer[n + 1] = "running" => buf[n][from[n + 1]] = coming[n + 1]
      BY <2>1 DEF Link, ReceiverPlace, Taken
    <2>. QED
      BY <2>2, <2>3
  <1>3. Chain!Depth
    <2>. SUFFICES ASSUME NEW n \in 1 .. LastRank - 1
                  PROVE  Len(delivered[n]) <= Len(delivered[n + 1]) + 3
      BY DEF Chain!Depth
    <2>1. n \in Chain!Receiver /\ n # LastRank /\ n + 1 \in Chain!Receiver /\ n \in Chain!Rank
         /\ n + 1 \in Chain!Rank
      BY RankNumbers DEF Chain!Receiver
    <2>2. /\ ReceiverPlace(n) /\ ReceiverPlace(n + 1) /\ Link(n)
          /\ current[n] \in Nat /\ current[n + 1] \in Nat
      <3>1. ReceiverPlace(n) /\ ReceiverPlace(n + 1) /\ Link(n) /\ Chain!TypeOK
        BY <2>1, ReceiverFacts
      <3>2. current[n] \in 0 .. NumBuckets /\ current[n + 1] \in 0 .. NumBuckets
        BY <2>1, <3>1, RankTypes
      <3>. QED
        BY <3>1, <3>2, RankNumbers
    <2>3. Len(delivered[n]) <= Published(n) /\ Published(n) \in Int
      BY <2>2 DEF ReceiverPlace, Published
    <2>4. Published(n) <= Taken(n + 1) + 1 /\ Taken(n + 1) \in Nat
      BY <2>2 DEF Link, Taken
    <2>5. Taken(n + 1) <= current[n + 1] + 1
      BY <2>2 DEF Taken
    <2>6. current[n + 1] <= Len(delivered[n + 1]) + 1
      BY <2>2 DEF ReceiverPlace
    <2>. QED
      BY <2>2, <2>3, <2>4, <2>5, <2>6
  <1>. QED
    BY <1>1, <1>2, <1>3

-----------------------------------------------------------------------------
(* The buckets.  What the receiver has merged ends where the bucket that   *)
(* has arrived begins, that one ends where the bucket of the sender        *)
(* begins, and this one ends where the sender is in its weights.           *)

Entry == [numel : Numels, item : Items]

\* As Bytes, of the weights ws.
BytesOf(ws, w) == ws[w].numel * ws[w].item

Ended(ws, c) == c.from + c.size = BytesOf(ws, c.weight)

\* What a chunk is: what is left of its weight, or as much as a bucket holds.
Sized(ws, c) ==
  /\ c.weight \in 1 .. Len(ws)
  /\ c.from < BytesOf(ws, c.weight)
  /\ LET rest == BytesOf(ws, c.weight) - c.from
     IN  c.size = IF rest < BucketSize THEN rest ELSE BucketSize
  /\ c.from # 0 => BytesOf(ws, c.weight) > BucketSize

\* A bucket that begins when n weights and g bytes of the next one are packed: the chunks of the
\* weights n + 1, n + 2 and so on side by side, all complete but the last one.
Packed(ws, s, n, g) ==
  /\ \A i \in 1 .. Len(s) :
       /\ Sized(ws, s[i])
       /\ s[i].weight = n + i
       /\ s[i].from = IF i = 1 THEN g ELSE 0
       /\ s[i].offset + s[i].size <= BucketSize
  /\ \A i \in 1 .. Len(s) - 1 : Ended(ws, s[i]) /\ s[i + 1].offset = s[i].offset + s[i].size

\* The weights, and the bytes of the next one, that are packed after such a bucket.
CountAfter(ws, s, n) ==
  IF s = <<>> THEN n ELSE IF Ended(ws, s[Len(s)]) THEN n + Len(s) ELSE n + Len(s) - 1
RestAfter(ws, s, g) ==
  IF s = <<>> THEN g ELSE IF Ended(ws, s[Len(s)]) THEN 0 ELSE s[Len(s)].from + s[Len(s)].size

LEMMA BucketSizes ==
  BucketSize \in Nat /\ BucketSize >= 1 /\ IpcSize \in Nat /\ IpcSize >= 1
  BY MCWeightUpdateAssumption DEF Packing!WeightBucketsAssumption

LEMMA BytesPositive ==
  ASSUME NEW ws \in Seq(Entry), NEW w \in 1 .. Len(ws)
  PROVE  BytesOf(ws, w) \in Nat /\ BytesOf(ws, w) >= 1
  <1>1. ws[w] \in Entry
    OBVIOUS
  <1>2. ws[w].numel \in Nat \ {0} /\ ws[w].item \in Nat \ {0}
    BY <1>1, MCWeightUpdateAssumption DEF Packing!WeightBucketsAssumption, Entry
  <1>3. \A x, y \in Nat \ {0} : x * y \in Nat /\ x * y >= 1
    BY SMTT(30)
  <1>. QED
    BY <1>2, <1>3 DEF BytesOf

\* A chunk has bytes, ends within its weight, and fills a bucket unless it is the end of its weight.
LEMMA ChunkFacts ==
  ASSUME NEW ws \in Seq(Entry), NEW c \in Packing!Chunk, Sized(ws, c)
  PROVE  /\ c.weight \in Nat /\ c.from \in Nat /\ c.size \in Nat /\ c.offset \in Nat
         /\ BytesOf(ws, c.weight) \in Nat /\ c.size >= 1 /\ c.size <= BucketSize
         /\ c.from + c.size <= BytesOf(ws, c.weight)
         /\ ~Ended(ws, c) => c.size = BucketSize
         /\ BytesOf(ws, c.weight) <= BucketSize =>
              Ended(ws, c) /\ c.from = 0 /\ c.size = BytesOf(ws, c.weight)
  <1>. DEFINE B == BytesOf(ws, c.weight)
  <1>1. B \in Nat /\ B >= 1
    BY BytesPositive DEF Sized
  <1>2. c.weight \in Nat /\ c.from \in Nat /\ c.size \in Nat /\ c.offset \in Nat
    BY DEF Packing!Chunk
  <1>3. c.from < B /\ c.size = (IF B - c.from < BucketSize THEN B - c.from ELSE BucketSize)
        /\ (c.from # 0 => B > BucketSize)
    BY DEF Sized
  <1>4. Ended(ws, c) <=> c.from + c.size = B
    BY DEF Ended
  <1>. HIDE DEF B
  <1>6. c.size >= 1 /\ c.size <= BucketSize /\ c.from + c.size <= B
    BY <1>1, <1>2, <1>3, BucketSizes
  <1>7. c.from + c.size # B => c.size = BucketSize
    BY <1>1, <1>2, <1>3, BucketSizes
  <1>8. B <= BucketSize => c.from + c.size = B /\ c.from = 0 /\ c.size = B
    BY <1>1, <1>2, <1>3, BucketSizes
  <1>. QED
    BY <1>1, <1>2, <1>4, <1>6, <1>7, <1>8 DEF B

\* The next weight of the generator changes nothing of the chunks there are.
LEMMA MoreWeights ==
  ASSUME NEW ws \in Seq(Entry), NEW x \in Entry, NEW s \in Seq(Packing!Chunk), NEW n, NEW g,
         Packed(ws, s, n, g)
  PROVE  /\ Packed(Append(ws, x), s, n, g)
         /\ CountAfter(Append(ws, x), s, n) = CountAfter(ws, s, n)
         /\ RestAfter(Append(ws, x), s, g) = RestAfter(ws, s, g)
  <1>. DEFINE vs == Append(ws, x)
  <1>1. Len(vs) = Len(ws) + 1 /\ Len(ws) \in Nat /\ \A w \in 1 .. Len(ws) : vs[w] = ws[w]
    OBVIOUS
  <1>. HIDE DEF vs
  <1>2. ASSUME NEW i \in 1 .. Len(s)
        PROVE  Sized(vs, s[i]) /\ (Ended(vs, s[i]) <=> Ended(ws, s[i]))
    <2>1. Sized(ws, s[i]) /\ s[i].weight \in 1 .. Len(ws) /\ s[i].weight \in 1 .. Len(vs)
      BY <1>1 DEF Packed, Sized
    <2>2. BytesOf(vs, s[i].weight) = BytesOf(ws, s[i].weight)
      BY <1>1, <2>1 DEF BytesOf
    <2>. QED
      BY <2>1, <2>2, Zenon DEF Sized, Ended
  <1>3. Len(s) \in Nat /\ (s # <<>> => Len(s) \in 1 .. Len(s))
    OBVIOUS
  <1>4. \A i \in 1 .. Len(s) - 1 : i \in 1 .. Len(s)
    BY <1>3
  <1>5. Packed(vs, s, n, g)
    BY <1>2, <1>4, Zenon DEF Packed
  <1>6. s # <<>> => (Ended(vs, s[Len(s)]) <=> Ended(ws, s[Len(s)]))
    BY <1>2, <1>3
  <1>7. CountAfter(vs, s, n) = CountAfter(ws, s, n) /\ RestAfter(vs, s, g) = RestAfter(ws, s, g)
    BY <1>6, Zenon DEF CountAfter, RestAfter
  <1>. QED
    BY <1>5, <1>7 DEF vs

\* One more chunk in a bucket.
LEMMA MoreChunks ==
  ASSUME NEW ws \in Seq(Entry), NEW s \in Seq(Packing!Chunk), NEW n \in Nat, NEW g \in Nat,
         Packed(ws, s, n, g), NEW c \in Packing!Chunk, Sized(ws, c),
         c.weight = CountAfter(ws, s, n) + 1, c.from = RestAfter(ws, s, g),
         s # <<>> => c.offset = s[Len(s)].offset + s[Len(s)].size,
         c.offset + c.size <= BucketSize
  PROVE  /\ Packed(ws, Append(s, c), n, g)
         /\ CountAfter(ws, Append(s, c), n) = IF Ended(ws, c) THEN c.weight ELSE c.weight - 1
         /\ RestAfter(ws, Append(s, c), g) = IF Ended(ws, c) THEN 0 ELSE c.from + c.size
  <1>. DEFINE t == Append(s, c)
              k == Len(s)
  <1>1. /\ k \in Nat /\ Len(t) = k + 1 /\ t # <<>> /\ t[k + 1] = c
        /\ \A i \in 1 .. k : t[i] = s[i] /\ s[i] \in Packing!Chunk
        /\ s # <<>> <=> k >= 1
    OBVIOUS
  <1>. HIDE DEF t, k
  <1>2. c.weight \in Nat /\ c.from \in Nat /\ c.size \in Nat /\ c.offset \in Nat /\ c.size >= 1
    BY ChunkFacts
  <1>3. k >= 1 => /\ s[k] \in Packing!Chunk /\ Sized(ws, s[k]) /\ Ended(ws, s[k])
                  /\ c.offset = s[k].offset + s[k].size
    <2>. SUFFICES ASSUME k >= 1 PROVE /\ s[k] \in Packing!Chunk /\ Sized(ws, s[k])
                                      /\ Ended(ws, s[k])
                                      /\ c.offset = s[k].offset + s[k].size
      OBVIOUS
    <2>1. s[k] \in Packing!Chunk /\ Sized(ws, s[k]) /\ s[k].offset + s[k].size <= BucketSize
          /\ c.offset = s[k].offset + s[k].size
      BY <1>1 DEF Packed, k
    <2>2. s[k].offset \in Nat /\ s[k].size \in Nat /\ (~Ended(ws, s[k]) => s[k].size = BucketSize)
      BY <2>1, ChunkFacts
    <2>3. Ended(ws, s[k])
      <3>. DEFINE o == s[k].offset
                  z == s[k].size
      <3>1. /\ o \in Nat /\ z \in Nat /\ o + z <= BucketSize /\ c.offset = o + z
            /\ c.offset \in Nat /\ c.size \in Nat /\ c.size >= 1 /\ c.offset + c.size <= BucketSize
        BY <1>2, <2>1, <2>2
      <3>2. ~Ended(ws, s[k]) => z = BucketSize
        BY <2>2
      <3>. HIDE DEF o, z
      <3>3. z # BucketSize
        BY <3>1, BucketSizes
      <3>. QED
        BY <3>2, <3>3, Zenon
    <2>. QED
      BY <2>1, <2>3
  <1>4. c.weight = n + (k + 1) /\ c.from = (IF k + 1 = 1 THEN g ELSE 0)
    <2>1. CASE k = 0
      <3>1. s = <<>>
        BY <1>1, <2>1
      <3>. QED
        BY <2>1, <3>1 DEF CountAfter, RestAfter
    <2>2. CASE k >= 1
      <3>1. s # <<>> /\ Ended(ws, s[Len(s)]) /\ Len(s) = k
        BY <1>1, <1>3, <2>2 DEF k
      <3>2. CountAfter(ws, s, n) = n + k /\ RestAfter(ws, s, g) = 0
        BY <3>1 DEF CountAfter, RestAfter
      <3>. QED
        BY <1>1, <2>2, <3>2
    <2>. QED
      BY <1>1, <2>1, <2>2
  <1>5. ASSUME NEW i \in 1 .. Len(t)
        PROVE  /\ Sized(ws, t[i]) /\ t[i].weight = n + i /\ t[i].from = (IF i = 1 THEN g ELSE 0)
               /\ t[i].offset + t[i].size <= BucketSize
    <2>1. CASE i = k + 1
      BY <1>1, <1>4, <2>1
    <2>2. CASE i # k + 1
      <3>1. i \in 1 .. k /\ t[i] = s[i]
        BY <1>1, <2>2
      <3>. QED
        BY <3>1 DEF Packed, k
    <2>. QED
      BY <2>1, <2>2
  <1>6. ASSUME NEW i \in 1 .. Len(t) - 1
        PROVE  Ended(ws, t[i]) /\ t[i + 1].offset = t[i].offset + t[i].size
    <2>1. CASE i = k
      <3>1. t[i] = s[k] /\ t[i + 1] = c /\ k >= 1
        BY <1>1, <2>1
      <3>. QED
        BY <1>3, <3>1
    <2>2. CASE i # k
      <3>0. i \in 1 .. k - 1 /\ i \in 1 .. k /\ i + 1 \in 1 .. k
        BY <1>1, <2>2
      <3>1. i \in 1 .. k - 1 /\ t[i] = s[i] /\ t[i + 1] = s[i + 1]
        BY <1>1, <3>0
      <3>. QED
        BY <3>1 DEF Packed, k
    <2>. QED
      BY <2>1, <2>2
  <1>7. Packed(ws, t, n, g)
    BY <1>5, <1>6, Zenon DEF Packed
  <1>8. t[Len(t)] = c /\ Len(t) = k + 1
    BY <1>1
  <1>9. CountAfter(ws, t, n) = IF Ended(ws, c) THEN c.weight ELSE c.weight - 1
    BY <1>1, <1>4, <1>8 DEF CountAfter
  <1>10. RestAfter(ws, t, g) = IF Ended(ws, c) THEN 0 ELSE c.from + c.size
    BY <1>1, <1>8 DEF RestAfter
  <1>. QED
    BY <1>7, <1>9, <1>10 DEF t

\* One chunk of a bucket merged.
LEMMA LessChunks ==
  ASSUME NEW ws \in Seq(Entry), NEW s \in Seq(Packing!Chunk), s # <<>>, NEW n \in Nat,
      NEW g \in Nat,
         Packed(ws, s, n, g)
  PROVE  /\ Head(s) \in Packing!Chunk /\ Sized(ws, Head(s)) /\ Head(s).weight = n + 1
         /\ Head(s).from = g
         /\ Tail(s) \in Seq(Packing!Chunk)
         /\ Ended(ws, Head(s)) =>
              /\ Packed(ws, Tail(s), n + 1, 0)
              /\ CountAfter(ws, Tail(s), n + 1) = CountAfter(ws, s, n)
              /\ RestAfter(ws, Tail(s), 0) = RestAfter(ws, s, g)
         /\ ~Ended(ws, Head(s)) =>
              /\ Packed(ws, Tail(s), n, g + Head(s).size)
              /\ CountAfter(ws, Tail(s), n) = CountAfter(ws, s, n)
              /\ RestAfter(ws, Tail(s), g + Head(s).size) = RestAfter(ws, s, g)
  <1>. DEFINE t == Tail(s)
              c == Head(s)
              k == Len(s)
  <1>1. /\ k \in Nat /\ k >= 1 /\ t \in Seq(Packing!Chunk) /\ Len(t) = k - 1 /\ c = s[1]
        /\ c \in Packing!Chunk
        /\ \A i \in 1 .. k - 1 : t[i] = s[i + 1]
        /\ t = <<>> <=> k = 1
    <2>1. /\ k \in Nat /\ k >= 1 /\ t \in Seq(Packing!Chunk) /\ Len(t) = k - 1 /\ c = s[1]
          /\ c \in Packing!Chunk
          /\ \A i \in 1 .. k - 1 : t[i] = s[i + 1]
      OBVIOUS
    <2>2. t = <<>> <=> Len(t) = 0
      BY <2>1, EmptySeq
    <2>. QED
      BY <2>1, <2>2
  <1>. HIDE DEF t, c, k
  <1>2. Sized(ws, c) /\ c.weight = n + 1 /\ c.from = g
    BY <1>1 DEF Packed, k
  <1>3. ASSUME Ended(ws, c)
        PROVE  /\ Packed(ws, t, n + 1, 0)
               /\ CountAfter(ws, t, n + 1) = CountAfter(ws, s, n)
               /\ RestAfter(ws, t, 0) = RestAfter(ws, s, g)
    <2>1. ASSUME NEW i \in 1 .. Len(t)
          PROVE  /\ Sized(ws, t[i]) /\ t[i].weight = (n + 1) + i
                 /\ t[i].from = (IF i = 1 THEN 0 ELSE 0)
                 /\ t[i].offset + t[i].size <= BucketSize
      <3>1. t[i] = s[i + 1] /\ i + 1 \in 1 .. k /\ i + 1 # 1 /\ n + (i + 1) = (n + 1) + i
        BY <1>1
      <3>2. /\ Sized(ws, s[i + 1]) /\ s[i + 1].weight = n + (i + 1)
            /\ s[i + 1].from = (IF i + 1 = 1 THEN g ELSE 0)
            /\ s[i + 1].offset + s[i + 1].size <= BucketSize
        BY <3>1 DEF Packed, k
      <3>. QED
        BY <3>1, <3>2
    <2>2. ASSUME NEW i \in 1 .. Len(t) - 1
          PROVE  Ended(ws, t[i]) /\ t[i + 1].offset = t[i].offset + t[i].size
      <3>1. t[i] = s[i + 1] /\ t[i + 1] = s[(i + 1) + 1] /\ i + 1 \in 1 .. k - 1
        BY <1>1
      <3>. QED
        BY <3>1 DEF Packed, k
    <2>3. Packed(ws, t, n + 1, 0)
      BY <2>1, <2>2 DEF Packed
    <2>4. CASE k = 1
      <3>1. t = <<>> /\ s[Len(s)] = c /\ Len(s) = 1
        BY <1>1, <2>4 DEF k
      <3>. QED
        BY <1>3, <2>3, <3>1 DEF CountAfter, RestAfter
    <2>5. CASE k > 1
      <3>1. t # <<>> /\ t[Len(t)] = s[Len(s)] /\ (n + 1) + Len(t) = n + Len(s) /\ Len(s) \in Nat
            /\ Len(t) \in Nat
        BY <1>1, <2>5 DEF k
      <3>2. ((n + 1) + Len(t)) - 1 = (n + Len(s)) - 1
        BY <3>1
      <3>3. CountAfter(ws, t, n + 1) = CountAfter(ws, s, n)
        BY <3>1, <3>2 DEF CountAfter
      <3>. QED
        BY <2>3, <3>1, <3>3 DEF RestAfter
    <2>. QED
      BY <1>1, <2>4, <2>5
  <1>4. ASSUME ~Ended(ws, c)
        PROVE  /\ Packed(ws, t, n, g + c.size)
               /\ CountAfter(ws, t, n) = CountAfter(ws, s, n)
               /\ RestAfter(ws, t, g + c.size) = RestAfter(ws, s, g)
    <2>1. k = 1
      <3>1. k > 1 => Ended(ws, s[1])
        BY <1>1 DEF Packed, k
      <3>. QED
        BY <1>1, <1>4, <3>1
    <2>2. t = <<>> /\ s[Len(s)] = c /\ Len(s) = 1
      BY <1>1, <2>1 DEF k
    <2>3. Packed(ws, t, n, g + c.size)
      BY <2>2 DEF Packed
    <2>. QED
      BY <1>2, <1>4, <2>2, <2>3 DEF CountAfter, RestAfter
  <1>. QED
    BY <1>1, <1>2, <1>3, <1>4 DEF t, c

-----------------------------------------------------------------------------
MergedCount == Len(loaded) + Len(ipc)
ArrivedCount == CountAfter(tensors, arrived, MergedCount)
ArrivedRest == RestAfter(tensors, arrived, mergeOffset)
SentCount == IF Packing!ChunkLeft THEN Len(tensors) - 1 ELSE Len(tensors)
SentRest == IF Packing!ChunkLeft THEN cut ELSE 0

\* The receiver has merged up to where the bucket that has arrived begins, that one ends where the
\* next begins, and this one where the sender is.
PackInv ==
  /\ Packed(tensors, arrived, MergedCount, mergeOffset)
  /\ Packed(tensors, bucket, ArrivedCount, ArrivedRest)
  /\ CountAfter(tensors, bucket, ArrivedCount) = SentCount
  /\ RestAfter(tensors, bucket, ArrivedRest) = SentRest

\* How full the bucket is, and what is left when the last one has been sent.
SenderRest ==
  /\ bucket # <<>> => offset = bucket[Len(bucket)].offset + bucket[Len(bucket)].size
  /\ bucket = <<>> /\ ~closed => offset = 0
  /\ Packing!ChunkLeft /\ cut # 0 => Packing!Bytes(Len(tensors)) > BucketSize
  /\ closed => bucket = <<>> /\ ~Packing!ChunkLeft

\* What the engine was given and what waits in the shared buffer are the weights in their order.
LoadInv ==
  /\ over => closed /\ arrived = <<>> /\ ipc = <<>>
  /\ \A i \in 1 .. Len(loaded) : loaded[i] = i
  /\ \A i \in 1 .. Len(ipc) : ipc[i].weight = Len(loaded) + i

BInv == Packing!TypeOK /\ PackInv /\ SenderRest /\ LoadInv

LEMMA BytesIs == \A w : Packing!Bytes(w) = BytesOf(tensors, w)
  BY DEF Packing!Bytes, BytesOf

LEMMA PackTypes ==
  ASSUME Packing!TypeOK
  PROVE  /\ tensors \in Seq(Entry) /\ cut \in Nat /\ bucket \in Seq(Packing!Chunk)
         /\ arrived \in Seq(Packing!Chunk)
         /\ offset \in Nat /\ offset <= BucketSize /\ closed \in BOOLEAN /\ over \in BOOLEAN
         /\ mergeOffset \in Nat /\ ipc \in Seq([weight : Nat, offset : Nat])
         /\ ipcOffset \in Nat /\ ipcOffset <= IpcSize /\ loaded \in Seq(Nat)
         /\ MergedCount \in Nat /\ Len(tensors) \in Nat /\ Len(loaded) \in Nat /\ Len(ipc) \in Nat
         /\ (tensors = <<>> <=> Len(tensors) = 0)
  <1>1. closed \in BOOLEAN /\ over \in BOOLEAN
    BY Zenon DEF Packing!TypeOK
  <1>2. /\ tensors \in Seq(Entry) /\ cut \in Nat /\ bucket \in Seq(Packing!Chunk)
        /\ arrived \in Seq(Packing!Chunk)
        /\ mergeOffset \in Nat /\ ipc \in Seq([weight : Nat, offset : Nat]) /\ loaded \in Seq(Nat)
    BY DEF Packing!TypeOK, Entry
  <1>3. offset \in Nat /\ offset <= BucketSize /\ ipcOffset \in Nat /\ ipcOffset <= IpcSize
    BY BucketSizes DEF Packing!TypeOK
  <1>4. Len(tensors) \in Nat /\ Len(loaded) \in Nat /\ Len(ipc) \in Nat
        /\ (tensors = <<>> <=> Len(tensors) = 0)
    BY <1>2, EmptySeq
  <1>5. MergedCount \in Nat
    BY <1>4 DEF MergedCount
  <1>. QED
    BY <1>1, <1>2, <1>3, <1>4, <1>5

\* Where a bucket begins and ends are numbers.
LEMMA AfterTypes ==
  ASSUME NEW ws \in Seq(Entry), NEW s \in Seq(Packing!Chunk), NEW n \in Nat, NEW g \in Nat,
         Packed(ws, s, n, g)
  PROVE  CountAfter(ws, s, n) \in Nat /\ RestAfter(ws, s, g) \in Nat
  <1>1. CASE s = <<>>
    BY <1>1 DEF CountAfter, RestAfter
  <1>2. CASE s # <<>>
    <2>1. Len(s) \in Nat /\ Len(s) >= 1 /\ s[Len(s)] \in Packing!Chunk /\ Sized(ws, s[Len(s)])
      BY <1>2 DEF Packed
    <2>2. s[Len(s)].from + s[Len(s)].size \in Nat /\ n + Len(s) \in Nat /\ n + Len(s) - 1 \in Nat
      <3>1. s[Len(s)].from \in Nat /\ s[Len(s)].size \in Nat
        BY <2>1, ChunkFacts
      <3>. QED
        BY <2>1, <3>1
    <2>3. CASE Ended(ws, s[Len(s)])
      BY <1>2, <2>2, <2>3 DEF CountAfter, RestAfter
    <2>4. CASE ~Ended(ws, s[Len(s)])
      BY <1>2, <2>2, <2>4 DEF CountAfter, RestAfter
    <2>. QED
      BY <2>3, <2>4
  <1>. QED
    BY <1>1, <1>2

LEMMA PackInit == Packing!Init => BInv
  <1>. SUFFICES ASSUME Packing!Init PROVE BInv
    OBVIOUS
  <1>0. /\ tensors = <<>> /\ cut = 0 /\ bucket = <<>> /\ offset = 0 /\ closed = FALSE
        /\ arrived = <<>> /\ mergeOffset = 0
        /\ ipc = <<>> /\ ipcOffset = 0 /\ loaded = <<>> /\ over = FALSE
    BY DEF Packing!Init
  <1>1. Packing!TypeOK
    <2>1. closed \in BOOLEAN /\ over \in BOOLEAN
      BY <1>0, Zenon
    <2>2. offset \in 0 .. BucketSize /\ ipcOffset \in 0 .. IpcSize /\ cut \in Nat
         /\ mergeOffset \in Nat
      BY <1>0, BucketSizes
    <2>. QED
      BY <1>0, <2>1, <2>2 DEF Packing!TypeOK
  <1>2. ~Packing!ChunkLeft
    BY <1>0 DEF Packing!ChunkLeft
  <1>3. PackInv
    BY <1>0, <1>2
    DEF PackInv, Packed, CountAfter, RestAfter, SentCount, SentRest, ArrivedCount, ArrivedRest,
        MergedCount
  <1>4. SenderRest /\ LoadInv
    BY <1>0, <1>2 DEF SenderRest, LoadInv
  <1>. QED
    BY <1>1, <1>3, <1>4 DEF BInv

LEMMA WeightStep == BInv /\ Packing!Weight => BInv'
  <1>. SUFFICES ASSUME BInv, Packing!Weight PROVE BInv'
    OBVIOUS
  <1>1. Packing!TypeOK /\ PackInv /\ SenderRest /\ LoadInv
    BY DEF BInv
  <1>2. PICK n \in Numels, i \in Items : tensors' = Append(tensors, [numel |-> n, item |-> i])
    BY DEF Packing!Weight
  <1>. DEFINE x == [numel |-> n, item |-> i]
  <1>3. /\ ~closed /\ cut' = 0 /\ (tensors # <<>> => cut = Packing!Bytes(Len(tensors)))
        /\ UNCHANGED <<bucket, offset, closed, arrived, mergeOffset, ipc, ipcOffset, loaded, over>>
    BY DEF Packing!Weight, Packing!receiverVars
  <1>4. x \in Entry
    BY DEF Entry
  <1>. HIDE DEF x
  <1>5. tensors \in Seq(Entry) /\ tensors' = Append(tensors, x) /\ tensors' \in Seq(Entry)
        /\ Len(tensors') = Len(tensors) + 1 /\ Len(tensors) \in Nat
    BY <1>1, <1>2, <1>4, PackTypes DEF x
  <1>6. Packing!TypeOK'
    <2>1. tensors' \in Seq([numel : Numels, item : Items])
      BY <1>5 DEF Entry
    <2>2. cut' \in Nat
      BY <1>3
    <2>. QED
      BY <1>1, <1>3, <2>1, <2>2, Zenon DEF Packing!TypeOK
  <1>7. Packing!Bytes(Len(tensors))' >= 1 /\ Packing!Bytes(Len(tensors))' \in Nat
    <2>1. Len(tensors') \in 1 .. Len(tensors')
      BY <1>5
    <2>2. BytesOf(tensors', Len(tensors')) \in Nat /\ BytesOf(tensors', Len(tensors')) >= 1
      BY <1>5, <2>1, BytesPositive
    <2>3. Packing!Bytes(Len(tensors))' = BytesOf(tensors', Len(tensors'))
      BY Zenon DEF Packing!Bytes, BytesOf
    <2>. QED
      BY <2>2, <2>3
  <1>8. ~Packing!ChunkLeft /\ Packing!ChunkLeft'
    <2>1. ~Packing!ChunkLeft
      <3>1. CASE tensors = <<>>
        BY <3>1 DEF Packing!ChunkLeft
      <3>2. CASE tensors # <<>>
        <4>1. ~(cut < cut)
          BY <1>1, PackTypes
        <4>. QED
          BY <1>3, <3>2, <4>1 DEF Packing!ChunkLeft
      <3>. QED
        BY <3>1, <3>2
    <2>2. tensors' # <<>>
      BY <1>5
    <2>3. Packing!ChunkLeft' <=> tensors' # <<>> /\ cut' < Packing!Bytes(Len(tensors))'
      BY Zenon DEF Packing!ChunkLeft
    <2>. QED
      BY <1>3, <1>7, <2>1, <2>2, <2>3
  <1>9. SentCount' = SentCount /\ SentRest' = SentRest
    BY <1>3, <1>5, <1>8 DEF SentCount, SentRest
  <1>10. MergedCount' = MergedCount
    BY <1>3 DEF MergedCount
  <1>11. ArrivedCount' = ArrivedCount /\ ArrivedRest' = ArrivedRest
         /\ Packed(tensors', arrived', MergedCount', mergeOffset')
    BY <1>1, <1>3, <1>4, <1>5, <1>10, MoreWeights, PackTypes
    DEF PackInv, ArrivedCount, ArrivedRest
  <1>12. PackInv'
    <2>1. /\ Packed(tensors', bucket, ArrivedCount, ArrivedRest)
          /\ CountAfter(tensors', bucket, ArrivedCount) = SentCount
          /\ RestAfter(tensors', bucket, ArrivedRest) = SentRest
      BY <1>1, <1>4, <1>5, MoreWeights, PackTypes DEF PackInv
    <2>. QED
      BY <1>3, <1>9, <1>11, <2>1 DEF PackInv
  <1>13. SenderRest'
    BY <1>1, <1>3 DEF SenderRest
  <1>14. LoadInv'
    BY <1>1, <1>3, Zenon DEF LoadInv
  <1>. QED
    BY <1>6, <1>12, <1>13, <1>14 DEF BInv

LEMMA AddStep == BInv /\ Packing!Add => BInv'
  <1>. SUFFICES ASSUME BInv, Packing!Add PROVE BInv'
    OBVIOUS
  <1>. DEFINE k == Len(tensors)
              B == Packing!Bytes(k)
              z == Packing!ChunkSize
              c == [weight |-> k, from |-> cut, size |-> z, offset |-> offset]
  <1>1. Packing!TypeOK /\ PackInv /\ SenderRest /\ LoadInv
    BY DEF BInv
  <1>2. /\ ~closed /\ Packing!ChunkLeft /\ offset + z <= BucketSize
        /\ bucket' = Append(bucket, c) /\ offset' = offset + z /\ cut' = cut + z
        /\ UNCHANGED <<tensors, closed, arrived, mergeOffset, ipc, ipcOffset, loaded, over>>
    BY DEF Packing!Add, Packing!Fits, Packing!receiverVars
  <1>3. k \in Nat /\ k >= 1 /\ cut \in Nat /\ offset \in Nat /\ offset <= BucketSize
        /\ tensors \in Seq(Entry) /\ bucket \in Seq(Packing!Chunk) /\ arrived \in Seq(Packing!Chunk)
    BY <1>1, <1>2, PackTypes DEF Packing!ChunkLeft
  <1>4. B \in Nat /\ cut < B /\ B = BytesOf(tensors, k)
    <2>1. k \in 1 .. Len(tensors)
      BY <1>3
    <2>2. BytesOf(tensors, k) \in Nat
      BY <1>3, <2>1, BytesPositive
    <2>. QED
      BY <1>2, <2>2, BytesIs DEF Packing!ChunkLeft
  <1>5. z = IF B - cut < BucketSize THEN B - cut ELSE BucketSize
    BY DEF Packing!ChunkSize
  <1>6. cut # 0 => B > BucketSize
    BY <1>1, <1>2 DEF SenderRest
  <1>. HIDE DEF k, B, z
  <1>7. z \in Nat /\ z >= 1 /\ cut + z <= B
    BY <1>3, <1>4, <1>5, BucketSizes
  <1>8. c \in Packing!Chunk /\ Sized(tensors, c)
    <2>1. c \in Packing!Chunk
      BY <1>3, <1>7 DEF Packing!Chunk
    <2>2. c.weight = k /\ c.from = cut /\ c.size = z
      OBVIOUS
    <2>3. k \in 1 .. Len(tensors)
      BY <1>3 DEF k
    <2>. HIDE DEF c
    <2>. QED
      BY <1>4, <1>5, <1>6, <2>1, <2>2, <2>3 DEF Sized
  <1>9. c.weight = k /\ c.from = cut /\ c.size = z /\ c.offset = offset
    OBVIOUS
  <1>. HIDE DEF c
  <1>10. SentCount = k - 1 /\ SentRest = cut
    BY <1>2 DEF SentCount, SentRest, k
  <1>11. /\ ArrivedCount \in Nat /\ ArrivedRest \in Nat
         /\ Packed(tensors, bucket, ArrivedCount, ArrivedRest)
         /\ CountAfter(tensors, bucket, ArrivedCount) = SentCount
         /\ RestAfter(tensors, bucket, ArrivedRest) = SentRest
    BY <1>1, <1>3, AfterTypes, PackTypes DEF PackInv, ArrivedCount, ArrivedRest
  <1>12. /\ Packed(tensors, Append(bucket, c), ArrivedCount, ArrivedRest)
         /\ CountAfter(tensors, Append(bucket, c), ArrivedCount) = IF Ended(tensors, c) THEN k
              ELSE k - 1
         /\ RestAfter(tensors, Append(bucket, c), ArrivedRest) = IF Ended(tensors, c) THEN 0
              ELSE cut + z
    <2>1. c.weight = CountAfter(tensors, bucket, ArrivedCount) + 1
      BY <1>3, <1>9, <1>10, <1>11
    <2>2. bucket # <<>> => c.offset = bucket[Len(bucket)].offset + bucket[Len(bucket)].size
      BY <1>1, <1>9 DEF SenderRest
    <2>3. c.from = RestAfter(tensors, bucket, ArrivedRest) /\ c.offset + c.size <= BucketSize
      BY <1>2, <1>9, <1>10, <1>11
    <2>. QED
      BY <1>3, <1>8, <1>9, <1>11, <2>1, <2>2, <2>3, MoreChunks
  <1>13. Ended(tensors, c) <=> cut + z = B
    BY <1>4, <1>9 DEF Ended
  <1>14. /\ tensors' # <<>> /\ (Packing!ChunkLeft' <=> cut + z < B) /\ Len(tensors') = k
         /\ Packing!Bytes(Len(tensors))' = B
    <2>1. tensors' # <<>> /\ Len(tensors') = k /\ Packing!Bytes(Len(tensors))' = B
      <3>1. tensors' = tensors /\ tensors # <<>>
        BY <1>2 DEF Packing!ChunkLeft
      <3>. QED
        BY <3>1, Zenon DEF Packing!Bytes, B, k
    <2>2. Packing!ChunkLeft' <=> tensors' # <<>> /\ cut' < Packing!Bytes(Len(tensors))'
      BY Zenon DEF Packing!ChunkLeft
    <2>. QED
      BY <1>2, <2>1, <2>2, Zenon
  <1>15. SentCount' = (IF Ended(tensors, c) THEN k ELSE k - 1)
         /\ SentRest' = (IF Ended(tensors, c) THEN 0 ELSE cut + z)
    <2>1. Packing!ChunkLeft' <=> ~Ended(tensors, c)
      BY <1>3, <1>4, <1>7, <1>13, <1>14
    <2>. QED
      BY <1>2, <1>14, <2>1, Zenon DEF SentCount, SentRest
  <1>16. Packing!TypeOK'
    <2>1. bucket' \in Seq(Packing!Chunk)
      BY <1>2, <1>3, <1>8
    <2>2. offset' \in 0 .. BucketSize /\ cut' \in Nat
      BY <1>2, <1>3, <1>7, BucketSizes
    <2>. QED
      BY <1>1, <1>2, <2>1, <2>2, Zenon DEF Packing!TypeOK
  <1>17. PackInv'
    <2>1. MergedCount' = MergedCount /\ ArrivedCount' = ArrivedCount /\ ArrivedRest' = ArrivedRest
      BY <1>2 DEF MergedCount, ArrivedCount, ArrivedRest
    <2>2. Packed(tensors', arrived', MergedCount', mergeOffset')
      BY <1>1, <1>2, <2>1 DEF PackInv
    <2>. QED
      BY <1>2, <1>12, <1>15, <2>1, <2>2, Zenon DEF PackInv
  <1>18. SenderRest'
    <2>1. bucket' # <<>> /\ bucket'[Len(bucket')] = c
      <3>1. /\ Append(bucket, c) # <<>>
            /\ Append(bucket, c)[Len(Append(bucket, c))] = c
        BY <1>3, <1>8, AppendProperties
      <3>. QED
        BY <1>2, <3>1, Zenon
    <2>2. offset' = bucket'[Len(bucket')].offset + bucket'[Len(bucket')].size
      BY <1>2, <1>9, <2>1
    <2>3. Packing!ChunkLeft' => B > BucketSize
      BY <1>3, <1>4, <1>5, <1>6, <1>7, <1>14, BucketSizes
    <2>4. Packing!ChunkLeft' /\ cut' # 0 => Packing!Bytes(Len(tensors))' > BucketSize
      BY <1>14, <2>3
    <2>5. ~closed'
      BY <1>2
    <2>. QED
      BY <2>1, <2>2, <2>4, <2>5, Zenon DEF SenderRest
  <1>19. LoadInv'
    BY <1>1, <1>2, Zenon DEF LoadInv
  <1>. QED
    BY <1>16, <1>17, <1>18, <1>19 DEF BInv

LEMMA FlushStep == BInv /\ (Packing!Flush \/ Packing!FlushLast) => BInv'
  <1>. SUFFICES ASSUME BInv, Packing!Flush \/ Packing!FlushLast PROVE BInv'
    OBVIOUS
  <1>1. Packing!TypeOK /\ PackInv /\ SenderRest /\ LoadInv
    BY DEF BInv
  <1>2. /\ ~closed /\ arrived = <<>> /\ arrived' = bucket /\ bucket' = <<>>
        /\ UNCHANGED <<tensors, cut, mergeOffset, ipc, ipcOffset, loaded, over>>
    BY DEF Packing!Flush, Packing!FlushLast
  <1>3. (closed' = closed /\ offset' = 0)
       \/ (closed' = TRUE /\ ~Packing!ChunkLeft /\ offset' = offset)
    BY Zenon DEF Packing!Flush, Packing!FlushLast
  <1>4. Packing!ChunkLeft' = Packing!ChunkLeft /\ MergedCount' = MergedCount
       /\ SentCount' = SentCount
        /\ SentRest' = SentRest /\ Packing!Bytes(Len(tensors))' = Packing!Bytes(Len(tensors))
    BY <1>2 DEF Packing!ChunkLeft, MergedCount, SentCount, SentRest, Packing!Bytes
  <1>5. ArrivedCount = MergedCount /\ ArrivedRest = mergeOffset
    BY <1>2 DEF ArrivedCount, ArrivedRest, CountAfter, RestAfter
  <1>6. ArrivedCount' = SentCount /\ ArrivedRest' = SentRest
    BY <1>1, <1>2, <1>4, <1>5 DEF ArrivedCount, ArrivedRest, PackInv
  <1>7. PackInv'
    <2>1. Packed(tensors', arrived', MergedCount', mergeOffset')
      BY <1>1, <1>2, <1>4, <1>5 DEF PackInv
    <2>2. \A n, g : /\ Packed(tensors', <<>>, n, g) /\ CountAfter(tensors', <<>>, n) = n
                    /\ RestAfter(tensors', <<>>, g) = g
      BY DEF Packed, CountAfter, RestAfter
    <2>. QED
      BY <1>2, <1>4, <1>6, <2>1, <2>2, Zenon DEF PackInv
  <1>8. Packing!TypeOK'
    <2>1. offset' \in 0 .. BucketSize
      BY <1>1, <1>3, BucketSizes DEF Packing!TypeOK
    <2>2. closed' \in BOOLEAN
      BY <1>1, <1>3, Zenon DEF Packing!TypeOK
    <2>3. bucket' \in Seq(Packing!Chunk) /\ arrived' \in Seq(Packing!Chunk)
      BY <1>1, <1>2, PackTypes
    <2>. QED
      BY <1>1, <1>2, <2>1, <2>2, <2>3, Zenon DEF Packing!TypeOK
  <1>9. SenderRest'
    <2>1. CASE closed' = closed /\ offset' = 0
      BY <1>1, <1>2, <1>4, <2>1, Zenon DEF SenderRest
    <2>2. CASE closed' = TRUE /\ ~Packing!ChunkLeft
      BY <1>1, <1>2, <1>4, <2>2, Zenon DEF SenderRest
    <2>. QED
      BY <1>3, <2>1, <2>2
  <1>10. LoadInv'
    <2>1. ~over
      BY <1>1, <1>2 DEF LoadInv
    <2>. QED
      BY <1>1, <1>2, <2>1, Zenon DEF LoadInv
  <1>. QED
    BY <1>7, <1>8, <1>9, <1>10 DEF BInv

\* What waits in the shared buffer goes on behind what was loaded.
LEMMA Handed ==
  ASSUME Packing!TypeOK, LoadInv
  PROVE  /\ loaded \o Packing!Names(ipc) \in Seq(Nat)
         /\ Len(loaded \o Packing!Names(ipc)) = MergedCount
         /\ \A i \in 1 .. MergedCount : (loaded \o Packing!Names(ipc))[i] = i
  <1>. DEFINE a == Len(loaded)
              b == Len(ipc)
              q == Packing!Names(ipc)
  <1>1. /\ loaded \in Seq(Nat) /\ ipc \in Seq([weight : Nat, offset : Nat]) /\ a \in Nat
        /\ b \in Nat
        /\ MergedCount = a + b
    BY PackTypes DEF MergedCount
  <1>2. /\ q \in Seq(Nat) /\ Len(q) = b /\ \A i \in 1 .. b : q[i] = ipc[i].weight
    <2>1. \A i \in 1 .. b : ipc[i] \in [weight : Nat, offset : Nat]
      BY <1>1, ElementOfSeq
    <2>2. \A i \in 1 .. b : ipc[i].weight \in Nat
      BY <2>1
    <2>3. q = [i \in 1 .. b |-> ipc[i].weight]
      BY DEF Packing!Names
    <2>4. q \in [1 .. b -> Nat]
      BY <2>2, <2>3
    <2>5. q \in Seq(Nat) /\ Len(q) = b
      <3>. HIDE DEF q, b
      <3>. QED
        BY <1>1, <2>4
    <2>. QED
      BY <2>3, <2>5
  <1>3. (\A i \in 1 .. a : loaded[i] = i) /\ \A i \in 1 .. b : ipc[i].weight = a + i
    BY DEF LoadInv
  <1>. HIDE DEF a, b, q
  <1>4. /\ loaded \o q \in Seq(Nat) /\ Len(loaded \o q) = a + b
        /\ \A i \in 1 .. a : (loaded \o q)[i] = loaded[i]
        /\ \A i \in (a + 1) .. (a + b) : (loaded \o q)[i] = q[i - a]
    BY <1>1, <1>2 DEF a
  <1>5. ASSUME NEW i \in 1 .. a + b PROVE (loaded \o q)[i] = i
    <2>1. CASE i <= a
      BY <1>1, <1>3, <1>4, <2>1
    <2>2. CASE i > a
      <3>1. i \in (a + 1) .. (a + b) /\ i - a \in 1 .. b /\ a + (i - a) = i
        BY <1>1, <2>2
      <3>. QED
        BY <1>2, <1>3, <1>4, <3>1
    <2>3. i <= a \/ i > a
      BY <1>1
    <2>. QED
      BY <2>1, <2>2, <2>3
  <1>. QED
    BY <1>1, <1>4, <1>5 DEF q

\* A weight that is given on is the next one.
LEMMA GiveKeeps ==
  ASSUME Packing!TypeOK, LoadInv, NEW w, w = MergedCount + 1, w \in 1 .. Len(tensors),
      Packing!Give(w)
  PROVE  /\ loaded' \in Seq(Nat) /\ ipc' \in Seq([weight : Nat, offset : Nat])
         /\ ipcOffset' \in 0 .. IpcSize
         /\ MergedCount' = w
         /\ \A i \in 1 .. Len(loaded') : loaded'[i] = i
         /\ \A i \in 1 .. Len(ipc') : ipc'[i].weight = Len(loaded') + i
  <1>. DEFINE Before == IF Packing!Overfull(w) THEN loaded \o Packing!Names(ipc) ELSE loaded
              Kept == IF Packing!Overfull(w) THEN <<>> ELSE ipc
              At == IF Packing!Overfull(w) THEN 0 ELSE ipcOffset
              B == Packing!Bytes(w)
              a == Len(Before)
              b == Len(Kept)
              e == [weight |-> w, offset |-> At]
  <1>1. /\ loaded \in Seq(Nat) /\ ipc \in Seq([weight : Nat, offset : Nat])
        /\ ipcOffset \in Nat /\ ipcOffset <= IpcSize /\ tensors \in Seq(Entry)
        /\ MergedCount \in Nat
    BY PackTypes
  <1>2. B \in Nat
    BY <1>1, BytesPositive, BytesIs
  <1>3. /\ Before \in Seq(Nat) /\ Kept \in Seq([weight : Nat, offset : Nat])
        /\ a \in Nat /\ b \in Nat /\ a + b = MergedCount
        /\ At \in Nat /\ At <= IpcSize
        /\ \A i \in 1 .. a : Before[i] = i
        /\ \A i \in 1 .. b : Kept[i].weight = a + i
    <2>1. CASE Packing!Overfull(w)
      <3>1. Before = loaded \o Packing!Names(ipc) /\ Kept = <<>> /\ At = 0
        BY <2>1
      <3>. HIDE DEF Before, Kept, At
      <3>. QED
        BY <1>1, <3>1, Handed, BucketSizes
    <2>2. CASE ~Packing!Overfull(w)
      <3>1. Before = loaded /\ Kept = ipc /\ At = ipcOffset
        BY <2>2
      <3>. HIDE DEF Before, Kept, At
      <3>. QED
        BY <1>1, <3>1 DEF LoadInv, MergedCount
    <2>. QED
      BY <2>1, <2>2
  <1>4. IF At + B > IpcSize
          THEN loaded' = Append(Before, w) /\ ipc' = Kept /\ ipcOffset' = At
          ELSE loaded' = Before /\ ipc' = Append(Kept, e) /\ ipcOffset' = At + B
    BY Zenon DEF Packing!Give
  <1>5. At + B > IpcSize => Kept = <<>>
    BY <1>1, <1>2 DEF Packing!Overfull
  <1>6. w \in Nat /\ e \in [weight : Nat, offset : Nat] /\ e.weight = w
    BY <1>1, <1>3
  <1>. HIDE DEF Before, Kept, At, B, e
  <1>7. CASE At + B > IpcSize
    <2>1. b = 0 /\ loaded' = Append(Before, w) /\ ipc' = <<>> /\ ipcOffset' = At /\ w = a + 1
      BY <1>3, <1>4, <1>5, <1>7
    <2>. HIDE DEF b
    <2>2. /\ loaded' \in Seq(Nat) /\ Len(loaded') = a + 1 /\ loaded'[a + 1] = w
          /\ \A i \in 1 .. a : loaded'[i] = Before[i]
      BY <1>3, <1>6, <2>1
    <2>. HIDE DEF a
    <2>3. \A i \in 1 .. Len(loaded') : loaded'[i] = i
      BY <1>3, <2>1, <2>2
    <2>4. Len(ipc') = 0
      BY <2>1
    <2>. QED
      BY <1>3, <2>1, <2>2, <2>3, <2>4, BucketSizes DEF MergedCount
  <1>8. CASE ~(At + B > IpcSize)
    <2>1. loaded' = Before /\ ipc' = Append(Kept, e) /\ ipcOffset' = At + B /\ w = a + b + 1
      BY <1>3, <1>4, <1>8
    <2>2. /\ ipc' \in Seq([weight : Nat, offset : Nat]) /\ Len(ipc') = b + 1 /\ ipc'[b + 1] = e
          /\ \A i \in 1 .. b : ipc'[i] = Kept[i]
      BY <1>3, <1>6, <2>1
    <2>3. Len(loaded') = a
      BY <2>1
    <2>. HIDE DEF a, b
    <2>4. \A i \in 1 .. Len(ipc') : ipc'[i].weight = Len(loaded') + i
      <3>. SUFFICES ASSUME NEW i \in 1 .. b + 1 PROVE ipc'[i].weight = a + i
        BY <2>2, <2>3
      <3>1. CASE i = b + 1
        BY <1>3, <1>6, <2>1, <2>2, <3>1
      <3>2. CASE i # b + 1
        <4>1. i \in 1 .. b
          BY <1>3, <3>2
        <4>2. ipc'[i] = Kept[i] /\ Kept[i].weight = a + i
          BY <1>3, <2>2, <4>1
        <4>. QED
          BY <4>2
      <3>. QED
        BY <3>1, <3>2
    <2>5. ipcOffset' \in 0 .. IpcSize
      BY <1>2, <1>3, <1>8, <2>1, BucketSizes
    <2>6. MergedCount' = w
      <3>1. MergedCount' = Len(loaded') + Len(ipc')
        BY Zenon DEF MergedCount
      <3>2. a \in Nat /\ b \in Nat /\ w = a + b + 1 /\ Len(ipc') = b + 1 /\ Len(loaded') = a
        BY <1>3, <2>1, <2>2, <2>3
      <3>. QED
        BY <3>1, <3>2
    <2>7. \A i \in 1 .. Len(loaded') : loaded'[i] = i
      BY <1>3, <2>1, <2>3
    <2>. QED
      BY <1>3, <2>1, <2>2, <2>4, <2>5, <2>6, <2>7
  <1>. QED
    BY <1>7, <1>8

LEMMA MergeStep == BInv /\ Packing!Merge => BInv'
  <1>. SUFFICES ASSUME BInv, Packing!Merge PROVE BInv'
    OBVIOUS
  <1>. DEFINE c == Head(arrived)
              done == Ended(tensors, c)
  <1>1. Packing!TypeOK /\ PackInv /\ SenderRest /\ LoadInv
    BY DEF BInv
  <1>2. /\ arrived # <<>> /\ arrived' = Tail(arrived)
        /\ UNCHANGED <<tensors, cut, bucket, offset, closed, over>>
        /\ mergeOffset' = Packing!MergedAfter(c)
        /\ IF Packing!Whole(c) \/ Packing!Complete(c) THEN Packing!Give(c.weight)
             ELSE UNCHANGED <<ipc, ipcOffset, loaded>>
    BY Zenon DEF Packing!Merge, Packing!senderVars
  <1>3. tensors \in Seq(Entry) /\ arrived \in Seq(Packing!Chunk) /\ MergedCount \in Nat
       /\ mergeOffset \in Nat
    BY <1>1, PackTypes
  <1>4. Packed(tensors, arrived, MergedCount, mergeOffset)
    BY <1>1 DEF PackInv
  <1>5. /\ c \in Packing!Chunk /\ Sized(tensors, c) /\ c.weight = MergedCount + 1
        /\ c.from = mergeOffset
        /\ arrived' \in Seq(Packing!Chunk)
        /\ done =>
             /\ Packed(tensors, arrived', MergedCount + 1, 0)
             /\ CountAfter(tensors, arrived', MergedCount + 1) = ArrivedCount
             /\ RestAfter(tensors, arrived', 0) = ArrivedRest
        /\ ~done =>
             /\ Packed(tensors, arrived', MergedCount, mergeOffset + c.size)
             /\ CountAfter(tensors, arrived', MergedCount) = ArrivedCount
             /\ RestAfter(tensors, arrived', mergeOffset + c.size) = ArrivedRest
    BY <1>2, <1>3, <1>4, LessChunks DEF ArrivedCount, ArrivedRest
  <1>6. (Packing!Whole(c) \/ Packing!Complete(c)) <=> done
    <2>1. Packing!Whole(c) <=> BytesOf(tensors, c.weight) <= BucketSize
      BY BytesIs DEF Packing!Whole
    <2>2. Packing!Complete(c) <=> done
      BY BytesIs DEF Packing!Complete, Ended
    <2>3. BytesOf(tensors, c.weight) <= BucketSize => done
      BY <1>3, <1>5, ChunkFacts
    <2>. QED
      BY <2>1, <2>2, <2>3
  <1>7. c.size \in Nat /\ c.weight \in 1 .. Len(tensors)
    BY <1>3, <1>5, ChunkFacts DEF Sized
  <1>. HIDE DEF c, done
  <1>8. /\ mergeOffset' = (IF done THEN 0 ELSE mergeOffset + c.size)
             /\ MergedCount' = (IF done THEN MergedCount + 1 ELSE MergedCount)
        /\ loaded' \in Seq(Nat) /\ ipc' \in Seq([weight : Nat, offset : Nat])
        /\ ipcOffset' \in 0 .. IpcSize
        /\ \A i \in 1 .. Len(loaded') : loaded'[i] = i
        /\ \A i \in 1 .. Len(ipc') : ipc'[i].weight = Len(loaded') + i
    <2>1. CASE done
      <3>1. Packing!Give(c.weight) /\ mergeOffset' = 0
        BY <1>2, <1>6, <2>1 DEF Packing!MergedAfter
      <3>. QED
        BY <1>1, <1>5, <1>7, <2>1, <3>1, GiveKeeps
    <2>2. CASE ~done
      <3>1. UNCHANGED <<ipc, ipcOffset, loaded>> /\ mergeOffset' = mergeOffset + c.size
        BY <1>2, <1>6, <2>2 DEF Packing!MergedAfter
      <3>2. MergedCount' = MergedCount
        BY <3>1 DEF MergedCount
      <3>. QED
        BY <1>1, <2>2, <3>1, <3>2 DEF LoadInv, Packing!TypeOK
    <2>. QED
      BY <2>1, <2>2
  <1>9. Packing!TypeOK'
    <2>1. mergeOffset' \in Nat
      BY <1>3, <1>7, <1>8
    <2>. QED
      BY <1>1, <1>2, <1>5, <1>8, <2>1, Zenon DEF Packing!TypeOK
  <1>10. PackInv'
    <2>1. /\ Packed(tensors, arrived', MergedCount', mergeOffset')
          /\ CountAfter(tensors, arrived', MergedCount') = ArrivedCount
          /\ RestAfter(tensors, arrived', mergeOffset') = ArrivedRest
      <3>1. CASE done
        BY <1>5, <1>8, <3>1
      <3>2. CASE ~done
        BY <1>5, <1>8, <3>2
      <3>. QED
        BY <3>1, <3>2
    <2>2. ArrivedCount' = ArrivedCount /\ ArrivedRest' = ArrivedRest
      BY <1>2, <2>1, Zenon DEF ArrivedCount, ArrivedRest
    <2>3. SentCount' = SentCount /\ SentRest' = SentRest
      BY <1>2, Zenon DEF SentCount, SentRest, Packing!ChunkLeft, Packing!Bytes
    <2>. QED
      BY <1>1, <1>2, <2>1, <2>2, <2>3, Zenon DEF PackInv
  <1>11. SenderRest'
    BY <1>1, <1>2, Zenon DEF SenderRest, Packing!ChunkLeft, Packing!Bytes
  <1>12. LoadInv'
    <2>1. ~over
      BY <1>1, <1>2 DEF LoadInv
    <2>. QED
      BY <1>2, <1>8, <2>1 DEF LoadInv
  <1>. QED
    BY <1>9, <1>10, <1>11, <1>12 DEF BInv

LEMMA FinishStep == BInv /\ Packing!Finish => BInv'
  <1>. SUFFICES ASSUME BInv, Packing!Finish PROVE BInv'
    OBVIOUS
  <1>1. Packing!TypeOK /\ PackInv /\ SenderRest /\ LoadInv
    BY DEF BInv
  <1>2. /\ closed /\ arrived = <<>> /\ loaded' = loaded \o Packing!Names(ipc) /\ ipc' = <<>>
                                    /\ over' = TRUE
        /\ UNCHANGED <<tensors, cut, bucket, offset, closed, arrived, mergeOffset, ipcOffset>>
    BY DEF Packing!Finish, Packing!Rest, Packing!senderVars
  <1>3. /\ loaded' \in Seq(Nat) /\ Len(loaded') = MergedCount
        /\ \A i \in 1 .. MergedCount : loaded'[i] = i
    BY <1>1, <1>2, Handed
  <1>4. Packing!TypeOK'
    <2>1. over' \in BOOLEAN
      BY <1>2, Zenon
    <2>2. ipc' \in Seq([weight : Nat, offset : Nat])
      BY <1>2
    <2>. QED
      BY <1>1, <1>2, <1>3, <2>1, <2>2, Zenon DEF Packing!TypeOK
  <1>5. MergedCount' = MergedCount
    <2>1. MergedCount \in Nat /\ Len(ipc') = 0
      BY <1>1, <1>2, PackTypes
    <2>. QED
      BY <1>3, <2>1 DEF MergedCount
  <1>6. PackInv'
    BY <1>1, <1>2, <1>5, Zenon
    DEF PackInv, ArrivedCount, ArrivedRest, SentCount, SentRest, Packing!ChunkLeft, Packing!Bytes
  <1>7. SenderRest'
    BY <1>1, <1>2, Zenon DEF SenderRest, Packing!ChunkLeft, Packing!Bytes
  <1>8. LoadInv'
    <2>1. Len(ipc') = 0
      BY <1>2
    <2>. QED
      BY <1>2, <1>3, <2>1 DEF LoadInv
  <1>. QED
    BY <1>4, <1>6, <1>7, <1>8 DEF BInv

LEMMA PackStep == BInv /\ [Packing!Next]_packVars => BInv'
  <1>. SUFFICES ASSUME BInv, [Packing!Next]_packVars PROVE BInv'
    OBVIOUS
  <1>1. CASE UNCHANGED packVars
    <2>1. Packing!TypeOK'
      BY <1>1, Zenon DEF BInv, Packing!TypeOK, packVars, Packing!senderVars, Packing!receiverVars
    <2>2. PackInv'
      BY <1>1, Zenon
      DEF BInv, PackInv, ArrivedCount, ArrivedRest, MergedCount, SentCount, SentRest,
          Packing!ChunkLeft, Packing!Bytes, packVars, Packing!senderVars, Packing!receiverVars
    <2>3. SenderRest' /\ LoadInv'
      BY <1>1, Zenon
      DEF BInv, SenderRest, LoadInv, Packing!ChunkLeft, Packing!Bytes, packVars,
          Packing!senderVars, Packing!receiverVars
    <2>. QED
      BY <2>1, <2>2, <2>3 DEF BInv
  <1>. QED
    BY <1>1, WeightStep, AddStep, FlushStep, MergeStep, FinishStep DEF Packing!Next

\* No two chunks of a bucket are of one weight, and they lie side by side.
LEMMA Separate ==
  ASSUME NEW ws \in Seq(Entry), NEW s \in Seq(Packing!Chunk), NEW n \in Nat, NEW g \in Nat,
         Packed(ws, s, n, g), NEW i \in 1 .. Len(s)
  PROVE  /\ s[i].offset + s[i].size <= BucketSize
         /\ i < Len(s) => s[i + 1].offset = s[i].offset + s[i].size
         /\ \A j \in 1 .. i - 1 : s[j].weight # s[i].weight
  <1>0. Len(s) \in Nat
    OBVIOUS
  <1>1. s[i].offset + s[i].size <= BucketSize
    BY DEF Packed
  <1>2. i < Len(s) => s[i + 1].offset = s[i].offset + s[i].size
    <2>1. i < Len(s) => i \in 1 .. Len(s) - 1
      BY <1>0
    <2>. QED
      BY <2>1 DEF Packed
  <1>3. ASSUME NEW j \in 1 .. i - 1 PROVE s[j].weight # s[i].weight
    <2>1. j \in 1 .. Len(s) /\ j # i
      BY <1>0
    <2>2. s[j].weight = n + j /\ s[i].weight = n + i
      BY <2>1 DEF Packed
    <2>. QED
      BY <2>1, <2>2
  <1>. QED
    BY <1>1, <1>2, <1>3

LEMMA PackingLoads == BInv => WeightsLoaded
  <1>. SUFFICES ASSUME BInv PROVE Packing!BucketSound /\ Packing!MergeSound /\ Packing!InOrder
       /\ Packing!AllLoaded
    BY DEF BInv, WeightsLoaded
  <1>1. Packing!TypeOK /\ PackInv /\ SenderRest /\ LoadInv
    BY DEF BInv
  <1>2. tensors \in Seq(Entry) /\ arrived \in Seq(Packing!Chunk) /\ bucket \in Seq(Packing!Chunk)
       /\ MergedCount \in Nat
        /\ mergeOffset \in Nat /\ Len(tensors) \in Nat
    BY <1>1, PackTypes
  <1>3. /\ Packed(tensors, arrived, MergedCount, mergeOffset)
        /\ Packed(tensors, bucket, ArrivedCount, ArrivedRest)
    BY <1>1 DEF PackInv
  <1>4. ArrivedCount \in Nat /\ ArrivedRest \in Nat
    BY <1>2, <1>3, AfterTypes DEF ArrivedCount, ArrivedRest
  <1>5. Packing!BucketSound
    <2>. SUFFICES ASSUME NEW s \in {bucket, arrived}, NEW i \in 1 .. Len(s)
                  PROVE  /\ s[i].offset + s[i].size <= BucketSize
                         /\ i < Len(s) => s[i + 1].offset = s[i].offset + s[i].size
                         /\ \A j \in 1 .. i - 1 : s[j].weight # s[i].weight
      BY Zenon DEF Packing!BucketSound
    <2>1. CASE s = bucket
      BY <1>2, <1>3, <1>4, <2>1, Separate
    <2>2. CASE s = arrived
      BY <1>2, <1>3, <2>2, Separate
    <2>. QED
      BY <2>1, <2>2
  <1>6. Packing!MergeSound
    <2>. SUFFICES ASSUME arrived # <<>>
                  PROVE  LET c == Head(arrived)
                         IN  c.from = mergeOffset
                             /\ (Packing!Whole(c) => c.size = Packing!Bytes(c.weight))
      BY Zenon DEF Packing!MergeSound
    <2>. DEFINE c == Head(arrived)
    <2>1. c \in Packing!Chunk /\ Sized(tensors, c) /\ c.from = mergeOffset
      BY <1>2, <1>3, LessChunks
    <2>. HIDE DEF c
    <2>2. Packing!Whole(c) => c.size = Packing!Bytes(c.weight)
      BY <1>2, <2>1, ChunkFacts, BytesIs DEF Packing!Whole
    <2>. QED
      BY <2>1, <2>2 DEF c
  <1>7. Packing!InOrder
    BY <1>1 DEF Packing!InOrder, LoadInv
  <1>8. Packing!AllLoaded
    <2>. SUFFICES ASSUME over PROVE Len(loaded) = Len(tensors) /\ mergeOffset = 0
      BY DEF Packing!AllLoaded
    <2>1. arrived = <<>> /\ bucket = <<>> /\ ipc = <<>> /\ ~Packing!ChunkLeft
      BY <1>1 DEF LoadInv, SenderRest
    <2>2. ArrivedCount = MergedCount /\ ArrivedRest = mergeOffset
      BY <2>1 DEF ArrivedCount, ArrivedRest, CountAfter, RestAfter
    <2>3. ArrivedCount = Len(tensors) /\ ArrivedRest = 0
      BY <1>1, <2>1 DEF PackInv, CountAfter, RestAfter, SentCount, SentRest
    <2>4. MergedCount = Len(loaded)
      <3>1. Len(ipc) = 0 /\ Len(loaded) \in Nat
        BY <1>1, <2>1, PackTypes
      <3>. QED
        BY <3>1 DEF MergedCount
    <2>. QED
      BY <2>2, <2>3, <2>4
  <1>. QED
    BY <1>5, <1>6, <1>7, <1>8

-----------------------------------------------------------------------------
(* The four instances: each takes steps of its own or stutters.            *)

\* A step of a behaviour is a step of the instance that takes the steps; the others stutter.
LEMMA UpdateSteps ==
  [MCNext]_MCVars =>
    [Next]_vars /\ [Limited!Next]_limVars /\ [Chain!Next]_chainVars /\ [Packing!Next]_packVars
  BY Zenon DEF MCNext, MCVars, Requests, LimitedRequests, Ranks, Weights

LEMMA UpdateInductive == MCSpec => [](IInv /\ LimIInv /\ CInv /\ BInv)
  <1>. DEFINE Inv == IInv /\ LimIInv /\ CInv /\ BInv
  <1>1. MCInit => Inv
    BY Initially, LimInitially, ChainInit, PackInit DEF MCInit
  <1>2. Inv /\ [MCNext]_MCVars => Inv'
    BY UpdateSteps, Step, LimStep, ChainStep, PackStep
  <1>. QED
    BY <1>1, <1>2, PTL DEF MCSpec

\* Whatever is aborted, resent or evicted, and although an abort may raise, each attempt is counted
\* at its server until it is released, and no attempt is sent without a token left, for requests
\* with and without a limit of their own.
THEOREM AttemptsAreKept == MCSpec => []AttemptsKept
  <1>1. IInv => TypeOK
    BY DEF IInv, ClientTypes, BalancerTypes, ServerTypes, ManagerTypes, TypeOK
  <1>2. LimIInv => Limited!TypeOK
    BY DEF LimIInv, LimClientTypes, LimBalancerTypes, LimServerTypes, LimManagerTypes,
       Limited!TypeOK
  <1>3. LimIInv => Limited!CountsExact
    BY LimCounting, Zenon DEF LimIInv, LimCountsExact, Limited!CountsExact
  <1>4. IInv /\ LimIInv => AttemptsKept
    BY <1>1, <1>2, <1>3 DEF AttemptsKept, IInv, LimIInv
  <1>. QED
    BY <1>4, UpdateInductive, PTL

\* Through a chain of any length, and in any number of buckets, the weights come to every inference
\* server in order and whole, because no rank writes to a buffer that the next one may still read.
THEOREM ChainAlwaysSound == MCSpec => []ChainSound
  BY ChainIsSound, UpdateInductive, PTL

\* Whatever the sizes of the weights and of the two buckets, the engine is given every weight once
\* and in order, and the chunks of a weight that is larger than a bucket are merged in place.
THEOREM AllWeightsLoaded == MCSpec => []WeightsLoaded
  BY PackingLoads, UpdateInductive, PTL
=============================================================================
