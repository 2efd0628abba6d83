---------------------------- MODULE LoginsProofs ----------------------------
(***************************************************************************)
(* Theorems about OIDC logins, for any number of clients, flows and        *)
(* concurrent handlers: the state store keeps its counts and limits, a     *)
(* flow ends in one session at most, and the token buckets, of which idle  *)
(* ones are forgotten, admit no more than their rate.                      *)
(***************************************************************************)
EXTENDS Logins, TLAPS, FiniteSetTheorems, SequenceTheorems

Holds(p) == {f \in flows : flow[f].peer = p}

(* Requests are charged to the client that sent them.                      *)
ChargedToOrigin == \A f \in DOMAIN flow : flow[f].origin = flow[f].peer /\ flow[f].at <= now

(* A flow in the store has not been used, one past take is not in it.      *)
FlowsAreFresh ==
    \A f \in DOMAIN flow :
        /\ f \in flows => ~flow[f].taken /\ flow[f].sessions = 0
        /\ flow[f].taken => flow[f].sessions = 0
        /\ flow[f].sessions <= 1

BucketsArePast ==
    /\ \A p \in DOMAIN clients : clients[p].at <= now /\ clients[p].tokens <= LoginBurst
    /\ global.at <= now /\ global.tokens <= GlobalBurst

TimerIsSoon == timer # -1 => timer <= now + SweepInterval

StoreInv == StoreIsConsistent /\ ChargedToOrigin /\ FlowsAreFresh /\ BucketsArePast /\ TimerIsSoon

Admitted(p, from, to) == {f \in {g \in DOMAIN flow : flow[g].at \in from..to} : flow[f].origin = p}
AdmittedInAll(from, to) == {f \in DOMAIN flow : flow[f].at \in from..to}

(* Since any time, a client was let in for no more than the burst and the  *)
(* refill less what its bucket has now; so were all clients together.      *)
RateHasSlack ==
    \A from \in 0..now :
        /\ \A p \in Peers :
             Cardinality(Admitted(p, from, now)) + ClientBucket(p).tokens
                 <= LoginBurst + (now - from) * LoginRate
        /\ Cardinality(AdmittedInAll(from, now)) + Refill(global, GlobalRate, GlobalBurst).tokens
                 <= GlobalBurst + (now - from) * GlobalRate

RateInv == RateIsLimited /\ RateHasSlack

----------------------------------------------------------------------------
(* The address a request is charged to *)

LEMMA RouteIsResolved ==
    ASSUME NEW S, NEW origin, NEW request, request.forwarded \in Seq(S), RoutedFrom(origin, request),
           ~Trusted(Malformed)
    PROVE  ClientIP(request) = origin
<1>1. PICK fw \in Seq(S) : fw = request.forwarded
    OBVIOUS
<1>2. DOMAIN fw = 1..Len(fw) /\ Len(fw) \in Nat
    OBVIOUS
<1>3. CASE ~Trusted(origin) /\ request.remote = origin
    BY <1>3 DEF ClientIP
<1>4. CASE ~Trusted(origin) /\ Trusted(request.remote) /\ request.forwarded = <<>> /\ request.real = origin
           /\ origin # Malformed
    BY <1>4 DEF ClientIP
<1>5. ASSUME ~Trusted(origin), origin # Malformed, Trusted(request.remote),
             NEW i \in Reached(request.forwarded), request.forwarded[i] = origin
      PROVE  ClientIP(request) = origin
  <2>1. i \in 1..Len(fw) /\ fw # <<>>
    BY <1>1, <1>2, <1>5 DEF Reached
  <2>2. PICK parsed : parsed = {j \in Reached(fw) : fw[j] # Malformed}
    OBVIOUS
  <2>3. i \in parsed
    BY <1>1, <1>5, <2>2
  <2>4. \A j \in parsed : i <= j
    <3> SUFFICES ASSUME NEW j \in parsed, ~(i <= j) PROVE FALSE
      OBVIOUS
    <3>1. j \in 1..Len(fw) /\ \A k \in j + 1..Len(fw) : Trusted(fw[k])
      BY <1>2, <2>2 DEF Reached
    <3>2. i \in j + 1..Len(fw)
      BY <1>2, <2>1, <3>1
    <3> QED
      BY <1>1, <1>5, <3>1, <3>2
  <2>5. Min(parsed) = i
    <3>1. \A j \in parsed : j \in Nat
      BY <1>2, <2>2 DEF Reached
    <3>2. /\ Min(parsed) \in parsed
          /\ \A j \in parsed : Min(parsed) <= j
      BY <2>3, <2>4 DEF Min
    <3> QED
      BY <2>3, <2>4, <3>1, <3>2
  <2>6. Forwarded(request) = origin
    BY <1>1, <1>5, <2>2, <2>3, <2>5 DEF Forwarded
  <2> QED
    BY <1>1, <1>5, <2>1, <2>6 DEF ClientIP
<1>6. CASE /\ Trusted(origin) /\ request.remote = origin
           /\ IF request.forwarded = <<>> THEN request.real = Malformed
              ELSE request.forwarded[Len(request.forwarded)] = Malformed
  <2>1. CASE request.forwarded = <<>>
    BY <1>6, <2>1 DEF ClientIP
  <2>2. CASE request.forwarded # <<>>
    <3>1. fw[Len(fw)] = Malformed /\ fw # <<>> /\ Len(fw) \in 1..Len(fw)
      BY <1>1, <1>2, <1>6, <2>2
    <3>2. {j \in Reached(fw) : fw[j] # Malformed} = {}
      <4> SUFFICES ASSUME NEW j \in Reached(fw), fw[j] # Malformed PROVE FALSE
        OBVIOUS
      <4>1. j \in 1..Len(fw) /\ \A k \in j + 1..Len(fw) : Trusted(fw[k])
        BY <1>2 DEF Reached
      <4>2. Len(fw) \in j + 1..Len(fw)
        BY <1>2, <3>1, <4>1
      <4> QED
        BY <3>1, <4>1, <4>2
    <3>3. Forwarded(request) = origin
      BY <1>1, <1>6, <3>2 DEF Forwarded
    <3> QED
      BY <1>6, <2>2, <3>3 DEF ClientIP
  <2> QED
    BY <2>1, <2>2
<1> QED
    BY <1>3, <1>4, <1>5, <1>6 DEF RoutedFrom

LEMMA ArrivalIsCharged ==
    ASSUME NEW a \in Arrivals
    PROVE  ClientIP(a) = a.origin /\ a.origin \in Peers
<1>1. ~Trusted(Malformed)
    BY PeerAssumption DEF Trusted
<1>2. a.origin \in Peers /\ a.forwarded \in Seq(Peers \cup {Malformed}) /\ RoutedFrom(a.origin, a)
    BY PeerAssumption
<1> QED
    BY <1>1, <1>2, RouteIsResolved

----------------------------------------------------------------------------
(* The store *)

LEMMA CardinalityOfDifference ==
    ASSUME NEW S, IsFiniteSet(S), NEW T, T \subseteq S
    PROVE  /\ Cardinality(S \ T) = Cardinality(S) - Cardinality(T)
           /\ Cardinality(S) \in Nat /\ Cardinality(T) \in Nat /\ Cardinality(S \ T) \in Nat
<1>1. IsFiniteSet(T) /\ IsFiniteSet(S \ T)
    BY FS_Subset
<1>2. Cardinality((S \ T) \cup T) = Cardinality(S \ T) + Cardinality(T) - Cardinality((S \ T) \cap T)
    BY <1>1, FS_Union
<1>3. (S \ T) \cup T = S /\ (S \ T) \cap T = {}
    OBVIOUS
<1>4. Cardinality(S) \in Nat /\ Cardinality(T) \in Nat /\ Cardinality(S \ T) \in Nat
    BY <1>1, FS_CardinalityType
<1>5. PICK s \in Nat, t \in Nat, d \in Nat :
          s = Cardinality(S) /\ t = Cardinality(T) /\ d = Cardinality(S \ T)
    BY <1>4
<1>6. s = d + t - 0
    BY <1>2, <1>3, <1>5, FS_EmptySet
<1>7. d = s - t
    BY <1>6
<1> QED
    BY <1>4, <1>5, <1>7

LEMMA LimitsAreNat ==
    /\ MaxStates \in Nat /\ MaxStatesPerIP \in Nat /\ MaxRateClients \in Nat
    /\ LoginRate \in Nat /\ LoginBurst \in Nat /\ GlobalRate \in Nat /\ GlobalBurst \in Nat
    /\ SweepInterval \in Nat /\ Lifetime \in Nat /\ MaxFlows \in Nat /\ MaxTime \in Nat
BY LimitsAssumption

LEMMA StoreIsFinite ==
    ASSUME TypeOK
    PROVE  /\ IsFiniteSet(flows) /\ flows \subseteq Nat /\ Cardinality(flows) \in Nat
           /\ DOMAIN flow = 1..Len(flow) /\ Len(flow) \in Nat /\ IsFiniteSet(DOMAIN flow)
           /\ \A p : IsFiniteSet(Holds(p))
           /\ IsFiniteSet(DOMAIN clients) /\ Cardinality(DOMAIN clients) \in Nat
<1>1. DOMAIN flow = 1..Len(flow) /\ Len(flow) \in Nat /\ flows \subseteq DOMAIN flow
    BY DEF TypeOK
<1>2. IsFiniteSet(DOMAIN flow)
    BY <1>1, FS_Interval
<1>3. IsFiniteSet(flows)
    BY <1>1, <1>2, FS_Subset
<1>4. ASSUME NEW p PROVE IsFiniteSet(Holds(p))
    BY <1>3, FS_Subset DEF Holds
<1>5. IsFiniteSet(DOMAIN clients)
    BY PeerAssumption, FS_Subset DEF TypeOK
<1> QED
    BY <1>1, <1>2, <1>3, <1>4, <1>5, FS_CardinalityType

(* Flows keep what they are charged to.                                    *)
SameFlows ==
    /\ DOMAIN flow' = DOMAIN flow
    /\ \A f \in DOMAIN flow : flow'[f].peer = flow[f].peer /\ flow'[f].origin = flow[f].origin
                              /\ flow'[f].at = flow[f].at

Counted == counts \in [Peers -> Nat] /\ CountsMatchFlows
           /\ Cardinality(flows) <= MaxStates
           /\ \A p \in Peers : Cardinality({f \in flows : flow[f].origin = p}) <= MaxStatesPerIP

LEMMA RemoveKeeps ==
    ASSUME StoreInv, NEW gone, gone \subseteq flows, Remove(gone), SameFlows
    PROVE  flows' = flows \ gone /\ Counted'
<1>1. TypeOK /\ CountsMatchFlows /\ StoreBounded /\ ChargedToOrigin /\ flows \subseteq DOMAIN flow
    BY DEF StoreInv, StoreIsConsistent, TypeOK
<1>2. flows' = flows \ gone
      /\ counts' = [p \in Peers |-> counts[p] - Cardinality({f \in gone : flow[f].peer = p})]
    BY DEF Remove
<1>3. ASSUME NEW p \in Peers
      PROVE  /\ counts'[p] \in Nat
             /\ counts'[p] = Cardinality({f \in flows' : flow'[f].peer = p})
             /\ Cardinality({f \in flows' : flow'[f].origin = p}) <= MaxStatesPerIP
  <2>1. PICK H, G : H = Holds(p) /\ G = {f \in gone : flow[f].peer = p}
    OBVIOUS
  <2>2. G \subseteq H /\ IsFiniteSet(H)
    BY <1>1, <2>1, StoreIsFinite DEF Holds
  <2>3. {f \in flows' : flow'[f].peer = p} = H \ G
    BY <1>1, <1>2, <2>1 DEF Holds, SameFlows
  <2>4. {f \in flows' : flow'[f].origin = p} = H \ G
    BY <1>1, <1>2, <2>1 DEF Holds, SameFlows, ChargedToOrigin
  <2>5. /\ Cardinality(H \ G) = Cardinality(H) - Cardinality(G)
        /\ Cardinality(H) \in Nat /\ Cardinality(G) \in Nat /\ Cardinality(H \ G) \in Nat
    BY <2>2, CardinalityOfDifference
  <2>6. counts[p] = Cardinality(H)
    BY <1>1, <2>1 DEF CountsMatchFlows, Holds
  <2>7. Cardinality(H) <= MaxStatesPerIP
    <3>1. {f \in flows : flow[f].origin = p} = H
      BY <1>1, <2>1 DEF Holds, ChargedToOrigin
    <3> QED
      BY <1>1, <3>1 DEF StoreBounded
  <2>8. counts'[p] = counts[p] - Cardinality(G)
    BY <1>2, <2>1
  <2>9. counts'[p] = Cardinality(H \ G)
    BY <2>5, <2>6, <2>8
  <2>10. Cardinality(H \ G) <= MaxStatesPerIP
    BY <2>5, <2>7, LimitsAreNat
  <2> QED
    BY <2>3, <2>4, <2>5, <2>9, <2>10
<1>4. Cardinality(flows') <= MaxStates
  <2>1. IsFiniteSet(flows) /\ Cardinality(flows) <= MaxStates
    BY <1>1, StoreIsFinite DEF StoreBounded
  <2>2. /\ Cardinality(flows \ gone) = Cardinality(flows) - Cardinality(gone)
        /\ Cardinality(flows) \in Nat /\ Cardinality(gone) \in Nat /\ Cardinality(flows \ gone) \in Nat
    BY <2>1, CardinalityOfDifference
  <2> QED
    BY <1>2, <2>1, <2>2, LimitsAreNat
<1>5. counts' \in [Peers -> Nat]
    BY <1>2, <1>3
<1> QED
    BY <1>2, <1>3, <1>4, <1>5 DEF Counted, CountsMatchFlows

(* The store stays as it is.                                               *)
LEMMA CountedKeeps ==
    ASSUME StoreInv, UNCHANGED <<flows, counts>>, SameFlows
    PROVE  Counted'
<1>1. TypeOK /\ CountsMatchFlows /\ StoreBounded /\ flows \subseteq DOMAIN flow
    BY DEF StoreInv, StoreIsConsistent, TypeOK
<1>2. ASSUME NEW p \in Peers
      PROVE  /\ {f \in flows : flow'[f].peer = p} = {f \in flows : flow[f].peer = p}
             /\ {f \in flows : flow'[f].origin = p} = {f \in flows : flow[f].origin = p}
    BY <1>1 DEF SameFlows
<1> QED
    BY <1>1, <1>2 DEF Counted, CountsMatchFlows, StoreBounded, TypeOK

(* One flow changes, not what it is charged to.                            *)
Changes(f, row) == flow' = [flow EXCEPT ![f] = row]

LEMMA ChangeKeeps ==
    ASSUME StoreInv, NEW f \in DOMAIN flow, NEW row \in Flows, Changes(f, row),
           row.peer = flow[f].peer, row.origin = flow[f].origin, row.at = flow[f].at,
           now' = now, flows' \subseteq flows,
           f \in flows' => ~row.taken /\ row.sessions = 0,
           row.taken => row.sessions = 0, row.sessions <= 1
    PROVE  flow' \in Seq(Flows) /\ SameFlows /\ ChargedToOrigin' /\ FlowsAreFresh'
<1>1. flow \in Seq(Flows) /\ DOMAIN flow = 1..Len(flow)
    BY DEF StoreInv, StoreIsConsistent, TypeOK
<1>2. /\ flow' \in Seq(Flows) /\ Len(flow') = Len(flow)
      /\ \A g \in 1..Len(flow) : flow'[g] = IF g = f THEN row ELSE flow[g]
    BY <1>1, ExceptSeq DEF Changes
<1>3. DOMAIN flow' = DOMAIN flow
    BY <1>1, <1>2
<1>4. SameFlows
    BY <1>1, <1>2, <1>3 DEF SameFlows
<1>5. ChargedToOrigin'
    BY <1>3, <1>4 DEF SameFlows, ChargedToOrigin, StoreInv
<1>6. FlowsAreFresh'
  <2> SUFFICES ASSUME NEW g \in DOMAIN flow
               PROVE  /\ g \in flows' => ~flow'[g].taken /\ flow'[g].sessions = 0
                      /\ flow'[g].taken => flow'[g].sessions = 0
                      /\ flow'[g].sessions <= 1
    BY <1>3 DEF FlowsAreFresh
  <2>1. CASE g = f
    BY <1>1, <1>2, <2>1
  <2>2. CASE g # f
    BY <1>1, <1>2, <2>2 DEF StoreInv, FlowsAreFresh
  <2> QED
    BY <2>1, <2>2
<1> QED
    BY <1>2, <1>4, <1>5, <1>6

LEMMA FlowIsRow ==
    ASSUME StoreInv, NEW f \in DOMAIN flow
    PROVE  /\ flow[f] \in Flows
           /\ flow[f].peer \in Peers /\ flow[f].origin \in Peers /\ flow[f].at \in Nat
           /\ flow[f].taken \in BOOLEAN /\ flow[f].sessions \in Nat
<1>1. flow[f] \in Flows
    BY DEF StoreInv, StoreIsConsistent, TypeOK
<1> QED
    BY <1>1 DEF Flows

(* Handlers that leave the timer and the buckets alone.                    *)
LEMMA HandlerKeeps ==
    ASSUME StoreInv, UNCHANGED <<now, clients, global, timer>>, discovered' \in BOOLEAN,
           flow' \in Seq(Flows), SameFlows, ChargedToOrigin', FlowsAreFresh',
           flows' \subseteq flows, Counted'
    PROVE  StoreInv'
<1>1. TypeOK /\ StoreBounded /\ SweepIsScheduled /\ BucketsArePast /\ TimerIsSoon
    BY DEF StoreInv, StoreIsConsistent
<1>2. TypeOK'
    BY <1>1 DEF TypeOK, Counted, SameFlows
<1>3. StoreBounded' /\ CountsMatchFlows'
    BY <1>1 DEF StoreBounded, Counted
<1>4. SweepIsScheduled'
    BY <1>1 DEF SweepIsScheduled
<1>5. BucketsArePast' /\ TimerIsSoon'
    BY <1>1 DEF BucketsArePast, TimerIsSoon
<1> QED
    BY <1>2, <1>3, <1>4, <1>5 DEF StoreInv, StoreIsConsistent

LEMMA LoginRedirectsKeeps ==
    ASSUME StoreInv, NEW f \in DOMAIN flow, LoginRedirects(f)
    PROVE  StoreInv' /\ SameFlows
<1>1. PICK row : row = [flow[f] EXCEPT !.stage = "redirected"]
    OBVIOUS
<1>2. /\ row \in Flows /\ row.peer = flow[f].peer /\ row.origin = flow[f].origin /\ row.at = flow[f].at
      /\ row.taken = flow[f].taken /\ row.sessions = flow[f].sessions
    BY <1>1, FlowIsRow DEF Flows
<1>3. Changes(f, row) /\ UNCHANGED <<now, store>> /\ discovered' \in BOOLEAN
    BY <1>1 DEF LoginRedirects, Changes
<1>4. flow' \in Seq(Flows) /\ SameFlows /\ ChargedToOrigin' /\ FlowsAreFresh'
    BY <1>2, <1>3, ChangeKeeps DEF store, StoreInv, FlowsAreFresh
<1>5. Counted'
    BY <1>3, <1>4, CountedKeeps DEF store
<1> QED
    BY <1>3, <1>4, <1>5, HandlerKeeps DEF store

LEMMA LoginUnavailableKeeps ==
    ASSUME StoreInv, NEW f \in DOMAIN flow, LoginUnavailable(f)
    PROVE  StoreInv' /\ SameFlows
<1>1. PICK row : row = [flow[f] EXCEPT !.stage = "failed"]
    OBVIOUS
<1>2. /\ row \in Flows /\ row.peer = flow[f].peer /\ row.origin = flow[f].origin /\ row.at = flow[f].at
      /\ row.taken = flow[f].taken /\ row.sessions = flow[f].sessions
    BY <1>1, FlowIsRow DEF Flows
<1>3. /\ Changes(f, row) /\ UNCHANGED <<now, clients, global, timer>> /\ discovered' \in BOOLEAN
      /\ Remove({f} \cap flows) /\ flows' \subseteq flows
    BY <1>1 DEF LoginUnavailable, Changes, Remove, StoreInv, StoreIsConsistent, TypeOK
<1>4. flow' \in Seq(Flows) /\ SameFlows /\ ChargedToOrigin' /\ FlowsAreFresh'
    BY <1>2, <1>3, ChangeKeeps DEF StoreInv, FlowsAreFresh
<1>5. Counted'
    BY <1>3, <1>4, RemoveKeeps
<1> QED
    BY <1>3, <1>4, <1>5, HandlerKeeps

LEMMA TakeKeeps ==
    ASSUME StoreInv, NEW f \in DOMAIN flow, Take(f)
    PROVE  StoreInv' /\ SameFlows
<1>1. PICK row : row = [flow[f] EXCEPT !.taken = ~Expired(f)]
    OBVIOUS
<1>2. /\ row \in Flows /\ row.peer = flow[f].peer /\ row.origin = flow[f].origin /\ row.at = flow[f].at
      /\ row.sessions = flow[f].sessions
    BY <1>1, FlowIsRow DEF Flows
<1>3. /\ Changes(f, row) /\ UNCHANGED <<now, clients, global, timer>> /\ discovered' \in BOOLEAN
      /\ Remove({f}) /\ f \in flows /\ flows' = flows \ {f}
    BY <1>1 DEF Take, Changes, Remove, StoreInv, StoreIsConsistent, TypeOK
<1>4. row.sessions = 0
    BY <1>2, <1>3 DEF StoreInv, FlowsAreFresh
<1>5. flow' \in Seq(Flows) /\ SameFlows /\ ChargedToOrigin' /\ FlowsAreFresh'
    BY <1>2, <1>3, <1>4, ChangeKeeps
<1>6. Counted'
    BY <1>3, <1>5, RemoveKeeps
<1> QED
    BY <1>3, <1>5, <1>6, HandlerKeeps

LEMMA CallbackKeeps ==
    ASSUME StoreInv, NEW f \in DOMAIN flow, CallbackRefused(f) \/ CallbackSucceeds(f)
    PROVE  StoreInv' /\ SameFlows
<1>1. flow[f].taken /\ UNCHANGED <<now, store, discovered>>
    BY DEF CallbackRefused, CallbackSucceeds
<1>2. flow[f].sessions = 0 /\ f \notin flows
    BY <1>1 DEF StoreInv, FlowsAreFresh
<1>3. \E row \in Flows :
         /\ Changes(f, row) /\ row.taken = FALSE /\ row.sessions \in {0, 1}
         /\ row.peer = flow[f].peer /\ row.origin = flow[f].origin /\ row.at = flow[f].at
  <2>1. PICK p \in Flows : p = flow[f]
    BY FlowIsRow
  <2>2. CASE CallbackRefused(f)
    <3>1. PICK row : row = [p EXCEPT !.taken = FALSE]
      OBVIOUS
    <3>2. row \in Flows /\ row.peer = p.peer /\ row.origin = p.origin /\ row.at = p.at
          /\ row.taken = FALSE /\ row.sessions = p.sessions
      BY <3>1 DEF Flows
    <3>3. Changes(f, row)
      BY <2>1, <2>2, <3>1 DEF CallbackRefused, Changes
    <3> QED
      BY <1>2, <2>1, <3>2, <3>3
  <2>3. CASE CallbackSucceeds(f)
    <3>1. PICK n : n = p.sessions + 1
      OBVIOUS
    <3>2. n = 1
      BY <1>2, <2>1, <3>1
    <3>3. PICK row : row = [p EXCEPT !.taken = FALSE, !.sessions = n]
      OBVIOUS
    <3>4. row \in Flows /\ row.peer = p.peer /\ row.origin = p.origin /\ row.at = p.at
          /\ row.taken = FALSE /\ row.sessions = n
      BY <3>2, <3>3 DEF Flows
    <3>5. Changes(f, row)
      BY <2>1, <2>3, <3>1, <3>3 DEF CallbackSucceeds, Changes
    <3> QED
      BY <2>1, <3>2, <3>4, <3>5
  <2> QED
    BY <2>2, <2>3
<1>4. PICK row \in Flows :
         /\ Changes(f, row) /\ row.taken = FALSE /\ row.sessions \in {0, 1}
         /\ row.peer = flow[f].peer /\ row.origin = flow[f].origin /\ row.at = flow[f].at
    BY <1>3
<1>5. flow' \in Seq(Flows) /\ SameFlows /\ ChargedToOrigin' /\ FlowsAreFresh'
    BY <1>1, <1>2, <1>4, ChangeKeeps DEF store
<1>6. Counted'
    BY <1>1, <1>5, CountedKeeps DEF store
<1>7. discovered' \in BOOLEAN
    BY <1>1 DEF StoreInv, StoreIsConsistent, TypeOK
<1> QED
    BY <1>1, <1>5, <1>6, <1>7, HandlerKeeps DEF store

LEMMA TickKeeps ==
    ASSUME StoreInv, Tick
    PROVE  StoreInv' /\ SameFlows
<1>1. now' = now + 1 /\ UNCHANGED <<flows, counts, clients, global, timer, flow, discovered>>
    BY DEF Tick, store
<1>2. SameFlows
    BY <1>1 DEF SameFlows
<1>3. TypeOK /\ StoreBounded /\ SweepIsScheduled /\ BucketsArePast /\ TimerIsSoon /\ ChargedToOrigin /\ FlowsAreFresh
    BY DEF StoreInv, StoreIsConsistent
<1>4. now \in Nat /\ now' \in Nat
    BY <1>1, <1>3 DEF TypeOK
<1>5. TypeOK' /\ CountsMatchFlows' /\ StoreBounded' /\ FlowsAreFresh'
    BY <1>1, <1>3, <1>4 DEF TypeOK, StoreInv, StoreIsConsistent, CountsMatchFlows, StoreBounded, FlowsAreFresh
<1>6. SweepIsScheduled' /\ TimerIsSoon'
    BY <1>1, <1>3, <1>4, LimitsAreNat DEF SweepIsScheduled, TimerIsSoon, TypeOK
<1>7. BucketsArePast'
    BY <1>1, <1>3, <1>4 DEF BucketsArePast, TypeOK, Bucket
<1>8. ChargedToOrigin'
    BY <1>1, <1>3, <1>4, FlowIsRow DEF ChargedToOrigin
<1> QED
    BY <1>2, <1>5, <1>6, <1>7, <1>8 DEF StoreInv, StoreIsConsistent

LEMMA SweepKeeps ==
    ASSUME StoreInv, Sweep
    PROVE  StoreInv' /\ SameFlows
<1>1. /\ Remove({f \in flows : Expired(f)})
      /\ clients' = [p \in {q \in DOMAIN clients : ~Idle(q)} |-> clients[p]]
      /\ timer' = IF flows' # {} \/ clients' # <<>> THEN now + SweepInterval ELSE -1
      /\ UNCHANGED <<now, global, flow, discovered>>
    BY DEF Sweep
<1>2. SameFlows
    BY <1>1 DEF SameFlows
<1>3. flows' \subseteq flows /\ Counted'
    BY <1>1, <1>2, RemoveKeeps
<1>4. TypeOK /\ StoreBounded /\ SweepIsScheduled /\ BucketsArePast /\ TimerIsSoon /\ ChargedToOrigin /\ FlowsAreFresh
    BY DEF StoreInv, StoreIsConsistent
<1>5. now \in Nat /\ now + SweepInterval \in Nat
    BY <1>4, LimitsAreNat DEF TypeOK
<1>6. /\ DOMAIN clients' \subseteq DOMAIN clients
      /\ \A p \in DOMAIN clients' : clients'[p] = clients[p]
    BY <1>1
<1>7. TypeOK'
    BY <1>1, <1>3, <1>4, <1>5, <1>6 DEF TypeOK, Counted
<1>8. StoreBounded' /\ CountsMatchFlows'
  <2>1. Cardinality(DOMAIN clients') <= Cardinality(DOMAIN clients) /\ Cardinality(DOMAIN clients') \in Nat
        /\ Cardinality(DOMAIN clients) \in Nat
    BY <1>4, <1>6, StoreIsFinite, FS_Subset, FS_CardinalityType
  <2>2. Cardinality(DOMAIN clients') <= MaxRateClients
    BY <1>4, <2>1, LimitsAreNat DEF StoreBounded
  <2> QED
    BY <1>3, <2>2 DEF Counted, StoreBounded
<1>9. SweepIsScheduled' /\ TimerIsSoon'
    BY <1>1, <1>5, LimitsAreNat DEF SweepIsScheduled, TimerIsSoon
<1>10. BucketsArePast'
    BY <1>1, <1>4, <1>6 DEF BucketsArePast
<1>11. ChargedToOrigin' /\ FlowsAreFresh'
    BY <1>1, <1>3, <1>4 DEF ChargedToOrigin, FlowsAreFresh
<1> QED
    BY <1>2, <1>7, <1>8, <1>9, <1>10, <1>11 DEF StoreInv, StoreIsConsistent

----------------------------------------------------------------------------
(* A flow is reserved *)

LEMMA ProductIsNat == \A m, n \in Nat : m * n \in Nat
OBVIOUS

LEMMA RefillIs ==
    ASSUME NEW bucket \in Bucket, now \in Nat, bucket.at <= now, NEW rate \in Nat, NEW burst \in Nat
    PROVE  /\ Refill(bucket, rate, burst) \in Bucket
           /\ Refill(bucket, rate, burst).at = now /\ Refill(bucket, rate, burst).tokens <= burst
<1>1. bucket.at \in Nat /\ bucket.tokens \in Nat
    BY DEF Bucket
<1>2. PICK gain \in Nat : gain = (now - bucket.at) * rate
  <2>1. now - bucket.at \in Nat
    BY <1>1
  <2> QED
    BY <2>1, ProductIsNat
<1>3. AtMost(burst, bucket.tokens + gain) \in Nat /\ AtMost(burst, bucket.tokens + gain) <= burst
    BY <1>1 DEF AtMost
<1> QED
    BY <1>2, <1>3 DEF Refill, Bucket

LEMMA ClientBucketIs ==
    ASSUME StoreInv, NEW p
    PROVE  /\ ClientBucket(p) \in Bucket /\ ClientBucket(p).tokens \in Nat
           /\ ClientBucket(p).at = now /\ ClientBucket(p).tokens <= LoginBurst
<1>1. now \in Nat
    BY DEF StoreInv, StoreIsConsistent, TypeOK
<1>2. CASE p \in DOMAIN clients
  <2>1. clients[p] \in Bucket /\ clients[p].at <= now
    BY <1>2 DEF StoreInv, StoreIsConsistent, TypeOK, BucketsArePast
  <2>2. PICK b : b = ClientBucket(p)
    OBVIOUS
  <2>3. b \in Bucket /\ b.at = now /\ b.tokens <= LoginBurst
    BY <1>1, <1>2, <2>1, <2>2, RefillIs, LimitsAreNat DEF ClientBucket
  <2> QED
    BY <2>2, <2>3 DEF Bucket
<1>3. CASE p \notin DOMAIN clients
    BY <1>1, <1>3, LimitsAreNat DEF ClientBucket, Bucket
<1> QED
    BY <1>2, <1>3

LEMMA GlobalBucketIs ==
    ASSUME StoreInv, NEW b, b = Refill(global, GlobalRate, GlobalBurst)
    PROVE  b \in Bucket /\ b.tokens \in Nat /\ b.at = now /\ b.tokens <= GlobalBurst
<1>1. now \in Nat /\ global \in Bucket /\ global.at <= now
    BY DEF StoreInv, StoreIsConsistent, TypeOK, BucketsArePast
<1>2. b \in Bucket /\ b.at = now /\ b.tokens <= GlobalBurst
    BY <1>1, RefillIs, LimitsAreNat
<1> QED
    BY <1>2 DEF Bucket

LEMMA SpentIs ==
    ASSUME NEW b \in Bucket, b.tokens >= 1
    PROVE  Spent(b) \in Bucket /\ Spent(b).tokens = b.tokens - 1 /\ Spent(b).at = b.at
<1>1. b.tokens \in Nat /\ b.at \in Nat
    BY DEF Bucket
<1>2. b.tokens - 1 \in Nat
    BY <1>1
<1> QED
    BY <1>2 DEF Spent, Bucket

(* What LoginReserves does, for the client p that it is charged to.        *)
Reserves(p, row) ==
    /\ p \in Peers /\ row \in Flows
    /\ row.peer = p /\ row.origin = p /\ row.at = now /\ ~row.taken /\ row.sessions = 0
    /\ Reserve(p, Len(flow) + 1)
    /\ flow' = Append(flow, row)
    /\ UNCHANGED <<now, discovered>>

LEMMA ReservesIs ==
    ASSUME StoreInv, NEW request \in Arrivals, LoginReserves(request)
    PROVE  \E p, row : Reserves(p, row)
<1>1. ClientIP(request) = request.origin /\ request.origin \in Peers
    BY ArrivalIsCharged
<1>2. PICK p, row : /\ p = request.origin
                    /\ row = [peer |-> p, origin |-> p, at |-> now, stage |-> "login",
                              taken |-> FALSE, sessions |-> 0]
    OBVIOUS
<1>3. now \in Nat
    BY DEF StoreInv, StoreIsConsistent, TypeOK
<1>4. row \in Flows /\ row.peer = p /\ row.origin = p /\ row.at = now /\ ~row.taken /\ row.sessions = 0
    BY <1>1, <1>2, <1>3 DEF Flows
<1>5. Reserve(p, Len(flow) + 1) /\ flow' = Append(flow, row) /\ UNCHANGED <<now, discovered>>
    BY <1>1, <1>2 DEF LoginReserves
<1> QED
    BY <1>1, <1>2, <1>4, <1>5 DEF Reserves

LEMMA ReservedFlows ==
    ASSUME StoreInv, NEW p, NEW row, Reserves(p, row)
    PROVE  /\ flow' \in Seq(Flows) /\ Len(flow) \in Nat
           /\ DOMAIN flow = 1..Len(flow) /\ DOMAIN flow' = DOMAIN flow \cup {Len(flow) + 1}
           /\ Len(flow) + 1 \notin DOMAIN flow
           /\ flow'[Len(flow) + 1] = row /\ \A f \in DOMAIN flow : flow'[f] = flow[f]
<1>1. flow \in Seq(Flows) /\ row \in Flows /\ flow' = Append(flow, row)
    BY DEF StoreInv, StoreIsConsistent, TypeOK, Reserves
<1>2. /\ flow' \in Seq(Flows) /\ Len(flow') = Len(flow) + 1
      /\ (\A f \in 1..Len(flow) : flow'[f] = flow[f]) /\ flow'[Len(flow) + 1] = row
    BY <1>1, AppendProperties
<1>3. DOMAIN flow = 1..Len(flow) /\ Len(flow) \in Nat /\ DOMAIN flow' = 1..(Len(flow) + 1)
    BY <1>1, <1>2
<1> QED
    BY <1>2, <1>3

LEMMA ReserveKeeps ==
    ASSUME StoreInv, NEW p, NEW row, Reserves(p, row)
    PROVE  StoreInv'
<1>1. TypeOK /\ StoreBounded /\ SweepIsScheduled /\ BucketsArePast /\ TimerIsSoon /\ ChargedToOrigin /\ FlowsAreFresh
      /\ CountsMatchFlows
    BY DEF StoreInv, StoreIsConsistent
<1>2. PICK new : new = Len(flow) + 1
    OBVIOUS
<1>3. /\ flow' \in Seq(Flows) /\ DOMAIN flow' = DOMAIN flow \cup {new} /\ new \notin DOMAIN flow
      /\ flow'[new] = row /\ \A f \in DOMAIN flow : flow'[f] = flow[f]
    BY <1>2, ReservedFlows
<1>4. /\ p \in Peers /\ MayReserve(p) /\ UNCHANGED <<now, discovered>>
      /\ global' = Spent(Refill(global, GlobalRate, GlobalBurst))
      /\ clients' = [q \in DOMAIN clients \cup {p} |-> IF q = p THEN Spent(ClientBucket(p)) ELSE clients[q]]
      /\ flows' = flows \cup {new}
      /\ counts' = [counts EXCEPT ![p] = @ + 1]
      /\ timer' = Armed
    BY <1>2 DEF Reserves, Reserve
<1>5. now \in Nat /\ flows \subseteq DOMAIN flow /\ counts \in [Peers -> Nat] /\ new \notin flows
      /\ timer \in Nat \cup {-1}
    BY <1>1, <1>3 DEF TypeOK
<1>6. PICK b : b = Refill(global, GlobalRate, GlobalBurst)
    OBVIOUS
<1>7. global' \in Bucket /\ global'.at = now /\ global'.tokens <= GlobalBurst
  <2>1. b \in Bucket /\ b.tokens \in Nat /\ b.at = now /\ b.tokens <= GlobalBurst
    BY <1>6, GlobalBucketIs
  <2>2. b.tokens >= 1
    BY <1>4, <1>6 DEF MayReserve
  <2> QED
    BY <1>4, <1>6, <2>1, <2>2, SpentIs, LimitsAreNat
<1>8. clients'[p] \in Bucket /\ clients'[p].at = now /\ clients'[p].tokens <= LoginBurst
  <2>1. PICK c \in Bucket : c = ClientBucket(p) /\ c.tokens \in Nat /\ c.at = now /\ c.tokens <= LoginBurst
    BY ClientBucketIs
  <2>2. c.tokens >= 1
    BY <1>4, <2>1 DEF MayReserve
  <2>3. clients'[p] = Spent(c)
    BY <1>4, <2>1
  <2> QED
    BY <2>1, <2>2, <2>3, SpentIs, LimitsAreNat
<1>9. DOMAIN clients' = DOMAIN clients \cup {p} /\ \A q \in DOMAIN clients : q # p => clients'[q] = clients[q]
    BY <1>4
<1>10. \A q \in DOMAIN clients' : clients'[q] \in Bucket
    BY <1>1, <1>8, <1>9 DEF TypeOK
<1>11. Armed \in Nat /\ Armed <= now + SweepInterval
    BY <1>1, <1>4, <1>5, LimitsAreNat DEF Armed, TimerIsSoon
<1>12. counts' \in [Peers -> Nat]
    BY <1>4, <1>5
<1>13. TypeOK'
    BY <1>1, <1>3, <1>4, <1>5, <1>7, <1>9, <1>10, <1>11, <1>12 DEF TypeOK
<1>14. ASSUME NEW q \in Peers
       PROVE  /\ counts'[q] = Cardinality({f \in flows' : flow'[f].peer = q})
              /\ Cardinality({f \in flows' : flow'[f].origin = q}) <= MaxStatesPerIP
  <2>1. PICK H : H = Holds(q)
    OBVIOUS
  <2>2. IsFiniteSet(H) /\ counts[q] = Cardinality(H) /\ new \notin H /\ Cardinality(H) \in Nat
    BY <1>1, <1>5, <2>1, StoreIsFinite, FS_CardinalityType DEF Holds, CountsMatchFlows
  <2>3. {f \in flows : flow[f].origin = q} = H
    BY <1>1, <1>5, <2>1 DEF Holds, ChargedToOrigin
  <2>4. CASE q = p
    <3>1. {f \in flows' : flow'[f].peer = q} = H \cup {new}
      BY <1>3, <1>4, <1>5, <2>1, <2>4 DEF Holds, Reserves
    <3>2. {f \in flows' : flow'[f].origin = q} = H \cup {new}
      BY <1>1, <1>3, <1>4, <1>5, <2>1, <2>4 DEF Holds, Reserves, ChargedToOrigin
    <3>3. Cardinality(H \cup {new}) = Cardinality(H) + 1
      BY <2>2, FS_AddElement
    <3>4. counts'[q] = counts[q] + 1 /\ counts[q] < MaxStatesPerIP
      BY <1>4, <1>5, <2>4 DEF MayReserve
    <3>5. Cardinality(H) + 1 <= MaxStatesPerIP
      BY <2>2, <3>4, LimitsAreNat
    <3> QED
      BY <2>2, <3>1, <3>2, <3>3, <3>4, <3>5
  <2>5. CASE q # p
    <3>1. {f \in flows' : flow'[f].peer = q} = H
      BY <1>3, <1>4, <1>5, <2>1, <2>5 DEF Holds, Reserves
    <3>2. {f \in flows' : flow'[f].origin = q} = H
      BY <1>1, <1>3, <1>4, <1>5, <2>1, <2>5 DEF Holds, Reserves, ChargedToOrigin
    <3>3. counts'[q] = counts[q]
      BY <1>4, <1>5, <2>5
    <3> QED
      BY <1>1, <2>2, <2>3, <3>1, <3>2, <3>3 DEF StoreBounded
  <2> QED
    BY <2>4, <2>5
<1>15. CountsMatchFlows'
    BY <1>14 DEF CountsMatchFlows
<1>16. Cardinality(flows') <= MaxStates
  <2>1. Cardinality(flows \cup {new}) = Cardinality(flows) + 1 /\ Cardinality(flows) \in Nat
    BY <1>1, <1>5, StoreIsFinite, FS_AddElement
  <2> QED
    BY <1>4, <2>1, LimitsAreNat DEF MayReserve
<1>17. Cardinality(DOMAIN clients') <= MaxRateClients
  <2>1. IsFiniteSet(DOMAIN clients) /\ Cardinality(DOMAIN clients) \in Nat
    BY <1>1, StoreIsFinite
  <2>2. Cardinality(DOMAIN clients \cup {p})
            = IF p \in DOMAIN clients THEN Cardinality(DOMAIN clients) ELSE Cardinality(DOMAIN clients) + 1
    BY <2>1, FS_AddElement
  <2>3. Cardinality(DOMAIN clients) <= MaxRateClients
    BY <1>1 DEF StoreBounded
  <2>4. CASE p \in DOMAIN clients
    BY <1>9, <2>2, <2>3, <2>4
  <2>5. CASE p \notin DOMAIN clients
    <3>1. Cardinality(DOMAIN clients) < MaxRateClients
      BY <1>4, <2>5 DEF MayReserve
    <3> QED
      BY <1>9, <2>1, <2>2, <2>5, <3>1, LimitsAreNat
  <2> QED
    BY <2>4, <2>5
<1>18. StoreBounded'
    BY <1>14, <1>16, <1>17 DEF StoreBounded
<1>19. SweepIsScheduled' /\ TimerIsSoon'
    BY <1>4, <1>11 DEF SweepIsScheduled, TimerIsSoon
<1>20. ChargedToOrigin'
    BY <1>1, <1>3, <1>4, <1>5 DEF ChargedToOrigin, Reserves
<1>21. FlowsAreFresh'
    BY <1>1, <1>3, <1>4, <1>5 DEF FlowsAreFresh, Reserves
<1>22. BucketsArePast'
  <2>1. \A q \in DOMAIN clients' : clients'[q].at <= now /\ clients'[q].tokens <= LoginBurst
    BY <1>1, <1>5, <1>8, <1>9 DEF BucketsArePast
  <2>2. global'.at <= now /\ global'.tokens <= GlobalBurst
    BY <1>5, <1>7
  <2> QED
    BY <1>4, <2>1, <2>2 DEF BucketsArePast
<1> QED
    BY <1>13, <1>15, <1>18, <1>19, <1>20, <1>21, <1>22 DEF StoreInv, StoreIsConsistent

----------------------------------------------------------------------------
(* The store under every step *)

LEMMA InitStore == Init => StoreInv
<1> SUFFICES ASSUME Init PROVE StoreInv
    OBVIOUS
<1>1. /\ now = 0 /\ flows = {} /\ counts = [p \in Peers |-> 0] /\ clients = <<>>
      /\ global = [tokens |-> GlobalBurst, at |-> 0] /\ timer = -1 /\ flow = <<>> /\ discovered = FALSE
    BY DEF Init
<1>2. DOMAIN clients = {} /\ DOMAIN flow = {} /\ flow \in Seq(Flows)
    BY <1>1
<1>3. global \in Bucket /\ global.at <= now /\ global.tokens <= GlobalBurst
    BY <1>1, LimitsAreNat DEF Bucket
<1>4. TypeOK
    BY <1>1, <1>2, <1>3 DEF TypeOK
<1>5. \A p \in Peers : {f \in flows : flow[f].peer = p} = {} /\ {f \in flows : flow[f].origin = p} = {}
    BY <1>1
<1>6. CountsMatchFlows /\ StoreBounded
    BY <1>1, <1>2, <1>5, FS_EmptySet, LimitsAreNat DEF CountsMatchFlows, StoreBounded
<1>7. SweepIsScheduled /\ TimerIsSoon
    BY <1>1 DEF SweepIsScheduled, TimerIsSoon
<1> QED
    BY <1>1, <1>2, <1>3, <1>4, <1>6, <1>7
       DEF StoreInv, StoreIsConsistent, ChargedToOrigin, FlowsAreFresh, BucketsArePast

LEMMA StutterKeeps == StoreInv /\ UNCHANGED vars => StoreInv'
BY DEF vars, store, StoreInv, StoreIsConsistent, TypeOK, CountsMatchFlows, StoreBounded, SweepIsScheduled,
       ChargedToOrigin, FlowsAreFresh, BucketsArePast, TimerIsSoon

LEMMA NextStore == StoreInv /\ [Next]_vars => StoreInv'
<1> SUFFICES ASSUME StoreInv, [Next]_vars PROVE StoreInv'
    OBVIOUS
<1>1. CASE Tick
    BY <1>1, TickKeeps
<1>2. CASE Sweep
    BY <1>2, SweepKeeps
<1>3. ASSUME NEW request \in Arrivals, LoginReserves(request) PROVE StoreInv'
    BY <1>3, ReservesIs, ReserveKeeps
<1>4. ASSUME NEW f \in DOMAIN flow, LoginUnavailable(f) PROVE StoreInv'
    BY <1>4, LoginUnavailableKeeps
<1>5. ASSUME NEW f \in DOMAIN flow, LoginRedirects(f) PROVE StoreInv'
    BY <1>5, LoginRedirectsKeeps
<1>6. ASSUME NEW f \in DOMAIN flow, Take(f) PROVE StoreInv'
    BY <1>6, TakeKeeps
<1>7. ASSUME NEW f \in DOMAIN flow, CallbackRefused(f) \/ CallbackSucceeds(f) PROVE StoreInv'
    BY <1>7, CallbackKeeps
<1>8. CASE UNCHANGED vars
    BY <1>8, StutterKeeps
<1> QED
    BY <1>1, <1>2, <1>3, <1>4, <1>5, <1>6, <1>7, <1>8 DEF Next

LEMMA StoreInvariant == Spec => []StoreInv
BY InitStore, NextStore, PTL DEF Spec

(* oidcStateStore under its mutex, with Login, Callback and the sweep in   *)
(* any order: the counts are those of the flows it holds, its limits hold  *)
(* for the clients that really sent the requests, and a sweep is due as    *)
(* long as there is something to expire.                                   *)
THEOREM StoreStaysConsistent == Spec => []StoreIsConsistent
<1>1. StoreInv => StoreIsConsistent
    BY DEF StoreInv
<1> QED
    BY <1>1, StoreInvariant, PTL

(* take removes what it returns: however often a callback is repeated, a   *)
(* login flow ends in one session at most.                                 *)
THEOREM FlowsEndOnce == Spec => []FlowIsUsedOnce
<1>1. StoreInv => FlowIsUsedOnce
    BY DEF StoreInv, FlowsAreFresh, FlowIsUsedOnce
<1> QED
    BY <1>1, StoreInvariant, PTL

----------------------------------------------------------------------------
(* The token buckets *)

LEMMA NextMultiple == \A m, n \in Nat : (m + 1) * n = m * n + n
OBVIOUS

LEMMA NoTime == \A n, m \in Nat : n = m => n - m = 0
OBVIOUS

LEMMA NoMultiple == \A n \in Nat : 0 * n = 0
OBVIOUS

LEMMA MultipleGrows == \A k, m, n \in Nat : k <= m => k * n <= m * n
<1> TAKE k, m, n \in Nat
<1> HAVE k <= m
<1>1. PICK d \in Nat : m = k + d
  <2>1. m - k \in Nat /\ m = k + (m - k)
    OBVIOUS
  <2> QED
    BY <2>1
<1>2. (k + d) * n = k * n + d * n
    OBVIOUS
<1>3. k * n \in Nat /\ d * n \in Nat
    BY ProductIsNat
<1> QED
    BY <1>1, <1>2, <1>3

LEMMA AdmittedIsFinite ==
    ASSUME StoreInv, NEW p, NEW from, NEW to
    PROVE  /\ IsFiniteSet(Admitted(p, from, to)) /\ Cardinality(Admitted(p, from, to)) \in Nat
           /\ IsFiniteSet(AdmittedInAll(from, to)) /\ Cardinality(AdmittedInAll(from, to)) \in Nat
<1>1. IsFiniteSet(DOMAIN flow)
    BY StoreIsFinite DEF StoreInv, StoreIsConsistent
<1>2. Admitted(p, from, to) \subseteq DOMAIN flow /\ AdmittedInAll(from, to) \subseteq DOMAIN flow
    BY DEF Admitted, AdmittedInAll
<1> QED
    BY <1>1, <1>2, FS_Subset, FS_CardinalityType

(* What a rate allows in a number of units of time.                        *)
Allowance(burst, rate, units) == burst + units * rate

LEMMA AllowanceIs ==
    ASSUME NEW burst \in Nat, NEW rate \in Nat, NEW units \in Nat
    PROVE  /\ Allowance(burst, rate, units) \in Nat /\ Allowance(burst, rate, units) >= burst
           /\ Allowance(burst, rate, units + 1) = Allowance(burst, rate, units) + rate
<1>1. PICK gain \in Nat : gain = units * rate
    BY ProductIsNat
<1>2. (units + 1) * rate = gain + rate
    BY <1>1, NextMultiple
<1> QED
    BY <1>1, <1>2 DEF Allowance

(* RateIsLimited and RateHasSlack, a window at a time.                     *)
WithinRate(from, to) ==
    /\ \A p \in Peers : Cardinality(Admitted(p, from, to)) <= Allowance(LoginBurst, LoginRate, to - from)
    /\ Cardinality(AdmittedInAll(from, to)) <= Allowance(GlobalBurst, GlobalRate, to - from)

GlobalTokens == Refill(global, GlobalRate, GlobalBurst).tokens

Slack(from) ==
    /\ \A p \in Peers : Cardinality(Admitted(p, from, now)) + ClientBucket(p).tokens
                            <= Allowance(LoginBurst, LoginRate, now - from)
    /\ Cardinality(AdmittedInAll(from, now)) + GlobalTokens <= Allowance(GlobalBurst, GlobalRate, now - from)

LEMMA RateByWindow ==
    RateInv <=> (\A from, to \in 0..now : from <= to => WithinRate(from, to)) /\ \A from \in 0..now : Slack(from)
<1>1. RateIsLimited <=> \A from, to \in 0..now : from <= to => WithinRate(from, to)
    BY DEF RateIsLimited, WithinRate, Admitted, AdmittedInAll, Allowance
<1>2. RateHasSlack <=> \A from \in 0..now : Slack(from)
    BY DEF RateHasSlack, Slack, GlobalTokens, Allowance
<1> QED
    BY <1>1, <1>2 DEF RateInv

LEMMA TokensAreNat ==
    ASSUME StoreInv
    PROVE  /\ GlobalTokens \in Nat /\ GlobalTokens <= GlobalBurst
           /\ \A p : ClientBucket(p).tokens \in Nat /\ ClientBucket(p).tokens <= LoginBurst
BY ClientBucketIs, GlobalBucketIs DEF GlobalTokens

LEMMA SlackIsWithinRate ==
    ASSUME StoreInv, NEW from \in 0..now, Slack(from)
    PROVE  WithinRate(from, now)
<1>1. now - from \in Nat
    BY DEF StoreInv, StoreIsConsistent, TypeOK
<1>2. ASSUME NEW p \in Peers
      PROVE  Cardinality(Admitted(p, from, now)) <= Allowance(LoginBurst, LoginRate, now - from)
  <2>1. PICK c \in Nat, t \in Nat, a \in Nat :
            /\ c = Cardinality(Admitted(p, from, now)) /\ t = ClientBucket(p).tokens
            /\ a = Allowance(LoginBurst, LoginRate, now - from)
    BY <1>1, AdmittedIsFinite, TokensAreNat, AllowanceIs, LimitsAreNat
  <2>2. c + t <= a
    BY <2>1 DEF Slack
  <2>3. c <= a
    BY <2>2
  <2> QED
    BY <2>1, <2>3
<1>3. Cardinality(AdmittedInAll(from, now)) <= Allowance(GlobalBurst, GlobalRate, now - from)
  <2>1. PICK c \in Nat, t \in Nat, a \in Nat :
            /\ c = Cardinality(AdmittedInAll(from, now)) /\ t = GlobalTokens
            /\ a = Allowance(GlobalBurst, GlobalRate, now - from)
    BY <1>1, AdmittedIsFinite, TokensAreNat, AllowanceIs, LimitsAreNat
  <2>2. c + t <= a
    BY <2>1 DEF Slack
  <2>3. c <= a
    BY <2>2
  <2> QED
    BY <2>1, <2>3
<1> QED
    BY <1>2, <1>3 DEF WithinRate

LEMMA SlackNow == StoreInv => \A from \in 0..now : Slack(from) => WithinRate(from, now)
BY SlackIsWithinRate

(* No flow was let in before the time of the last step.                    *)
PastIsSettled ==
    \A from, to \in 0..now' : to < now' =>
        /\ \A p \in Peers : Admitted(p, from, to)' = Admitted(p, from, to)
        /\ AdmittedInAll(from, to)' = AdmittedInAll(from, to)

(* What is left to show of a step.                                         *)
LEMMA RateFromSlack ==
    ASSUME StoreInv, StoreInv', RateInv, now' \in {now, now + 1}, PastIsSettled,
           \A from \in 0..now' : Slack(from)'
    PROVE  RateInv'
<1>1. now \in Nat /\ now' \in Nat
    BY DEF StoreInv, StoreIsConsistent, TypeOK
<1>2. (StoreInv => \A from \in 0..now : Slack(from) => WithinRate(from, now))'
    BY SlackNow, PTL
<1>3. (RateInv <=> (\A from, to \in 0..now : from <= to => WithinRate(from, to))
                   /\ \A from \in 0..now : Slack(from))'
    BY RateByWindow, PTL
<1>4. ASSUME NEW from \in 0..now', NEW to \in 0..now', from <= to PROVE WithinRate(from, to)'
  <2>1. CASE to = now'
    BY <1>2, <1>4, <2>1
  <2>2. CASE to < now'
    <3>1. from \in 0..now /\ to \in 0..now
      BY <1>1, <1>4, <2>2
    <3>2. WithinRate(from, to)
      BY <1>4, <3>1, RateByWindow
    <3> QED
      BY <2>2, <3>2 DEF PastIsSettled, WithinRate
  <2> QED
    BY <1>1, <2>1, <2>2
<1> QED
    BY <1>3, <1>4

(* A step that reserves nothing and takes no time.                         *)
LEMMA SameFlowsKeepRate ==
    ASSUME StoreInv, StoreInv', RateInv, SameFlows, now' = now,
           \A p \in Peers : ClientBucket(p)'.tokens = ClientBucket(p).tokens,
           GlobalTokens' = GlobalTokens
    PROVE  RateInv'
<1>1. ASSUME NEW from, NEW to
      PROVE  /\ \A p \in Peers : Admitted(p, from, to)' = Admitted(p, from, to)
             /\ AdmittedInAll(from, to)' = AdmittedInAll(from, to)
    BY DEF SameFlows, Admitted, AdmittedInAll
<1>2. PastIsSettled
    BY <1>1 DEF PastIsSettled
<1>3. ASSUME NEW from \in 0..now' PROVE Slack(from)'
  <2>1. Slack(from)
    BY RateByWindow
  <2> QED
    BY <1>1, <2>1 DEF Slack
<1> QED
    BY <1>2, <1>3, RateFromSlack

LEMMA HandlerKeepsRate ==
    ASSUME StoreInv, StoreInv', RateInv, SameFlows, UNCHANGED <<now, clients, global>>
    PROVE  RateInv'
<1>1. \A p \in Peers : ClientBucket(p)'.tokens = ClientBucket(p).tokens
    BY DEF ClientBucket, Refill
<1>2. GlobalTokens' = GlobalTokens
    BY DEF GlobalTokens, Refill
<1> QED
    BY <1>1, <1>2, SameFlowsKeepRate

(* A bucket is forgotten once it is full: a new one starts full.           *)
LEMMA SweepKeepsRate ==
    ASSUME StoreInv, StoreInv', RateInv, Sweep
    PROVE  RateInv'
<1>1. /\ clients' = [p \in {q \in DOMAIN clients : ~Idle(q)} |-> clients[p]]
      /\ UNCHANGED <<now, global>> /\ SameFlows
    BY DEF Sweep, SameFlows
<1>2. now \in Nat
    BY DEF StoreInv, StoreIsConsistent, TypeOK
<1>3. ASSUME NEW p \in Peers PROVE ClientBucket(p)'.tokens = ClientBucket(p).tokens
  <2>1. CASE p \in DOMAIN clients /\ Idle(p)
    <3>1. PICK b \in Bucket : b = clients[p] /\ b.at <= now
      BY <2>1 DEF StoreInv, StoreIsConsistent, TypeOK, BucketsArePast
    <3>2. b.tokens \in Nat /\ b.at \in Nat /\ now >= b.at + SweepInterval
      BY <2>1, <3>1 DEF Bucket, Idle
    <3>3. now - b.at \in Nat /\ SweepInterval <= now - b.at
      BY <1>2, <3>1, <3>2, LimitsAreNat
    <3>4. SweepInterval * LoginRate <= (now - b.at) * LoginRate
      BY <3>3, LimitsAreNat, MultipleGrows
    <3>5. PICK gain \in Nat, full \in Nat :
              gain = (now - b.at) * LoginRate /\ full = SweepInterval * LoginRate
      BY <3>3, LimitsAreNat, ProductIsNat
    <3>6. AtMost(LoginBurst, b.tokens + gain) = LoginBurst
      <4>1. full >= LoginBurst /\ full <= gain
        BY <3>4, <3>5, RefillAssumption
      <4> QED
        BY <3>2, <4>1, LimitsAreNat DEF AtMost
    <3>7. ClientBucket(p).tokens = LoginBurst
      BY <2>1, <3>1, <3>5, <3>6 DEF ClientBucket, Refill
    <3>8. p \notin DOMAIN clients'
      BY <1>1, <2>1
    <3>9. ClientBucket(p)'.tokens = LoginBurst
      BY <3>8 DEF ClientBucket
    <3> QED
      BY <3>7, <3>9
  <2>2. CASE p \in DOMAIN clients /\ ~Idle(p)
    <3>1. p \in DOMAIN clients' /\ clients'[p] = clients[p]
      BY <1>1, <2>2
    <3> QED
      BY <1>1, <2>2, <3>1 DEF ClientBucket, Refill
  <2>3. CASE p \notin DOMAIN clients
    <3>1. p \notin DOMAIN clients'
      BY <1>1, <2>3
    <3> QED
      BY <2>3, <3>1 DEF ClientBucket
  <2> QED
    BY <2>1, <2>2, <2>3
<1>4. GlobalTokens' = GlobalTokens
    BY <1>1 DEF GlobalTokens, Refill
<1> QED
    BY <1>1, <1>3, <1>4, SameFlowsKeepRate

LEMMA TokensBounded ==
    StoreInv => /\ GlobalTokens \in Nat /\ GlobalTokens <= GlobalBurst
                /\ \A p : ClientBucket(p).tokens \in Nat /\ ClientBucket(p).tokens <= LoginBurst
BY TokensAreNat

(* A bucket gains its rate, up to the burst.                               *)
LEMMA RefillGains ==
    ASSUME NEW b \in Bucket, now \in Nat, b.at <= now, NEW rate \in Nat, NEW burst \in Nat, now' = now + 1
    PROVE  AtMost(burst, b.tokens + (now' - b.at) * rate) <= AtMost(burst, b.tokens + (now - b.at) * rate) + rate
<1>1. b.at \in Nat /\ b.tokens \in Nat
    BY DEF Bucket
<1>2. PICK idle \in Nat : idle = now - b.at
    BY <1>1
<1>3. PICK gain \in Nat : gain = idle * rate
    BY ProductIsNat
<1>4. now' - b.at = idle + 1
    BY <1>1, <1>2
<1>5. (now' - b.at) * rate = gain + rate
    BY <1>3, <1>4, NextMultiple
<1>6. AtMost(burst, b.tokens + (gain + rate)) <= AtMost(burst, b.tokens + gain) + rate
    BY <1>1 DEF AtMost
<1> QED
    BY <1>2, <1>3, <1>5, <1>6

LEMMA TickKeepsRate ==
    ASSUME StoreInv, StoreInv', RateInv, Tick
    PROVE  RateInv'
<1>1. now' = now + 1 /\ UNCHANGED <<flow, clients, global>>
    BY DEF Tick, store
<1>2. now \in Nat /\ now' \in Nat /\ global \in Bucket /\ global.at <= now
    BY DEF StoreInv, StoreIsConsistent, TypeOK, BucketsArePast
<1>3. PastIsSettled
    BY <1>1 DEF PastIsSettled, Admitted, AdmittedInAll
<1>4. ASSUME NEW p \in Peers PROVE ClientBucket(p)'.tokens <= ClientBucket(p).tokens + LoginRate
  <2>1. CASE p \in DOMAIN clients
    <3>1. PICK b \in Bucket : b = clients[p] /\ b.at <= now
      BY <2>1 DEF StoreInv, StoreIsConsistent, TypeOK, BucketsArePast
    <3>2. AtMost(LoginBurst, b.tokens + (now' - b.at) * LoginRate)
              <= AtMost(LoginBurst, b.tokens + (now - b.at) * LoginRate) + LoginRate
      BY <1>1, <1>2, <3>1, RefillGains, LimitsAreNat
    <3> QED
      BY <1>1, <2>1, <3>1, <3>2 DEF ClientBucket, Refill
  <2>2. CASE p \notin DOMAIN clients
    BY <1>1, <2>2, LimitsAreNat DEF ClientBucket
  <2> QED
    BY <2>1, <2>2
<1>5. GlobalTokens' <= GlobalTokens + GlobalRate
  <2>1. AtMost(GlobalBurst, global.tokens + (now' - global.at) * GlobalRate)
            <= AtMost(GlobalBurst, global.tokens + (now - global.at) * GlobalRate) + GlobalRate
    BY <1>1, <1>2, RefillGains, LimitsAreNat
  <2> QED
    BY <1>1, <2>1 DEF GlobalTokens, Refill
<1>6. (StoreInv => /\ GlobalTokens \in Nat /\ GlobalTokens <= GlobalBurst
                   /\ \A p : ClientBucket(p).tokens \in Nat /\ ClientBucket(p).tokens <= LoginBurst)'
    BY TokensBounded, PTL
<1>7. ASSUME NEW from \in 0..now' PROVE Slack(from)'
  <2>1. CASE from \in 0..now
    <3>1. PICK units \in Nat : units = now - from /\ now' - from = units + 1
      BY <1>1, <1>2, <2>1
    <3>2. Slack(from)
      BY <2>1, RateByWindow
    <3>3. ASSUME NEW p \in Peers
          PROVE  Cardinality(Admitted(p, from, now))' + ClientBucket(p)'.tokens
                     <= Allowance(LoginBurst, LoginRate, units + 1)
      <4>1. Admitted(p, from, now)' = Admitted(p, from, now)
        BY <1>1, <1>2, <2>1, FlowIsRow DEF Admitted, StoreInv, ChargedToOrigin
      <4>2. PICK c \in Nat, t \in Nat, t1 \in Nat, a \in Nat :
                /\ c = Cardinality(Admitted(p, from, now)) /\ t = ClientBucket(p).tokens
                /\ t1 = ClientBucket(p)'.tokens /\ a = Allowance(LoginBurst, LoginRate, units)
        BY <1>6, AdmittedIsFinite, TokensAreNat, AllowanceIs, LimitsAreNat
      <4>3. c + t <= a /\ t1 <= t + LoginRate
        BY <1>4, <3>1, <3>2, <4>2 DEF Slack
      <4>4. Allowance(LoginBurst, LoginRate, units + 1) = a + LoginRate
        BY <4>2, AllowanceIs, LimitsAreNat
      <4>5. c + t1 <= a + LoginRate
        BY <4>3, LimitsAreNat
      <4> QED
        BY <4>1, <4>2, <4>4, <4>5
    <3>4. Cardinality(AdmittedInAll(from, now))' + GlobalTokens' <= Allowance(GlobalBurst, GlobalRate, units + 1)
      <4>1. AdmittedInAll(from, now)' = AdmittedInAll(from, now)
        BY <1>1, <1>2, <2>1, FlowIsRow DEF AdmittedInAll, StoreInv, ChargedToOrigin
      <4>2. PICK c \in Nat, t \in Nat, t1 \in Nat, a \in Nat :
                /\ c = Cardinality(AdmittedInAll(from, now)) /\ t = GlobalTokens
                /\ t1 = GlobalTokens' /\ a = Allowance(GlobalBurst, GlobalRate, units)
        BY <1>6, AdmittedIsFinite, TokensAreNat, AllowanceIs, LimitsAreNat
      <4>3. c + t <= a /\ t1 <= t + GlobalRate
        BY <1>5, <3>1, <3>2, <4>2 DEF Slack
      <4>4. Allowance(GlobalBurst, GlobalRate, units + 1) = a + GlobalRate
        BY <4>2, AllowanceIs, LimitsAreNat
      <4>5. c + t1 <= a + GlobalRate
        BY <4>3, LimitsAreNat
      <4> QED
        BY <4>1, <4>2, <4>4, <4>5
    <3> QED
      BY <3>1, <3>3, <3>4 DEF Slack
  <2>2. CASE from = now'
    <3>1. \A p \in Peers : Admitted(p, from, now)' = {}
      BY <1>1, <1>2, <2>2, FlowIsRow DEF Admitted, StoreInv, ChargedToOrigin
    <3>2. AdmittedInAll(from, now)' = {}
      BY <1>1, <1>2, <2>2, FlowIsRow DEF AdmittedInAll, StoreInv, ChargedToOrigin
    <3>3. now' - from = 0
      <4>1. now' \in Nat
        BY <1>2
      <4> QED
        BY <2>2, <4>1, NoTime
    <3>4. Allowance(LoginBurst, LoginRate, 0) = LoginBurst /\ Allowance(GlobalBurst, GlobalRate, 0) = GlobalBurst
      BY LimitsAreNat, NoMultiple DEF Allowance
    <3> QED
      BY <1>6, <3>1, <3>2, <3>3, <3>4, FS_EmptySet DEF Slack
  <2> QED
    BY <1>1, <1>2, <2>1, <2>2
<1> QED
    BY <1>1, <1>3, <1>7, RateFromSlack

(* A bucket that was refilled and charged now keeps the rest.              *)
LEMMA SpentRefills ==
    ASSUME now \in Nat, NEW b \in Bucket, b.at = now, b.tokens >= 1, NEW burst \in Nat, b.tokens <= burst,
           NEW rate \in Nat
    PROVE  AtMost(burst, Spent(b).tokens + (now - Spent(b).at) * rate) = b.tokens - 1
<1>1. b.tokens \in Nat
    BY DEF Bucket
<1>2. Spent(b).tokens = b.tokens - 1 /\ Spent(b).at = now
    BY SpentIs
<1>3. now - now = 0
    OBVIOUS
<1>4. (now - Spent(b).at) * rate = 0
    BY <1>2, <1>3, NoMultiple
<1>5. AtMost(burst, (b.tokens - 1) + 0) = b.tokens - 1
    BY <1>1 DEF AtMost
<1> QED
    BY <1>2, <1>4, <1>5

LEMMA ReserveKeepsRate ==
    ASSUME StoreInv, StoreInv', RateInv, NEW p, NEW row, Reserves(p, row)
    PROVE  RateInv'
<1>1. PICK new : new = Len(flow) + 1
    OBVIOUS
<1>2. /\ DOMAIN flow' = DOMAIN flow \cup {new} /\ new \notin DOMAIN flow
      /\ flow'[new] = row /\ \A f \in DOMAIN flow : flow'[f] = flow[f]
    BY <1>1, ReservedFlows
<1>3. /\ p \in Peers /\ row.origin = p /\ row.at = now /\ MayReserve(p) /\ now' = now
      /\ global' = Spent(Refill(global, GlobalRate, GlobalBurst))
      /\ clients' = [q \in DOMAIN clients \cup {p} |-> IF q = p THEN Spent(ClientBucket(p)) ELSE clients[q]]
    BY DEF Reserves, Reserve
<1>4. now \in Nat
    BY DEF StoreInv, StoreIsConsistent, TypeOK
<1>5. PastIsSettled
  <2> SUFFICES ASSUME NEW from \in 0..now, NEW to \in 0..now, to < now
               PROVE  /\ \A q \in Peers : Admitted(q, from, to)' = Admitted(q, from, to)
                      /\ AdmittedInAll(from, to)' = AdmittedInAll(from, to)
    BY <1>3 DEF PastIsSettled
  <2>1. row.at \notin from..to
    BY <1>3, <1>4
  <2> QED
    BY <1>2, <2>1 DEF Admitted, AdmittedInAll
<1>6. ClientBucket(p)'.tokens = ClientBucket(p).tokens - 1
  <2>1. PICK b \in Bucket : b = ClientBucket(p) /\ b.at = now /\ b.tokens <= LoginBurst
    BY ClientBucketIs
  <2>2. b.tokens >= 1
    BY <1>3, <2>1 DEF MayReserve
  <2>3. p \in DOMAIN clients' /\ clients'[p] = Spent(b)
    BY <1>3, <2>1
  <2>4. AtMost(LoginBurst, Spent(b).tokens + (now - Spent(b).at) * LoginRate) = b.tokens - 1
    BY <1>4, <2>1, <2>2, SpentRefills, LimitsAreNat
  <2> QED
    BY <1>3, <2>1, <2>3, <2>4 DEF ClientBucket, Refill
<1>7. ASSUME NEW q \in Peers, q # p PROVE ClientBucket(q)'.tokens = ClientBucket(q).tokens
  <2>1. (q \in DOMAIN clients' <=> q \in DOMAIN clients) /\ (q \in DOMAIN clients => clients'[q] = clients[q])
    BY <1>3, <1>7
  <2> QED
    BY <1>3, <2>1 DEF ClientBucket, Refill
<1>8. GlobalTokens' = GlobalTokens - 1
  <2>1. PICK b : b = Refill(global, GlobalRate, GlobalBurst)
    OBVIOUS
  <2>2. b \in Bucket /\ b.at = now /\ b.tokens <= GlobalBurst
    BY <2>1, GlobalBucketIs
  <2>3. b.tokens >= 1
    BY <1>3, <2>1 DEF MayReserve
  <2>4. AtMost(GlobalBurst, Spent(b).tokens + (now - Spent(b).at) * GlobalRate) = b.tokens - 1
    BY <1>4, <2>2, <2>3, SpentRefills, LimitsAreNat
  <2>5. global' = Spent(b) /\ GlobalTokens = b.tokens
    BY <1>3, <2>1 DEF GlobalTokens
  <2> QED
    BY <1>3, <2>4, <2>5 DEF GlobalTokens, Refill
<1>9. ASSUME NEW from \in 0..now' PROVE Slack(from)'
  <2>1. from \in 0..now /\ row.at \in from..now /\ now - from \in Nat
    BY <1>3, <1>4
  <2>2. Slack(from)
    BY <2>1, RateByWindow
  <2>3. ASSUME NEW q \in Peers
        PROVE  Cardinality(Admitted(q, from, now)') + ClientBucket(q)'.tokens
                   <= Allowance(LoginBurst, LoginRate, now - from)
    <3>1. PICK A : A = Admitted(q, from, now)
      OBVIOUS
    <3>2. IsFiniteSet(A) /\ new \notin A /\ Cardinality(A) \in Nat
      <4>1. new \notin A
        BY <1>2, <3>1 DEF Admitted
      <4> QED
        BY <3>1, <4>1, AdmittedIsFinite
    <3>3. PICK t \in Nat, a \in Nat : t = ClientBucket(q).tokens /\ a = Allowance(LoginBurst, LoginRate, now - from)
      BY <2>1, TokensAreNat, AllowanceIs, LimitsAreNat
    <3>4. Cardinality(A) + t <= a
      BY <2>2, <3>1, <3>3 DEF Slack
    <3>5. CASE q = p
      <4>1. Admitted(q, from, now)' = A \cup {new}
        BY <1>2, <1>3, <2>1, <3>1, <3>5 DEF Admitted
      <4>2. Cardinality(A \cup {new}) = Cardinality(A) + 1
        BY <3>2, FS_AddElement
      <4>3. (Cardinality(A) + 1) + (t - 1) <= a
        BY <3>2, <3>4
      <4> QED
        BY <1>6, <3>3, <3>5, <4>1, <4>2, <4>3
    <3>6. CASE q # p
      <4>1. Admitted(q, from, now)' = A
        BY <1>2, <1>3, <2>1, <3>1, <3>6 DEF Admitted
      <4> QED
        BY <1>7, <3>3, <3>4, <3>6, <4>1
    <3> QED
      BY <3>5, <3>6
  <2>4. Cardinality(AdmittedInAll(from, now)') + GlobalTokens' <= Allowance(GlobalBurst, GlobalRate, now - from)
    <3>1. PICK A : A = AdmittedInAll(from, now)
      OBVIOUS
    <3>2. IsFiniteSet(A) /\ new \notin A /\ Cardinality(A) \in Nat
      BY <1>2, <3>1, AdmittedIsFinite DEF AdmittedInAll
    <3>3. PICK t \in Nat, a \in Nat : t = GlobalTokens /\ a = Allowance(GlobalBurst, GlobalRate, now - from)
      BY <2>1, TokensAreNat, AllowanceIs, LimitsAreNat
    <3>4. Cardinality(A) + t <= a
      BY <2>2, <3>1, <3>3 DEF Slack
    <3>5. AdmittedInAll(from, now)' = A \cup {new}
      BY <1>2, <1>3, <2>1, <3>1 DEF AdmittedInAll
    <3>6. Cardinality(A \cup {new}) = Cardinality(A) + 1
      BY <3>2, FS_AddElement
    <3>7. (Cardinality(A) + 1) + (t - 1) <= a
      BY <3>2, <3>4
    <3> QED
      BY <1>8, <3>3, <3>5, <3>6, <3>7
  <2> QED
    BY <1>3, <2>3, <2>4 DEF Slack
<1> QED
    BY <1>3, <1>5, <1>9, RateFromSlack

LEMMA InitRate == Init => RateInv
<1> SUFFICES ASSUME Init PROVE RateInv
    OBVIOUS
<1>1. now = 0 /\ DOMAIN flow = {} /\ StoreInv
    BY InitStore DEF Init
<1>2. ASSUME NEW from \in 0..now PROVE Slack(from)
  <2>1. now - from = 0
    <3>1. from = now /\ now \in Nat
      BY <1>1
    <3> QED
      BY <3>1, NoTime
  <2>2. Allowance(LoginBurst, LoginRate, 0) = LoginBurst /\ Allowance(GlobalBurst, GlobalRate, 0) = GlobalBurst
    BY LimitsAreNat, NoMultiple DEF Allowance
  <2>3. AdmittedInAll(from, now) = {} /\ \A p \in Peers : Admitted(p, from, now) = {}
    BY <1>1 DEF Admitted, AdmittedInAll
  <2> QED
    BY <1>1, <2>1, <2>2, <2>3, FS_EmptySet, TokensAreNat DEF Slack
<1>3. ASSUME NEW from \in 0..now, NEW to \in 0..now PROVE WithinRate(from, to)
    BY <1>1, <1>2, SlackIsWithinRate
<1> QED
    BY <1>2, <1>3, RateByWindow

LEMMA NextRate == StoreInv /\ StoreInv' /\ RateInv /\ [Next]_vars => RateInv'
<1> SUFFICES ASSUME StoreInv, StoreInv', RateInv, [Next]_vars PROVE RateInv'
    OBVIOUS
<1>1. CASE Tick
    BY <1>1, TickKeepsRate
<1>2. CASE Sweep
    BY <1>2, SweepKeepsRate
<1>3. ASSUME NEW request \in Arrivals, LoginReserves(request) PROVE RateInv'
    BY <1>3, ReservesIs, ReserveKeepsRate
<1>4. ASSUME NEW f \in DOMAIN flow, LoginUnavailable(f) PROVE RateInv'
    BY <1>4, LoginUnavailableKeeps, HandlerKeepsRate DEF LoginUnavailable
<1>5. ASSUME NEW f \in DOMAIN flow, LoginRedirects(f) PROVE RateInv'
    BY <1>5, LoginRedirectsKeeps, HandlerKeepsRate DEF LoginRedirects, store
<1>6. ASSUME NEW f \in DOMAIN flow, Take(f) PROVE RateInv'
    BY <1>6, TakeKeeps, HandlerKeepsRate DEF Take
<1>7. ASSUME NEW f \in DOMAIN flow, CallbackRefused(f) \/ CallbackSucceeds(f) PROVE RateInv'
    BY <1>7, CallbackKeeps, HandlerKeepsRate DEF CallbackRefused, CallbackSucceeds, store
<1>8. CASE UNCHANGED vars
  <2>1. SameFlows /\ UNCHANGED <<now, clients, global>>
    BY <1>8 DEF vars, store, SameFlows
  <2> QED
    BY <2>1, HandlerKeepsRate
<1> QED
    BY <1>1, <1>2, <1>3, <1>4, <1>5, <1>6, <1>7, <1>8 DEF Next

(* reserve refills the buckets by the time since it last did and the sweep *)
(* forgets idle ones: in any window of time a client, and all of them, get *)
(* no more logins than the burst and the rate allow.                       *)
THEOREM LoginsAreLimited == Spec => []RateIsLimited
<1>1. RateInv => RateIsLimited
    BY DEF RateInv
<1> QED
    BY <1>1, StoreInvariant, InitRate, NextRate, PTL DEF Spec

=============================================================================
