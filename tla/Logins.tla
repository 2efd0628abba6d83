------------------------------- MODULE Logins -------------------------------
(***************************************************************************)
(* OIDC login (backend/api/auth): the in-memory store of outstanding flows *)
(* with its limits, rate buckets and sweep timer, and the Login and        *)
(* Callback handlers that use it from concurrent requests.  The store is   *)
(* guarded by a mutex: each of its operations is one step.  Between a      *)
(* handler's steps other handlers and the timer run.                       *)
(*                                                                         *)
(* The clock counts in units in which a client's bucket gains LoginRate    *)
(* tokens (7.5 s for one token); tokens are whole.  The state, the browser *)
(* token, the nonce and the PKCE verifier of a flow are its number.  A     *)
(* request without the flow's cookie changes nothing and is left out; the  *)
(* browser that has the cookie may present it any number of times.         *)
(***************************************************************************)
EXTENDS ClientAddress, Integers, FiniteSets

CONSTANTS
    Peers,             \* addresses of clients and proxies
    Arrivals,          \* login requests that may reach the server, by origin
    MaxStates,         \* oidcMaxStates
    MaxStatesPerIP,    \* oidcMaxStatesPerIP
    MaxRateClients,    \* oidcMaxRateClients
    LoginRate, LoginBurst,
    GlobalRate, GlobalBurst,
    SweepInterval,     \* oidcStateSweepInterval, also the idle limit of a bucket
    Lifetime,          \* oidcStateLifetime
    MaxFlows, MaxTime  \* bounds of the model

ASSUME PeerAssumption ==
    /\ IsFiniteSet(Peers) /\ TrustedProxies \subseteq Peers /\ Malformed \notin Peers
    /\ \A a \in Arrivals :
         a.origin \in Peers /\ a.forwarded \in Seq(Peers \cup {Malformed}) /\ RoutedFrom(a.origin, a)
ASSUME LimitsAssumption ==
    {MaxStates, MaxStatesPerIP, MaxRateClients, LoginRate, LoginBurst, GlobalRate, GlobalBurst,
     SweepInterval, Lifetime, MaxFlows, MaxTime} \subseteq Nat \ {0}

(* One idle sweep interval refills a bucket: a minute at 8 tokens a minute.*)
ASSUME RefillAssumption == SweepInterval * LoginRate >= LoginBurst

VARIABLES
    now,
    flows,      \* oidcStateStore.flows: the flow numbers it holds
    counts,     \* oidcStateStore.counts, 0 for a missing entry
    clients,    \* oidcStateStore.clients: buckets of the peers seen lately
    global,     \* oidcStateStore.global
    timer,      \* when the sweep is due, -1 when s.timer is nil
    flow,       \* every flow ever reserved, and how far its requests are
    discovered  \* BrowserAuthenticator.oidc: discovery has succeeded

store == <<flows, counts, clients, global, timer>>
vars == <<now, store, flow, discovered>>

(* stage: Login is between reserve and its answer, the browser has the     *)
(* cookie, or Login failed.  taken: a Callback is past take.  History      *)
(* fields: origin, the client that sent the request, by whatever route;    *)
(* sessions, the session cookies set for the flow.                         *)
Flows == [peer : Peers, origin : Peers, at : Nat, stage : {"login", "redirected", "failed"},
          taken : BOOLEAN, sessions : Nat]

Bucket == [tokens : Nat, at : Nat]

TypeOK ==
    /\ now \in Nat
    /\ flows \subseteq DOMAIN flow
    /\ counts \in [Peers -> Nat]
    /\ DOMAIN clients \subseteq Peers /\ \A p \in DOMAIN clients : clients[p] \in Bucket
    /\ global \in Bucket
    /\ timer \in Nat \cup {-1}
    /\ flow \in Seq(Flows)
    /\ discovered \in BOOLEAN

(* A bucket that was never used has the zero time and counts as full.      *)
Init ==
    /\ now = 0
    /\ flows = {} /\ counts = [p \in Peers |-> 0]
    /\ clients = <<>>
    /\ global = [tokens |-> GlobalBurst, at |-> 0]
    /\ timer = -1
    /\ flow = <<>>
    /\ discovered = FALSE

----------------------------------------------------------------------------
(* oidcStateStore *)

AtMost(n, m) == IF n < m THEN n ELSE m

(* loginBucket.refill                                                      *)
Refill(bucket, rate, burst) ==
    [tokens |-> AtMost(burst, bucket.tokens + (now - bucket.at) * rate), at |-> now]

ClientBucket(p) ==
    IF p \in DOMAIN clients THEN Refill(clients[p], LoginRate, LoginBurst)
    ELSE [tokens |-> LoginBurst, at |-> now]

Spent(bucket) == [bucket EXCEPT !.tokens = @ - 1]

(* The tests of reserve, in its order.                                     *)
MayReserve(p) ==
    /\ Cardinality(flows) < MaxStates
    /\ counts[p] < MaxStatesPerIP
    /\ Refill(global, GlobalRate, GlobalBurst).tokens >= 1
    /\ p \in DOMAIN clients \/ Cardinality(DOMAIN clients) < MaxRateClients
    /\ ClientBucket(p).tokens >= 1

(* if s.timer == nil { s.timer = time.AfterFunc(...) }                     *)
Armed == IF timer = -1 THEN now + SweepInterval ELSE timer

Reserve(p, f) ==
    /\ MayReserve(p)
    /\ global' = Spent(Refill(global, GlobalRate, GlobalBurst))
    /\ clients' = [q \in DOMAIN clients \cup {p} |-> IF q = p THEN Spent(ClientBucket(p)) ELSE clients[q]]
    /\ flows' = flows \cup {f}
    /\ counts' = [counts EXCEPT ![p] = @ + 1]
    /\ timer' = Armed

(* remove, for each flow of a set.                                         *)
Remove(gone) ==
    /\ flows' = flows \ gone
    /\ counts' = [p \in Peers |-> counts[p] - Cardinality({f \in gone : flow[f].peer = p})]

Expired(f) == now >= flow[f].at + Lifetime

(* A plausible bug: a sweep forgets every bucket.                          *)
MutIdleAlways(p) == TRUE

Idle(p) == now >= clients[p].at + SweepInterval

----------------------------------------------------------------------------
(* The timer may fire late, never early.                                   *)
Sweep ==
    /\ timer # -1 /\ now >= timer
    /\ Remove({f \in flows : Expired(f)})
    /\ clients' = [p \in {q \in DOMAIN clients : ~Idle(q)} |-> clients[p]]
    /\ timer' = IF flows' # {} \/ clients' # <<>> THEN now + SweepInterval ELSE -1
    /\ UNCHANGED <<now, global, flow, discovered>>

Tick ==
    /\ now < MaxTime
    /\ now' = now + 1
    /\ UNCHANGED <<store, flow, discovered>>

----------------------------------------------------------------------------
(* Login *)

(* The state is reserved; the handler goes on to oidcClient.               *)
LoginReserves(request) ==
    /\ Len(flow) < MaxFlows
    /\ Reserve(ClientIP(request), Len(flow) + 1)
    /\ flow' = Append(flow, [peer |-> ClientIP(request), origin |-> request.origin, at |-> now,
                             stage |-> "login", taken |-> FALSE, sessions |-> 0])
    /\ UNCHANGED <<now, discovered>>

(* oidcClient: discovery fails, which is tried again by the next request;  *)
(* 503 and the flow is discarded, if it is still there.                    *)
LoginUnavailable(f) ==
    /\ flow[f].stage = "login"
    /\ ~discovered
    /\ flow' = [flow EXCEPT ![f].stage = "failed"]
    /\ Remove({f} \cap flows)
    /\ UNCHANGED <<now, clients, global, timer, discovered>>

(* Or it succeeds once, and the redirect with the flow cookie reaches the  *)
(* browser.                                                                *)
LoginRedirects(f) ==
    /\ flow[f].stage = "login"
    /\ flow' = [flow EXCEPT ![f].stage = "redirected"]
    /\ discovered' = TRUE
    /\ UNCHANGED <<now, store>>

----------------------------------------------------------------------------
(* Callback *)

(* A plausible bug: take looks the flow up and leaves it in the store.     *)
MutTake(f) ==
    /\ flow[f].stage = "redirected"
    /\ f \in flows
    /\ flow' = [flow EXCEPT ![f].taken = ~Expired(f)]
    /\ UNCHANGED <<now, store, discovered>>

(* take: the flow is in the store and the browser presents its cookie.  An *)
(* expired flow is consumed too, and answered with an error.               *)
Take(f) ==
    /\ flow[f].stage = "redirected"
    /\ f \in flows
    /\ Remove({f})
    /\ flow' = [flow EXCEPT ![f].taken = ~Expired(f)]
    /\ UNCHANGED <<now, clients, global, timer, discovered>>

(* Discovery, exchange, ID token, nonce or group check: one fails ...      *)
CallbackRefused(f) ==
    /\ flow[f].taken
    /\ flow' = [flow EXCEPT ![f].taken = FALSE]
    /\ UNCHANGED <<now, store, discovered>>

(* ... or a session cookie is set.                                         *)
CallbackSucceeds(f) ==
    /\ flow[f].taken
    /\ flow' = [flow EXCEPT ![f].taken = FALSE, ![f].sessions = @ + 1]
    /\ UNCHANGED <<now, store, discovered>>

----------------------------------------------------------------------------

Next ==
    \/ Tick \/ Sweep
    \/ \E request \in Arrivals : LoginReserves(request)
    \/ \E f \in DOMAIN flow :
         \/ LoginUnavailable(f) \/ LoginRedirects(f)
         \/ Take(f) \/ CallbackRefused(f) \/ CallbackSucceeds(f)

Spec == Init /\ [][Next]_vars

----------------------------------------------------------------------------
(* Properties *)

(* The per-client count is the number of flows the store holds for that    *)
(* client: reserve, take, discard and sweep never let the two drift apart, *)
(* so that no client is locked out or let through.                         *)
CountsMatchFlows ==
    \A p \in Peers : counts[p] = Cardinality({f \in flows : flow[f].peer = p})

(* The store is bounded: globally, in its rate map, and per client, which  *)
(* is the one that sent the request, whatever it wrote into the headers    *)
(* that a trusted proxy passes on.                                         *)
StoreBounded ==
    /\ Cardinality(flows) <= MaxStates
    /\ \A p \in Peers : Cardinality({f \in flows : flow[f].origin = p}) <= MaxStatesPerIP
    /\ Cardinality(DOMAIN clients) <= MaxRateClients

(* One timer expires abandoned flows and idle buckets: as long as there is *)
(* anything to expire a sweep is due.                                      *)
SweepIsScheduled ==
    flows # {} \/ clients # <<>> => timer # -1 /\ timer <= now + SweepInterval

(* The store stays consistent under every interleaving of Login, Callback  *)
(* and the sweep, slow discovery included.                                 *)
StoreIsConsistent == TypeOK /\ CountsMatchFlows /\ StoreBounded /\ SweepIsScheduled

(* A login flow ends in at most one session.                               *)
FlowIsUsedOnce == \A f \in DOMAIN flow : flow[f].sessions <= 1

(* Token buckets, with idle ones forgotten, still admit at most a burst    *)
(* plus the refill in any window of time, per client and in total.         *)
RateIsLimited ==
    \A from, to \in 0..now : from <= to =>
        LET in == {f \in DOMAIN flow : flow[f].at \in from..to} IN
        /\ \A p \in Peers :
             Cardinality({f \in in : flow[f].origin = p}) <= LoginBurst + (to - from) * LoginRate
        /\ Cardinality(in) <= GlobalBurst + (to - from) * GlobalRate

=============================================================================
