------------------------------ MODULE Routing ------------------------------
(***************************************************************************)
(* Where a tool call goes: the choice of a target and its cache in         *)
(* core/services/tool_router_service.py, the table of sockets of           *)
(* gateway/endpoint_ws.py that says who is connected, the frames of        *)
(* gateway/endpoint_frame_handlers.py that register an endpoint and its    *)
(* capabilities, and the read loop of gateway/routes/endpoint.py.  There   *)
(* is one tool, and no endpoint of an external provider.                   *)
(*                                                                         *)
(* A handler runs to its end without giving way, up to the frame it sends  *)
(* last: the services do not await, and the lock of the socket table is    *)
(* never held across an await.  A call is one step up to its transport;    *)
(* what happens to the request is ToolCall's.                              *)
(***************************************************************************)
EXTENDS Memberships

CONSTANTS
    Sockets,
    Keys,           \* the calls made: workspace, requested endpoint, offline policy
                    \* (queue), confirmed (ok)
    Strict,         \* Strict[w]: endpoints of a strict preference, {} without one
    none

ASSUME RoutingAssumption ==
    /\ \A k \in Keys : /\ k.ws \in Workspaces
                       /\ k.ask \in Endpoints \cup {none}
                       /\ k.queue \in BOOLEAN /\ k.ok \in BOOLEAN
    /\ Strict \in [Workspaces -> SUBSET Endpoints]
    /\ none \notin Endpoints

VARIABLES
    at,             \* at[s]: "new", "open" while its read loop runs, then "closed"
    dead,           \* sockets whose peer is gone: a send to them may fail
    bound,          \* bound[s]: _connection_meta[s]["endpoint_ids"]
    named,          \* named[s]: endpoint_ids in the state of the read loop
    cap,            \* cap[e]: the tool is enabled, enabled on confirmation, or not
    allowed,        \* workspaces whose policy allows the tool
    cache,          \* cache[k]: _resolution_cache, with the number of operator steps
    result,         \* result[k]: what the last call of k came to
    rebound         \* history: endpoints that a later hello of their socket left out

sockets == <<at, dead, bound, named, rebound>>
routing == <<membership, sockets, cap, allowed, cache, result>>

Capabilities == {"none", "open", "confirm"}
Empty == [to |-> none, cap |-> "none", era |-> 0]
Results == {"none", "refused", "unconfirmed", "sent", "waiting", "unavailable"}

RoutingTypeOK ==
    /\ MembershipTypeOK
    /\ at \in [Sockets -> {"new", "open", "closed"}]
    /\ dead \subseteq Sockets
    /\ bound \in [Sockets -> SUBSET Endpoints]
    /\ named \in [Sockets -> SUBSET Endpoints]
    /\ cap \in [Endpoints -> Capabilities]
    /\ allowed \subseteq Workspaces
    /\ cache \in [Keys -> [to : Endpoints \cup {none}, cap : Capabilities,
                           era : 0..MaxManaged]]
    /\ result \in [Keys -> Results]
    /\ rebound \subseteq Endpoints

RoutingInit ==
    /\ MembershipInit
    /\ at = [s \in Sockets |-> "new"]
    /\ dead = {}
    /\ bound = [s \in Sockets |-> {}]
    /\ named = [s \in Sockets |-> {}]
    /\ cap = [e \in Endpoints |-> "none"]
    /\ allowed = Workspaces
    /\ cache = [k \in Keys |-> Empty]
    /\ result = [k \in Keys |-> "none"]
    /\ rebound = {}

-----------------------------------------------------------------------------
(* The cache.                                                              *)

\* invalidate_cache for each of the endpoints es.
Invalidated(es) ==
    [k \in Keys |-> IF {k.ask, cache[k].to} \cap es # {} THEN Empty ELSE cache[k]]

\* Bug: the time of an entry is not looked at.
ExpireNever(k) ==
    /\ cache[k] # Empty
    /\ FALSE
    /\ UNCHANGED routing

\* The entry's five seconds pass.
Expire(k) ==
    /\ cache[k] # Empty
    /\ cache' = [cache EXCEPT ![k] = Empty]
    /\ UNCHANGED <<membership, sockets, cap, allowed, result>>

-----------------------------------------------------------------------------
(* Choice of a target.                                                     *)

Connected == UNION {bound[s] : s \in Sockets}

Capable == {e \in Endpoints \cap known : cap[e] # "none"}

\* _score_endpoint_candidate without a reason to reject; who scores best among
\* the candidates is left open.
Accepted(k) ==
    {e \in Capable :
        /\ k.queue \/ e \in Connected
        /\ scope[e] = <<>> \/ k.ws \in ToSet(scope[e])
        /\ Strict[k.ws] = {} \/ e \in Strict[k.ws]
        /\ cap[e] = "open" \/ k.ok}

\* _resolve_execution_target_uncached: the targets it may return, none on an error.
Targets(k) ==
    IF k.ws \notin allowed THEN {}
    ELSE IF k.ask # none
    THEN {e \in {k.ask} \cap Capable : k.queue \/ e \in Connected}
    ELSE IF Accepted(k) = {} /\ k.queue THEN Capable
    ELSE Accepted(k)

SocketsOf(e) == {s \in Sockets : e \in bound[s]}

\* _dispatch_target with target e and its capability c, up to the transport; the
\* sends to the sockets of failing raise, and those sockets are forgotten.
Dispatch(k, e, c, failing) ==
    IF c = "confirm" /\ ~k.ok
    THEN /\ result' = [result EXCEPT ![k] = "unconfirmed"]
         /\ UNCHANGED bound
    ELSE /\ bound' = [s \in Sockets |-> IF s \in failing THEN {} ELSE bound[s]]
         /\ result' = [result EXCEPT ![k] =
                          IF SocketsOf(e) \ failing # {} THEN "sent"
                          ELSE IF k.queue THEN "waiting" ELSE "unavailable"]

\* route_tool_call: a cached target is used as it is, and kept when it fails.
Call(k) ==
    /\ \/ /\ cache[k] # Empty
          /\ \E failing \in SUBSET (dead \cap SocketsOf(cache[k].to)) :
                Dispatch(k, cache[k].to, cache[k].cap, failing)
          /\ UNCHANGED cache
       \/ /\ cache[k] = Empty
          /\ \E e \in Targets(k) :
                /\ cache' = [cache EXCEPT ![k] =
                                [to |-> e, cap |-> cap[e], era |-> managed]]
                /\ \E failing \in SUBSET (dead \cap SocketsOf(e)) :
                      Dispatch(k, e, cap[e], failing)
       \/ /\ cache[k] = Empty
          /\ Targets(k) = {}
          /\ result' = [result EXCEPT ![k] = "refused"]
          /\ UNCHANGED <<cache, bound>>
    /\ UNCHANGED <<membership, at, dead, named, rebound, cap, allowed>>

-----------------------------------------------------------------------------
(* Endpoints.                                                              *)

AcceptSocket(s) ==
    /\ at[s] = "new"
    /\ at' = [at EXCEPT ![s] = "open"]
    /\ UNCHANGED <<membership, dead, bound, named, rebound, cap, allowed, cache, result>>

\* endpoint.hello: the endpoints of the socket become es, whatever they were.  A
\* peer that is gone may have said one that is still to be read.
Hello(s, es, declared) ==
    /\ at[s] = "open"
    /\ s \in dead => named[s] = {}
    /\ Seed(es, declared)
    /\ bound' = [bound EXCEPT ![s] = es]
    /\ named' = [named EXCEPT ![s] = es]
    /\ rebound' = (rebound \cup bound[s] \cup named[s]) \ es
    /\ cache' = Invalidated(es)
    /\ UNCHANGED <<at, dead, cap, allowed, result>>

\* endpoint.capabilities.snapshot: a tool that is missing is disabled.
CapabilitySnapshot(s, e, c) ==
    /\ at[s] = "open"
    /\ e \in known
    /\ cap' = [cap EXCEPT ![e] = c]
    /\ cache' = Invalidated({e})
    /\ UNCHANGED <<membership, sockets, allowed, result>>

\* endpoint.ready and endpoint.heartbeat: the status is not looked at while the
\* router knows who is connected.
Lifecycle(s, e) ==
    /\ at[s] = "open"
    /\ e \in known
    /\ cache' = Invalidated({e})
    /\ UNCHANGED <<membership, sockets, cap, allowed, result>>

\* The peer goes away; the read loop has not noticed.
Dies(s) ==
    /\ at[s] = "open"
    /\ dead' = dead \cup {s}
    /\ UNCHANGED <<membership, at, bound, named, rebound, cap, allowed, cache, result>>

\* _send_many: any other frame to the socket fails.
SendManyFails(s) ==
    /\ s \in dead /\ bound[s] # {}
    /\ bound' = [bound EXCEPT ![s] = {}]
    /\ UNCHANGED <<membership, at, dead, named, rebound, cap, allowed, cache, result>>

\* Bug: only the table is looked at.
LoopEndsForgotten(s) ==
    /\ at[s] = "open"
    /\ at' = [at EXCEPT ![s] = "closed"]
    /\ dead' = dead \ {s}
    /\ bound' = [bound EXCEPT ![s] = {}]
    /\ named' = [named EXCEPT ![s] = {}]
    /\ cache' = Invalidated(bound[s])
    /\ UNCHANGED <<membership, rebound, cap, allowed, result>>

\* The read loop ends, after a goodbye too; the endpoints are those of the table
\* or, when the socket was forgotten, those of the loop's state.
LoopEnds(s) ==
    /\ at[s] = "open"
    /\ at' = [at EXCEPT ![s] = "closed"]
    /\ dead' = dead \ {s}
    /\ bound' = [bound EXCEPT ![s] = {}]
    /\ named' = [named EXCEPT ![s] = {}]
    /\ cache' = Invalidated(IF bound[s] # {} THEN bound[s] ELSE named[s])
    /\ UNCHANGED <<membership, rebound, cap, allowed, result>>

-----------------------------------------------------------------------------
(* The operator: memberships and workspaces, and the tool policy of one;   *)
(* none of it reaches the cache.                                           *)

SetPolicy(w) ==
    /\ managed < MaxManaged
    /\ allowed' = IF w \in allowed THEN allowed \ {w} ELSE allowed \cup {w}
    /\ managed' = managed + 1
    /\ UNCHANGED <<known, rows, scope, archived, sockets, cap, cache, result>>

Manages ==
    \/ Operate /\ UNCHANGED <<sockets, cap, allowed, cache, result>>
    \/ \E w \in Workspaces : SetPolicy(w)

RoutingNext ==
    \/ \E s \in Sockets :
        \/ AcceptSocket(s) \/ Dies(s) \/ SendManyFails(s) \/ LoopEnds(s)
        \/ \E es \in SUBSET Endpoints \ {{}}, declared \in Declared : Hello(s, es, declared)
        \/ \E e \in Endpoints :
              \/ \E c \in Capabilities : CapabilitySnapshot(s, e, c)
              \/ Lifecycle(s, e)
    \/ \E k \in Keys : Call(k) \/ Expire(k)
    \/ Manages

RoutingSpec == RoutingInit /\ [][RoutingNext]_routing

\* A caller that tries again, and time.
RoutingFairness == \A k \in Keys : WF_routing(Call(k)) /\ WF_routing(Expire(k))

RoutingFairSpec == RoutingSpec /\ RoutingFairness

-----------------------------------------------------------------------------
(* Properties.                                                             *)

\* Endpoints that lost a socket which the cache has not heard of: a send failed
\* and the read loop goes on, or the socket said hello again without them.
Unnoticed ==
    rebound \cup UNION {named[s] : s \in {s \in Sockets : at[s] = "open" /\ bound[s] = {}}}

\* What resolving again would accept.
Acceptable(k) == IF k.queue /\ k.ask = none /\ k.ws \in allowed THEN Capable ELSE Targets(k)

\* A cached target is as good as a new resolution: its capability is the current
\* one, so a call that the endpoint wants confirmed is never sent without, and
\* it is connected, capable and in scope, unless an operator changed something
\* since or the loss of its socket has not been noticed.  The type comes first.
RoutesAreCurrent ==
    /\ RoutingTypeOK
    /\ \A k \in Keys : cache[k] # Empty =>
        /\ cache[k].cap = cap[cache[k].to]
        /\ cache[k].era = managed
              => cache[k].to \in Acceptable(k) \/ cache[k].to \in Unnoticed

\* Some endpoint that k may use has a socket whose peer is there.
Reachable(k) ==
    \E e \in Targets(k) : SocketsOf(e) \ dead # {} /\ (cap[e] = "open" \/ k.ok)

\* A caller that keeps trying reaches an endpoint in the end when there is one to
\* reach: a target that was lost does not stay in the cache for ever, although a
\* failed call leaves it there.
RouteRecovers ==
    \A k \in Keys : <>[]Reachable(k) => []<>(result[k] = "sent")
=============================================================================
