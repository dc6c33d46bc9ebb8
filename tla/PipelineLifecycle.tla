------------------------- MODULE PipelineLifecycle -------------------------
(***************************************************************************)
(* Client-disconnect detection: the data-plane tunnel                      *)
(* (handler/server.go serveDataTunnel), the lease store it counts in       *)
(* (service/session.go), and service/pipeline_lifecycle.go, which fails    *)
(* the trace of a closed tunnel either at once, after a grace timer, or    *)
(* from the staleness sweep.                                               *)
(*                                                                         *)
(* A supervisor pod keeps its own lease store: a registration or a touch   *)
(* that goes through Raft reaches every pod at once, or, when its leader   *)
(* fails under it, later or never; the in-flight count is local.           *)
(* Trace rows are in the replicated store (module MetaFSM); only the       *)
(* leader's write succeeds, and the code ignores the error of a failed     *)
(* one.  Clients reach the leader only: a follower relays their bytes.     *)
(* The status "running" stands for the empty one of a fresh row as well:   *)
(* all the code asks of either is that it is not terminal.                 *)
(*                                                                         *)
(* Each lock region, channel operation or Raft apply is one action, so     *)
(* other goroutines and pods run between any two of them.  A tunnel is     *)
(* one connection; a reconnect is another element of Tunnels.              *)
(***************************************************************************)
EXTENDS Naturals, FiniteSets

CONSTANTS
    Pods,           \* supervisor replicas
    Certs,          \* client certificates (lease keys), minted once each
    Traces, Tunnels,
    TraceOf,        \* the lease's TraceID, Nil for a lease without one
    Grace,          \* disconnect_grace > 0
    SweepEnabled,   \* stale_sweep.enabled
    MaxFaults,      \* bound on restarts and leadership changes together
    Nil

ASSUME LifecycleAssumption ==
    /\ TraceOf \in [Certs -> Traces \cup {Nil}]
    /\ Grace \in BOOLEAN /\ SweepEnabled \in BOOLEAN
    /\ MaxFaults \in Nat
    /\ Nil \notin Traces
    /\ IsFiniteSet(Tunnels)

VARIABLES
    leader,     \* the Raft leader
    faults,     \* restarts and leadership changes so far
    issued,     \* how far the lease of each certificate was registered
    zeroed,     \* history: leases replaced under a tunnel that was counted
    lease,      \* lease[p][c]: the row of pod p's store, Nil when absent
    tunnel,     \* the goroutine serving each connection
    pending,    \* pending[p][t]: generation of the grace timer, 0 for none
    gen,        \* gen[p]: generations handed out
    armed,      \* grace timers running, as <<pod, trace, generation>>
    dispatched, \* callbacks started but not yet past the lock
    firing,     \* <<pod, trace, generation>> past the check, about to mark
    sweep,      \* the stale sweep of each pod
    status,     \* status of the trace row, Nil when there is none
    old         \* traces whose age exceeds stale_after

vars == <<leader, faults, issued, zeroed, lease, tunnel, pending, gen, armed,
          dispatched, firing, sweep, status, old>>
timerVars == <<pending, gen, armed, dispatched, firing>>

Gens     == 0 .. Cardinality(Tunnels)
Timer    == Pods \X Traces \X Gens
Lease    == [inFlight: 0 .. Cardinality(Tunnels), expired: BOOLEAN]
Counted  == {"counted", "dialing", "up", "closing"}
Closing  == {"closing", "decremented", "marking"}
Serving  == {"got", "counted", "dialing", "up"}
Stages   == {"idle", "done"} \cup Serving \cup Closing
Terminal == {"success", "failed"}

(* A lease no pod was asked for, one only the pod that was asked keeps, one *)
(* whose command may still be committed, and one in the Raft log.           *)
Registration == {"no", "local", "pending", "logged"}

NewLease   == [inFlight |-> 0, expired |-> FALSE]
IdleTunnel == [stage |-> "idle", pod |-> Nil, cert |-> Nil, remaining |-> 0]
IdleSweep  == [stage |-> "idle", todo |-> {}, up |-> {}]

(* Every timer, count and cursor stays in its range; in particular the      *)
(* in-flight count of a lease never exceeds the connections there are.      *)
TypeOK ==
    /\ leader \in Pods /\ faults \in 0 .. MaxFaults
    /\ issued \in [Certs -> Registration] /\ zeroed \in SUBSET (Pods \X Certs)
    /\ lease \in [Pods -> [Certs -> Lease \cup {Nil}]]
    /\ tunnel \in [Tunnels -> [stage: Stages, pod: Pods \cup {Nil},
                               cert: Certs \cup {Nil}, remaining: 0 .. Cardinality(Tunnels)]]
    /\ pending \in [Pods -> [Traces -> Gens]] /\ gen \in [Pods -> Gens]
    /\ armed \in SUBSET Timer /\ dispatched \in SUBSET Timer /\ firing \in SUBSET Timer
    /\ sweep \in [Pods -> [stage: {"idle", "listed", "marking"}, todo: SUBSET Traces,
                           up: SUBSET Tunnels]]
    /\ status \in [Traces -> {Nil, "running"} \cup Terminal]
    /\ old \in SUBSET Traces

Init ==
    /\ leader \in Pods /\ faults = 0
    /\ issued = [c \in Certs |-> "no"] /\ zeroed = {}
    /\ lease = [p \in Pods |-> [c \in Certs |-> Nil]]
    /\ tunnel = [n \in Tunnels |-> IdleTunnel]
    /\ pending = [p \in Pods |-> [t \in Traces |-> 0]]
    /\ gen = [p \in Pods |-> 0]
    /\ armed = {} /\ dispatched = {} /\ firing = {}
    /\ sweep = [p \in Pods |-> IdleSweep]
    /\ status = [t \in Traces |-> Nil]
    /\ old = {}

-----------------------------------------------------------------------------
(* The replicated trace row.                                                *)

(* markFailed on pod p: the command is applied when p leads, and changes    *)
(* only a row that is not terminal; every failure is logged and dropped.    *)
MarkFailed(p, t) ==
    status' = IF p = leader /\ status[t] = "running"
              THEN [status EXCEPT ![t] = "failed"] ELSE status

CreateRow(c) ==
    status' = IF TraceOf[c] # Nil /\ status[TraceOf[c]] = Nil
              THEN [status EXCEPT ![TraceOf[c]] = "running"] ELSE status

(* handleEngines after Acquire, when the leader registers the lease through *)
(* Raft and creates the trace row.                                          *)
Provision(c) ==
    /\ issued[c] = "no"
    /\ issued' = [issued EXCEPT ![c] = "logged"]
    /\ lease' = [q \in Pods |-> [lease[q] EXCEPT ![c] = NewLease]]
    /\ CreateRow(c)
    /\ UNCHANGED <<leader, faults, zeroed, tunnel, timerVars, sweep, old>>

(* On a pod that does not lead both writes fail, and the lease is kept in   *)
(* the local store only.                                                    *)
ProvisionElsewhere(p, c) ==
    /\ issued[c] = "no" /\ p # leader
    /\ issued' = [issued EXCEPT ![c] = "local"]
    /\ lease' = [lease EXCEPT ![p][c] = NewLease]
    /\ UNCHANGED <<leader, faults, zeroed, tunnel, timerVars, sweep, status, old>>

(* The leader cannot enqueue the registration, or loses leadership under it *)
(* (and may win it back): the error is answered with a local lease although *)
(* the command may be in the log.                                           *)
ProvisionFails(c) ==
    /\ issued[c] = "no" /\ faults < MaxFaults
    /\ faults' = faults + 1
    /\ leader' \in Pods
    /\ issued' \in {[issued EXCEPT ![c] = "local"], [issued EXCEPT ![c] = "pending"]}
    /\ lease' = [lease EXCEPT ![leader][c] = NewLease]
    /\ IF leader' = leader THEN CreateRow(c) ELSE UNCHANGED status
    /\ UNCHANGED <<zeroed, tunnel, timerVars, sweep, old>>

(* An OTLP batch with a root span: it creates the row or sets its status,   *)
(* and a status that is not terminal never replaces one that is.            *)
Ingest(t, s) ==
    /\ s \in Terminal \/ status[t] = Nil
    /\ status' = [status EXCEPT ![t] = s]
    /\ UNCHANGED <<leader, faults, issued, zeroed, lease, tunnel, timerVars, sweep, old>>

(* The row's started_at passes the sweep's cutoff.                          *)
GrowOld(t) ==
    /\ status[t] # Nil /\ t \notin old
    /\ old' = old \cup {t}
    /\ UNCHANGED <<leader, faults, issued, zeroed, lease, tunnel, timerVars, sweep, status>>

-----------------------------------------------------------------------------
(* The lease store.                                                         *)

(* touchSession on pod p: through Raft to every pod, or to the local store  *)
(* when the apply fails.  A missing lease is ignored.                       *)
Touched(p, c) ==
    [q \in Pods |-> IF (q = p \/ p = leader) /\ lease[q][c] # Nil
                    THEN [lease[q] EXCEPT ![c].expired = FALSE] ELSE lease[q]]

(* LastActivity of the lease falls behind the TTL.  A tunnel that is up     *)
(* touches it every 30 s, on every pod or, when its pod does not lead, on   *)
(* that pod only.                                                           *)
Expire(p, c) ==
    /\ lease[p][c] # Nil /\ ~lease[p][c].expired
    /\ \A n \in Tunnels : tunnel[n].stage = "up" /\ tunnel[n].cert = c
                            => tunnel[n].pod \notin {p, leader}
    /\ lease' = [lease EXCEPT ![p][c].expired = TRUE]
    /\ UNCHANGED <<leader, faults, issued, zeroed, tunnel, timerVars, sweep, status, old>>

(* ReapOrphans drops every expired lease, whatever its in-flight count.     *)
ReapOrphans(p) ==
    /\ \E c \in Certs : lease[p][c] # Nil /\ lease[p][c].expired
    /\ lease' = [lease EXCEPT ![p] =
                   [c \in Certs |-> IF lease[p][c] # Nil /\ lease[p][c].expired
                                    THEN Nil ELSE lease[p][c]]]
    /\ UNCHANGED <<leader, faults, issued, zeroed, tunnel, timerVars, sweep, status, old>>

\* Mutation: the store forgets to count the tunnel.
IncInFlightLost(p, c) == lease

\* Mutation: the tunnel is counted by the caller and by the store.
IncInFlightTwice(p, c) ==
    IF lease[p][c] = Nil THEN lease
    ELSE [lease EXCEPT ![p][c].inFlight = @ + 2]

IncInFlight(p, c) ==
    IF lease[p][c] = Nil THEN lease
    ELSE [lease EXCEPT ![p][c].inFlight = @ + 1]

Remaining(p, c) ==
    IF lease[p][c] = Nil \/ lease[p][c].inFlight = 0 THEN 0 ELSE lease[p][c].inFlight - 1

DecInFlight(p, c) ==
    IF lease[p][c] = Nil THEN lease
    ELSE [lease EXCEPT ![p][c].inFlight = Remaining(p, c)]

(* The connections of a certificate that are between IncInFlight and        *)
(* DecInFlight on pod p.                                                    *)
InFlightOf(p, c) ==
    {n \in Tunnels : tunnel[n].pod = p /\ tunnel[n].cert = c /\ tunnel[n].stage \in Counted}

(* ApplySessionRegistered of a command whose Register had failed: the lease *)
(* it installs replaces the local one, with the count of that.              *)
CommitLate(c) ==
    /\ issued[c] = "pending"
    /\ issued' = [issued EXCEPT ![c] = "logged"]
    /\ lease' = [q \in Pods |-> [lease[q] EXCEPT ![c] = NewLease]]
    /\ zeroed' = zeroed \cup {<<q, c>> : q \in {r \in Pods : InFlightOf(r, c) # {}}}
    /\ UNCHANGED <<leader, faults, tunnel, timerVars, sweep, status, old>>

(* The next leader's log does not have the command.                         *)
DropLate(c) ==
    /\ issued[c] = "pending"
    /\ issued' = [issued EXCEPT ![c] = "local"]
    /\ UNCHANGED <<leader, faults, zeroed, lease, tunnel, timerVars, sweep, status, old>>

-----------------------------------------------------------------------------
(* The tunnel goroutine.                                                    *)

Stage(n, s) == tunnel' = [tunnel EXCEPT ![n].stage = s]

(* sessions.Get: an expired lease is refused even before it is reaped.      *)
TunnelGet(n, c) ==
    /\ tunnel[n].stage = "idle"
    /\ lease[leader][c] # Nil /\ ~lease[leader][c].expired
    /\ tunnel' = [tunnel EXCEPT ![n] = [stage |-> "got", pod |-> leader,
                                        cert |-> c, remaining |-> 0]]
    /\ UNCHANGED <<leader, faults, issued, zeroed, lease, timerVars, sweep, status, old>>

TunnelInc(n) ==
    /\ tunnel[n].stage = "got"
    /\ lease' = IncInFlight(tunnel[n].pod, tunnel[n].cert)
    /\ Stage(n, "counted")
    /\ UNCHANGED <<leader, faults, issued, zeroed, timerVars, sweep, status, old>>

\* Mutation: Stop leaves the entry of the stopped timer in the map.
CancelPendingKeepsEntry(p, t) ==
    /\ armed' = IF Grace /\ t # Nil THEN armed \ {<<p, t, pending[p][t]>>} ELSE armed
    /\ UNCHANGED pending

(* OnTunnelOpen: Stop() takes effect only on a timer that has not fired.    *)
CancelPending(p, t) ==
    /\ armed' = IF Grace /\ t # Nil THEN armed \ {<<p, t, pending[p][t]>>} ELSE armed
    /\ pending' = IF Grace /\ t # Nil THEN [pending EXCEPT ![p][t] = 0] ELSE pending

OnTunnelOpen(n) ==
    /\ tunnel[n].stage = "counted"
    /\ CancelPending(tunnel[n].pod, TraceOf[tunnel[n].cert])
    /\ Stage(n, "dialing")
    /\ UNCHANGED <<leader, faults, issued, zeroed, lease, gen, dispatched, firing, sweep, status, old>>

(* The pinned pod is found and dialled; the lease is touched.               *)
TunnelUp(n) ==
    /\ tunnel[n].stage = "dialing"
    /\ lease' = Touched(tunnel[n].pod, tunnel[n].cert)
    /\ Stage(n, "up")
    /\ UNCHANGED <<leader, faults, issued, zeroed, timerVars, sweep, status, old>>

Heartbeat(n) ==
    /\ tunnel[n].stage = "up"
    /\ lease' = Touched(tunnel[n].pod, tunnel[n].cert)
    /\ UNCHANGED <<leader, faults, issued, zeroed, tunnel, timerVars, sweep, status, old>>

(* The fleet lookup or the dial fails, or one side of the copy ends.        *)
TunnelEnd(n) ==
    /\ tunnel[n].stage \in {"dialing", "up"}
    /\ Stage(n, "closing")
    /\ UNCHANGED <<leader, faults, issued, zeroed, lease, timerVars, sweep, status, old>>

TunnelDec(n) ==
    /\ tunnel[n].stage = "closing"
    /\ tunnel' = [tunnel EXCEPT ![n].stage = "decremented",
                                ![n].remaining = Remaining(tunnel[n].pod, tunnel[n].cert)]
    /\ lease' = DecInFlight(tunnel[n].pod, tunnel[n].cert)
    /\ UNCHANGED <<leader, faults, issued, zeroed, timerVars, sweep, status, old>>

\* Mutation: the in-flight test has the wrong sign, so the last close is ignored.
LastCloseInverted(n) == TraceOf[tunnel[n].cert] # Nil /\ tunnel[n].remaining > 0

LastClose(n) == TraceOf[tunnel[n].cert] # Nil /\ tunnel[n].remaining = 0

(* OnTunnelClosed when there is nothing to do.                              *)
OnTunnelClosedNoop(n) ==
    /\ tunnel[n].stage = "decremented" /\ ~LastClose(n)
    /\ Stage(n, "done")
    /\ UNCHANGED <<leader, faults, issued, zeroed, lease, timerVars, sweep, status, old>>

(* OnTunnelClosed with grace 0: markFailed runs in the closing goroutine.   *)
OnTunnelClosedNow(n) ==
    /\ tunnel[n].stage = "decremented" /\ LastClose(n) /\ ~Grace
    /\ Stage(n, "marking")
    /\ UNCHANGED <<leader, faults, issued, zeroed, lease, timerVars, sweep, status, old>>

CloseMark(n) ==
    /\ tunnel[n].stage = "marking"
    /\ MarkFailed(tunnel[n].pod, TraceOf[tunnel[n].cert])
    /\ Stage(n, "done")
    /\ UNCHANGED <<leader, faults, issued, zeroed, lease, timerVars, sweep, old>>

(* OnTunnelClosed with a grace period: a new generation replaces the timer. *)
OnTunnelClosedGrace(n) ==
    /\ tunnel[n].stage = "decremented" /\ LastClose(n) /\ Grace
    /\ LET p == tunnel[n].pod
           t == TraceOf[tunnel[n].cert]
           g == gen[p] + 1
       IN  /\ gen' = [gen EXCEPT ![p] = g]
           /\ armed' = (armed \ {<<p, t, pending[p][t]>>}) \cup {<<p, t, g>>}
           /\ pending' = [pending EXCEPT ![p][t] = g]
    /\ Stage(n, "done")
    /\ UNCHANGED <<leader, faults, issued, zeroed, lease, dispatched, firing, sweep, status, old>>

-----------------------------------------------------------------------------
(* Grace timers.                                                            *)

(* The runtime starts the callback; Stop() comes too late from here on.     *)
TimerDispatch(m) ==
    /\ m \in armed
    /\ armed' = armed \ {m} /\ dispatched' = dispatched \cup {m}
    /\ UNCHANGED <<leader, faults, issued, zeroed, lease, tunnel, pending, gen, firing,
                   sweep, status, old>>

\* Mutation: the callback does not compare its generation with the pending one.
CurrentUnchecked(m) == pending[m[1]][m[2]] # 0

Current(m) == pending[m[1]][m[2]] = m[3]

(* fireGrace up to the unlock: a callback whose generation is not pending   *)
(* any more returns.                                                        *)
FireGrace(m) ==
    /\ m \in dispatched
    /\ dispatched' = dispatched \ {m}
    /\ IF Current(m)
       THEN /\ pending' = [pending EXCEPT ![m[1]][m[2]] = 0]
            /\ firing' = firing \cup {m}
       ELSE UNCHANGED <<pending, firing>>
    /\ UNCHANGED <<leader, faults, issued, zeroed, lease, tunnel, gen, armed, sweep, status, old>>

(* fireGrace after the unlock.                                              *)
GraceMark(m) ==
    /\ m \in firing
    /\ firing' = firing \ {m}
    /\ MarkFailed(m[1], m[2])
    /\ UNCHANGED <<leader, faults, issued, zeroed, lease, tunnel, pending, gen, armed,
                   dispatched, sweep, old>>

-----------------------------------------------------------------------------
(* RunStaleSweep of pod p: list, read the leases, mark one by one.  up is   *)
(* a history component: the tunnels that were up when the pass began.       *)

SweepList(p) ==
    /\ SweepEnabled /\ sweep[p].stage = "idle"
    /\ sweep' = [sweep EXCEPT ![p] =
         [stage |-> "listed", todo |-> {t \in old : status[t] = "running"},
          up |-> {n \in Tunnels : tunnel[n].stage = "up"}]]
    /\ UNCHANGED <<leader, faults, issued, zeroed, lease, tunnel, timerVars, status, old>>

\* Mutation: the in-flight leases are not consulted.
ActiveTracesNone(p) == {}

\* Mutation: every lease protects its trace, also one without a tunnel.
ActiveTracesAnyLease(p) == {TraceOf[c] : c \in {d \in Certs : lease[p][d] # Nil}}

ActiveTraces(p) ==
    {TraceOf[c] : c \in {d \in Certs : lease[p][d] # Nil /\ lease[p][d].inFlight > 0}}

SweepActive(p) ==
    /\ sweep[p].stage = "listed"
    /\ sweep' = [sweep EXCEPT ![p].stage = "marking", ![p].todo = @ \ ActiveTraces(p)]
    /\ UNCHANGED <<leader, faults, issued, zeroed, lease, tunnel, timerVars, status, old>>

SweepMark(p, t) ==
    /\ sweep[p].stage = "marking" /\ t \in sweep[p].todo
    /\ sweep' = [sweep EXCEPT ![p].todo = @ \ {t}]
    /\ MarkFailed(p, t)
    /\ UNCHANGED <<leader, faults, issued, zeroed, lease, tunnel, timerVars, old>>

SweepDone(p) ==
    /\ sweep[p].stage = "marking" /\ sweep[p].todo = {}
    /\ sweep' = [sweep EXCEPT ![p] = IdleSweep]
    /\ UNCHANGED <<leader, faults, issued, zeroed, lease, tunnel, timerVars, status, old>>

-----------------------------------------------------------------------------
(* Faults.                                                                  *)

LeaderChange(p) ==
    /\ faults < MaxFaults /\ p # leader
    /\ faults' = faults + 1 /\ leader' = p
    /\ UNCHANGED <<issued, zeroed, lease, tunnel, timerVars, sweep, status, old>>

(* Pod p stops (Stop() clears the timers) or crashes, and starts again with *)
(* empty memory.  Leases are not in the FSM snapshot: those in the log      *)
(* since the last snapshot are replayed, the others are gone.               *)
Restart(p) ==
    /\ faults < MaxFaults
    /\ faults' = faults + 1
    /\ leader' \in Pods
    /\ \E kept \in SUBSET {c \in Certs : issued[c] = "logged"} :
          lease' = [lease EXCEPT ![p] = [c \in Certs |-> IF c \in kept THEN NewLease ELSE Nil]]
    /\ zeroed' = {z \in zeroed : z[1] # p}
    /\ tunnel' = [n \in Tunnels |-> IF tunnel[n].stage # "idle" /\ tunnel[n].pod = p
                                    THEN [tunnel[n] EXCEPT !.stage = "done"] ELSE tunnel[n]]
    /\ pending' = [pending EXCEPT ![p] = [t \in Traces |-> 0]]
    /\ gen' = [gen EXCEPT ![p] = 0]
    /\ armed' = {m \in armed : m[1] # p}
    /\ dispatched' = {m \in dispatched : m[1] # p}
    /\ firing' = {m \in firing : m[1] # p}
    /\ sweep' = [sweep EXCEPT ![p] = IdleSweep]
    /\ UNCHANGED <<issued, status, old>>

-----------------------------------------------------------------------------
RegisterStep(c) ==
    \/ Provision(c) \/ ProvisionFails(c) \/ CommitLate(c) \/ DropLate(c)
    \/ \E p \in Pods : ProvisionElsewhere(p, c)

TunnelStep(n) ==
    \/ TunnelInc(n) \/ OnTunnelOpen(n) \/ TunnelDec(n) \/ OnTunnelClosedNoop(n)
    \/ OnTunnelClosedNow(n) \/ CloseMark(n) \/ OnTunnelClosedGrace(n)

TimerStep(m) == TimerDispatch(m) \/ FireGrace(m) \/ GraceMark(m)

SweepStep(p) ==
    SweepList(p) \/ SweepActive(p) \/ (\E t \in Traces : SweepMark(p, t)) \/ SweepDone(p)

Next ==
    \/ \E c \in Certs : RegisterStep(c) \/ (\E p \in Pods : Expire(p, c))
    \/ \E p \in Pods : ReapOrphans(p) \/ SweepStep(p) \/ LeaderChange(p) \/ Restart(p)
    \/ \E t \in Traces :
          (\E s \in {"running"} \cup Terminal : Ingest(t, s)) \/ GrowOld(t)
    \/ \E n \in Tunnels :
          \/ \E c \in Certs : TunnelGet(n, c)
          \/ TunnelStep(n) \/ TunnelUp(n) \/ Heartbeat(n) \/ TunnelEnd(n)
    \/ \E m \in armed \cup dispatched \cup firing : TimerStep(m)

Spec == Init /\ [][Next]_vars

(* Goroutines that can run do, a dial ends one way or the other, timers and *)
(* tickers fire and time passes.  Nothing makes a client disconnect, an     *)
(* OTLP batch arrive or a fault happen.                                     *)
Fairness ==
    /\ \A n \in Tunnels : /\ WF_vars(TunnelStep(n))
                          /\ WF_vars(tunnel[n].stage = "dialing" /\ (TunnelUp(n) \/ TunnelEnd(n)))
    /\ \A m \in Timer : WF_vars(TimerStep(m))
    /\ \A p \in Pods : WF_vars(SweepStep(p))
    /\ \A t \in Traces : WF_vars(GrowOld(t))

FairSpec == Spec /\ Fairness

-----------------------------------------------------------------------------
(* Properties.                                                              *)

(* The in-flight count of a lease is the number of connections that are     *)
(* between IncInFlight and DecInFlight on that pod, through reaping,        *)
(* restarts and log replay, unless a registration that had been answered    *)
(* with an error was committed under one of them: then the count is short,  *)
(* and never too high.  A short count fails a trace whose client is still   *)
(* connected; one that drifted high would keep a dead trace running for     *)
(* ever.                                                                    *)
InFlightExact ==
    \A p \in Pods, c \in Certs :
        lease[p][c] # Nil =>
            /\ lease[p][c].inFlight <= Cardinality(InFlightOf(p, c))
            /\ <<p, c>> \notin zeroed => lease[p][c].inFlight = Cardinality(InFlightOf(p, c))

(* A pending entry always has its own timer, running or already dispatched, *)
(* with the same generation: no entry waits for a callback that was stopped *)
(* or that will find another generation, and no two callbacks match it.     *)
PendingArmed ==
    \A p \in Pods, t \in Traces :
        pending[p][t] # 0 => <<p, t, pending[p][t]>> \in armed \cup dispatched

(* A callback that passes the generation check belongs to the last close of *)
(* its trace: no later close of the same trace has its timer still waiting. *)
FiringIsLatest ==
    [][\A m \in Timer : m \in firing' \ firing
          => \A k \in armed \cup dispatched : k[1] = m[1] /\ k[2] = m[2] => k[3] <= m[3]]_vars

UpTunnel(n, t) == tunnel[n].stage = "up" /\ TraceOf[tunnel[n].cert] = t

(* The tunnels the sweep of pod p must respect: up, with a lease, since     *)
(* before the pass began.                                                   *)
Protected(p, t) ==
    {n \in sweep[p].up : UpTunnel(n, t) /\ lease[p][tunnel[n].cert] # Nil}


(* The part of it that holds: the sweep never fails a trace whose tunnel is *)
(* on the sweeping pod itself, although it lists the traces, reads the      *)
(* counts and writes the rows in separate steps, unless a late registration *)
(* took the tunnel out of the count.                                        *)
SweepSparesLocal ==
    [][\A p \in Pods, t \in Traces :
          SweepMark(p, t) /\ status'[t] # status[t]
             => \A n \in Protected(p, t) :
                   tunnel[n].pod # p \/ <<p, tunnel[n].cert>> \in zeroed]_vars

ServedTrace(t) ==
    \E n \in Tunnels : tunnel[n].stage \in Serving /\ TraceOf[tunnel[n].cert] = t

ClosingTrace(t) ==
    \E n \in Tunnels : /\ tunnel[n].stage = "closing" /\ tunnel[n].pod = leader
                        /\ TraceOf[tunnel[n].cert] = t

(* A disconnect is noticed without the sweep: when a tunnel of a running    *)
(* trace closes on the leader, and as long as none serves the trace and the *)
(* leader neither restarts nor changes, the trace leaves "running", at once *)
(* or after the grace period, in whatever order the goroutines count down,  *)
(* cancel and start timers.                                                 *)
DisconnectResolved ==
    \A t \in Traces, k \in 0 .. MaxFaults :
        ClosingTrace(t) /\ faults = k ~> status[t] # "running" \/ ServedTrace(t) \/ faults # k

(* "Stuck pipelines are no longer stuck" (ADR-019): a running trace that    *)
(* nobody serves leaves "running", although tunnels, timers and leases may  *)
(* be lost in a restart and the close may have been reported to a pod that  *)
(* no longer leads.                                                         *)
RunningResolved ==
    \A t \in Traces : status[t] = "running" ~> status[t] # "running" \/ ServedTrace(t)
=============================================================================
