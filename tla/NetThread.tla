------------------------------- MODULE NetThread -------------------------------
(***************************************************************************)
(* The two threads of the rigOsc pack and everything they share.           *)
(*                                                                         *)
(* The SUDE thread runs the application: it edits the PODs, and through    *)
(* update, applyEndpoint, send, sendTo and connectTcp it pushes commands   *)
(* under the mutex Net::mu, knocks (one datagram to the loopback socket    *)
(* Net::wake) and, for an apply, waits on Net::cv for at most two seconds. *)
(* The socket thread runs netLoop: swap the command vector, run the batch, *)
(* drain the sockets, sleep in poll, empty the wake socket.                *)
(*                                                                         *)
(* A section under Net::mu is one step; what the code does between two     *)
(* sections is a step of its own.  What applyOnNet decides about sockets   *)
(* is module Endpoint; here it is any outcome it can report.               *)
(***************************************************************************)
EXTENDS Integers, Sequences

CONSTANTS
    Ports,          \* real UDP ports (0 asks the kernel for one)
    Rest,           \* everything in a NetConfig but listenPort
    Default,        \* NetConfig{}, also the content of fresh PODs
    Normal(_),      \* the PODs after applyEndpoint has clamped TTL and framing
    Data,           \* what a Send or a Connect is about
    MaxOps,         \* bound: calls the application makes
    MaxTimeouts     \* bound: apply calls the socket thread answers too late

Config == [port : Ports \cup {0}, rest : Rest]

ASSUME PortsAssumption == Ports \subseteq Nat \ {0}
ASSUME DefaultAssumption == Default \in Config
ASSUME NormalAssumption ==
    \A c \in Config : /\ Normal(c) \in Config
                      /\ Normal(c).port = c.port
                      /\ Normal(Normal(c)) = Normal(c)
ASSUME BoundAssumption == MaxOps \in Nat /\ MaxTimeouts \in Nat

\* Net::Cmd: every field is there whatever the kind.
Cmd == [kind : {"apply", "send", "connect"}, cfg : Config, token : Nat,
        data : Data \cup {"none"}]
ApplyCmd(c, t) == [kind |-> "apply", cfg |-> c, token |-> t, data |-> "none"]
DataCmd(k, d) == [kind |-> k, cfg |-> Default, token |-> 0, data |-> d]

VARIABLES
    sude,           \* where the SUDE thread is
    pod,            \* the configuration the PODs hold (currentConfig)
    live,           \* m_liveValid, m_liveCfg, m_liveOk
    call,           \* the apply call in progress: its configuration and token
    joinable,       \* m_io->thread.joinable()
    cmds,           \* Net::cmds, under Net::mu
    nextToken,      \* Net::nextToken, under Net::mu
    done,           \* Net::doneToken, doneOk, doneListenPort, doneRewriteListen
    stop,           \* Net::stop
    wake,           \* is a datagram waiting in Net::wake
    hasWake,        \* could startNet bind Net::wake and Net::knock
    net,            \* where the socket thread is
    batch,          \* netLoop's local cmds, the part not yet run
    inForce,        \* the configuration last applied, with the port it reported
    ops,            \* calls made so far (bounded by MaxOps)
    timeouts        \* late answers so far (bounded by MaxTimeouts)

sudeVars == <<pod, live, call, joinable>>
netVars == <<hasWake, net, batch, inForce, done>>
vars == <<sude, pod, live, call, joinable, cmds, nextToken, done, stop, wake,
          hasWake, net, batch, inForce, ops, timeouts>>

Knocking == {"knockApply", "knockCmd", "knockStop"}
InApply == {"knockApply", "await"}

\* Types; a command always carries a clamped or a default configuration, and the
\* port applyOnNet reports is always a real one or the one it was asked for.
TypeOK ==
    /\ sude \in {"idle", "await", "join"} \cup Knocking
    /\ pod \in Config
    /\ live \in [valid : BOOLEAN, cfg : Config, ok : BOOLEAN]
    /\ call \in [cfg : Config, token : Nat]
    /\ joinable \in BOOLEAN
    /\ cmds \in Seq(Cmd)
    /\ nextToken \in Nat \ {0}
    /\ done \in [token : Nat, ok : BOOLEAN, port : Ports \cup {0}, rewrite : BOOLEAN]
    /\ stop \in BOOLEAN
    /\ wake \in BOOLEAN
    /\ hasWake \in BOOLEAN
    /\ net \in {"loop", "swap", "run", "drained", "more", "poll", "dump", "exited"}
    /\ batch \in Seq(Cmd)
    /\ inForce \in Config
    /\ ops \in 0 .. MaxOps
    /\ timeouts \in 0 .. MaxTimeouts

\* The constructor: startNet has made the thread, and the wake socket if it could.
Init ==
    /\ sude = "idle"
    /\ pod = Default
    /\ live = [valid |-> FALSE, cfg |-> Default, ok |-> TRUE]
    /\ call = [cfg |-> Default, token |-> 0]
    /\ joinable = TRUE
    /\ cmds = <<>>
    /\ nextToken = 1
    /\ done = [token |-> 0, ok |-> FALSE, port |-> 0, rewrite |-> FALSE]
    /\ stop = FALSE
    /\ wake = FALSE
    /\ hasWake \in BOOLEAN
    /\ net = "loop"
    /\ batch = <<>>
    /\ inForce = Default
    /\ ops = 0
    /\ timeouts = 0

-------------------------------------------------------------------------------
(* The SUDE thread.                                                        *)

Operate == ops < MaxOps /\ ops' = ops + 1

\* The application, the UI or applyCommandLine writes the PODs.
Edit(c) ==
    /\ sude = "idle"
    /\ c # pod
    /\ Operate
    /\ pod' = c
    /\ UNCHANGED <<sude, live, call, joinable, cmds, nextToken, stop, wake, timeouts>>
    /\ UNCHANGED netVars

\* applyEndpoint's cache: an unforced call with nothing new answers m_liveOk.
Cached == live.valid /\ Normal(pod) = live.cfg

\* applyEndpoint -> submitApply, the section that pushes the command.
SubmitApply ==
    /\ joinable
    /\ call' = [cfg |-> Normal(pod), token |-> nextToken]
    /\ cmds' = Append(cmds, ApplyCmd(Normal(pod), nextToken))
    /\ nextToken' = nextToken + 1
    /\ sude' = "knockApply"
    /\ UNCHANGED <<live, joinable, stop, wake, timeouts>>
    /\ UNCHANGED netVars

\* submitApply without a thread: an answer at once, and it is cached.
SubmitDown ==
    /\ ~joinable
    /\ live' = [valid |-> TRUE, cfg |-> Normal(pod), ok |-> FALSE]
    /\ UNCHANGED <<sude, call, joinable, cmds, nextToken, stop, wake, timeouts>>
    /\ UNCHANGED netVars

\* Every update calls applyEndpoint(); applyEndpoint(true) skips the cache.
Apply == sude = "idle" /\ pod' = Normal(pod) /\ (SubmitApply \/ SubmitDown)
ForceApply == Apply /\ Operate
Update == ~Cached /\ Apply /\ UNCHANGED ops
UpdateCached ==
    /\ sude = "idle"
    /\ Cached
    /\ pod' = Normal(pod)
    /\ UNCHANGED <<sude, live, call, joinable, cmds, nextToken, stop, wake, ops, timeouts>>
    /\ UNCHANGED netVars

\* enqueueSend and enqueueConnect: m_io outlives the thread, so no check of it.
Enqueue(k, d) ==
    /\ sude = "idle"
    /\ Operate
    /\ cmds' = Append(cmds, DataCmd(k, d))
    /\ sude' = "knockCmd"
    /\ UNCHANGED <<nextToken, stop, wake, timeouts>>
    /\ UNCHANGED <<sudeVars, netVars>>

\* Mutant of StopNet: stop is set and nobody knocks.
StopUnannounced ==
    /\ sude = "idle"
    /\ joinable
    /\ stop' = TRUE
    /\ sude' = "join"
    /\ UNCHANGED <<cmds, nextToken, wake, ops, timeouts>>
    /\ UNCHANGED <<sudeVars, netVars>>

\* stopNet, first half.
StopNet ==
    /\ sude = "idle"
    /\ joinable
    /\ stop' = TRUE
    /\ sude' = "knockStop"
    /\ UNCHANGED <<cmds, nextToken, wake, ops, timeouts>>
    /\ UNCHANGED <<sudeVars, netVars>>

\* cleanup again (the destructor calls it too): no thread left to stop.
CleanupAgain ==
    /\ sude = "idle"
    /\ ~joinable
    /\ live' = [live EXCEPT !.valid = FALSE]
    /\ UNCHANGED <<sude, pod, call, joinable, cmds, nextToken, stop, wake, ops, timeouts>>
    /\ UNCHANGED netVars

\* Mutant of Knock: enqueueSend and enqueueConnect forget wakeNet.
KnockForgotten ==
    /\ sude \in Knocking
    /\ wake' = (wake \/ (hasWake /\ sude # "knockCmd"))
    /\ sude' = CASE sude = "knockApply" -> "await"
                 [] sude = "knockCmd" -> "idle"
                 [] sude = "knockStop" -> "join"
    /\ UNCHANGED <<cmds, nextToken, stop, ops, timeouts>>
    /\ UNCHANGED <<sudeVars, netVars>>

\* wakeNet, after the section of each of the three callers.
Knock ==
    /\ sude \in Knocking
    /\ wake' = (wake \/ hasWake)
    /\ sude' = CASE sude = "knockApply" -> "await"
                 [] sude = "knockCmd" -> "idle"
                 [] sude = "knockStop" -> "join"
    /\ UNCHANGED <<cmds, nextToken, stop, ops, timeouts>>
    /\ UNCHANGED <<sudeVars, netVars>>

\* cv.wait_for returns true on the caller's own token; applyEndpoint adopts it.
Answered == done.token = call.token
Adopted(c) == IF done.rewrite THEN [c EXCEPT !.port = done.port] ELSE c

TakeAnswer ==
    /\ sude = "await"
    /\ Answered
    /\ pod' = Adopted(pod)
    /\ live' = [valid |-> TRUE, cfg |-> Adopted(call.cfg), ok |-> done.ok]
    /\ sude' = "idle"
    /\ UNCHANGED <<call, joinable, cmds, nextToken, stop, wake, ops, timeouts>>
    /\ UNCHANGED netVars

\* Mutant of GiveUp: the old cache survives the timeout.
GiveUpAndTrust ==
    /\ sude = "await"
    /\ ~Answered
    /\ timeouts < MaxTimeouts
    /\ timeouts' = timeouts + 1
    /\ sude' = "idle"
    /\ UNCHANGED <<pod, live, call, joinable, cmds, nextToken, stop, wake, ops>>
    /\ UNCHANGED netVars

\* Two seconds passed: "osc thread did not answer".  The command stays queued.
GiveUp ==
    /\ sude = "await"
    /\ ~Answered
    /\ timeouts < MaxTimeouts
    /\ timeouts' = timeouts + 1
    /\ live' = [live EXCEPT !.valid = FALSE]
    /\ sude' = "idle"
    /\ UNCHANGED <<pod, call, joinable, cmds, nextToken, stop, wake, ops>>
    /\ UNCHANGED netVars

\* thread.join returns; the rest of cleanup runs with no other thread alive.
Join ==
    /\ sude = "join"
    /\ net = "exited"
    /\ joinable' = FALSE
    /\ live' = [live EXCEPT !.valid = FALSE]
    /\ sude' = "idle"
    /\ UNCHANGED <<pod, call, cmds, nextToken, stop, wake, ops, timeouts>>
    /\ UNCHANGED netVars

-------------------------------------------------------------------------------
(* The socket thread.                                                      *)

NetStep(from, to) ==
    /\ net = from
    /\ net' = to
    /\ UNCHANGED <<sude, nextToken, stop, hasWake, ops, timeouts>>
    /\ UNCHANGED sudeVars

Loop ==
    /\ NetStep("loop", IF stop THEN "exited" ELSE "swap")
    /\ UNCHANGED <<cmds, wake, batch, inForce, done>>

\* Mutant of Swap: the vector is copied and not emptied.
SwapCopies ==
    /\ NetStep("swap", "run")
    /\ batch' = cmds
    /\ UNCHANGED <<cmds, wake, inForce, done>>

Swap ==
    /\ NetStep("swap", "run")
    /\ batch' = cmds
    /\ cmds' = <<>>
    /\ UNCHANGED <<wake, inForce, done>>

\* Mutant of Reports: the port of an ephemeral bind is never asked for.
ReportsUnknown(c) ==
    {[rewrite |-> c.port = 0, port |-> IF c.port = 0 THEN -1 ELSE c.port]}

\* applyOnNet may report the port it got when it was asked for port 0.
Reports(c) == {[rewrite |-> FALSE, port |-> c.port]} \cup
              (IF c.port = 0 THEN [rewrite : {TRUE}, port : Ports] ELSE {})

RunApply ==
    /\ NetStep("run", "run")
    /\ batch # <<>>
    /\ Head(batch).kind = "apply"
    /\ batch' = Tail(batch)
    /\ \E r \in Reports(Head(batch).cfg), ok \in BOOLEAN :
          /\ inForce' = [Head(batch).cfg EXCEPT !.port = r.port]
          /\ done' = [token |-> Head(batch).token, ok |-> ok,
                      port |-> r.port, rewrite |-> r.rewrite]
    /\ UNCHANGED <<cmds, wake>>

RunData ==
    /\ NetStep("run", "run")
    /\ batch # <<>>
    /\ Head(batch).kind # "apply"
    /\ batch' = Tail(batch)
    /\ UNCHANGED <<cmds, wake, inForce, done>>

\* maintainTcpConnect and drainSockets touch nothing of this module.
Drain ==
    /\ batch = <<>>
    /\ NetStep("run", "drained")
    /\ UNCHANGED <<cmds, wake, batch, inForce, done>>

CheckStop ==
    /\ NetStep("drained", IF stop THEN "exited" ELSE "more")
    /\ UNCHANGED <<cmds, wake, batch, inForce, done>>

CheckMore ==
    /\ NetStep("more", IF cmds # <<>> THEN "loop" ELSE "poll")
    /\ UNCHANGED <<cmds, wake, batch, inForce, done>>

\* poll returns for the wake datagram, or after 200 ms or for other traffic.
PollWoken ==
    /\ wake
    /\ NetStep("poll", "dump")
    /\ UNCHANGED <<cmds, wake, batch, inForce, done>>

PollElapsed ==
    /\ NetStep("poll", "dump")
    /\ UNCHANGED <<cmds, wake, batch, inForce, done>>

Dump ==
    /\ NetStep("dump", "loop")
    /\ wake' = FALSE
    /\ UNCHANGED <<cmds, batch, inForce, done>>

-------------------------------------------------------------------------------
App ==
    \/ \E c \in Config : Edit(c)
    \/ ForceApply
    \/ \E k \in {"send", "connect"}, d \in Data : Enqueue(k, d)
    \/ StopNet
    \/ CleanupAgain

Sude == Update \/ UpdateCached \/ Knock \/ TakeAnswer \/ GiveUp \/ Join

Net == \/ Loop \/ Swap \/ RunApply \/ RunData \/ Drain \/ CheckStop
       \/ CheckMore \/ PollWoken \/ PollElapsed \/ Dump

Next == App \/ Sude \/ Net

Spec == Init /\ [][Next]_vars

(***************************************************************************)
(* Both threads keep running; nothing makes the application call anything. *)
(* The host calls update every frame.  The 200 ms timeout of poll is given *)
(* NO fairness where the wake socket is bound: the knock alone must do.    *)
(***************************************************************************)
NetWork == \/ Loop \/ Swap \/ RunApply \/ RunData \/ Drain \/ CheckStop
           \/ CheckMore \/ PollWoken \/ Dump

FairSpec ==
    /\ Spec
    /\ WF_vars(NetWork)
    /\ WF_vars(Update \/ UpdateCached)
    /\ WF_vars(Knock)
    /\ WF_vars(TakeAnswer)
    /\ WF_vars(Join)
    /\ WF_vars(~hasWake /\ PollElapsed)

-------------------------------------------------------------------------------
(* Properties.                                                             *)

\* With the wake socket bound, the socket thread never sleeps in poll on a
\* command or a stop request that nobody will wake it for: whatever was pushed
\* between its last look at the queue and the dump of the wake socket still has
\* its datagram in the socket or its caller about to knock (netLoop, wakeNet).
NoLostWakeup ==
    hasWake /\ net = "poll" /\ (cmds # <<>> \/ stop)
        => wake \/ sude \in Knocking

\* The cache of applyEndpoint tells the truth: outside an apply call, a valid
\* m_liveCfg is the configuration the socket thread applied last and no older
\* apply, left behind by a call that gave up, is still waiting to undo it.
Pending(q) == \E i \in DOMAIN q : q[i].kind = "apply"
CacheCoherent ==
    joinable /\ sude \notin InApply /\ live.valid
        => inForce = live.cfg /\ ~Pending(cmds) /\ ~Pending(batch)

\* Double-buffering, knocking and giving up are invisible: the commands are
\* performed once each, in the order they were issued (enqueueSend,
\* enqueueConnect, submitApply, netLoop).
Queue == INSTANCE CommandQueue WITH
    Command <- Cmd, todo <- batch \o cmds, answered <- done.token,
    closed <- (net = "exited")
InOrder == Queue!Spec

\* Again and again the socket thread catches up with everything issued, until
\* it is told to stop; with the wake socket bound it needs no poll timeout for it.
Performed == []<>(stop \/ (batch = <<>> /\ cmds = <<>>))

\* cleanup returns: the socket thread sees stop whatever it was doing.
CleanupEnds == stop ~> ~joinable

\* Once the application stops calling, the PODs, the cache and the sockets
\* agree for ever, whatever calls timed out on the way.
Settled == live.valid /\ live.cfg = pod /\ inForce = pod
Converges == <>[](stop \/ Settled)
===============================================================================
