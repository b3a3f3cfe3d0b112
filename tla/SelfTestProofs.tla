---------------------------- MODULE SelfTestProofs ----------------------------
(***************************************************************************)
(* The self-test gives back what it borrowed, and hears itself, whatever   *)
(* the number of updates it waits for and of applies it gives up on.       *)
(***************************************************************************)
EXTENDS SelfTest, SeqFilterProofs

USE BoundAssumption

\* TypeOK, by what the actions change together.
Where ==
    /\ pc \in {"idle", "asking", "setup", "enter", "bound", "listen", "send", "update",
               "sweep", "check", "leave", "verdict", "done"}
    /\ after \in {"setup", "bound", "sweep", "verdict", "done"}
    /\ at \in 1 .. Len(Legs)
    /\ tries \in 0 .. MaxTries + 1 /\ slept \in BOOLEAN
    /\ timeouts \in 0 .. MaxTimeouts
Borrowed ==
    /\ changed \subseteq Fields
    /\ cfg \in Configs /\ liveCfg \in Configs \cup {"none"} /\ ok \in BOOLEAN
Queue ==
    /\ token \in Nat /\ answer \in {"none", "ok", "failed"}
    /\ cmds \in Seq(Requests) /\ \A k \in Asked : cmds[k].token <= token
    /\ net \in Configs /\ batch \in 0 .. Len(cmds)
Travel ==
    /\ inbound \in Seq(Message)
    /\ dgrams \in Seq(Range(Legs)) /\ stream \in Seq(Range(Legs))
    /\ {listen, dialed} \subseteq BOOLEAN
Callback ==
    /\ \E row \in {ListenerOf(l) : l \in Range(Legs)} : listeners \subseteq {row}
    /\ got \in Message \cup {Nothing}
    /\ {ignored, due, ripe} \subseteq BOOLEAN
    /\ passed \subseteq [leg : Range(Legs), by : Message \cup {Nothing}]

\* What keeps the types: what came over a stream has the framing of that stream,
\* and the waits end.
Wires ==
    /\ dialed => listen
    /\ listen \/ stream # <<>> => net \in TcpLegs
Trying ==
    \/ pc \in {"listen", "send", "update", "sweep", "bound"}
    \/ pc = "asking" /\ after \in {"bound", "sweep"}
    => tries <= MaxTries

\* What the socket thread was asked for last is what the PODs say, or what they
\* said before sendPort became the port that was bound.
Near == {cfg} \cup (IF cfg = "udp" THEN {"bind"} ELSE {})
LastAsked ==
    /\ \A k \in Asked : (\A m \in Asked : m <= k) => cmds[k].cfg \in Near
    /\ Asked = {} => net \in Near

\* sendPort is changed once, from the bind the test begins with.  On the way out
\* everything has been put back.
In == pc = "setup" \/ (pc = "asking" /\ after = "setup")
Out == pc = "done" \/ (pc = "asking" /\ after = "done")
Home == /\ In => cfg = "bind"
        /\ Out => cfg = "caller" /\ changed \subseteq {"addressPrefix"}

\* A callback is registered for the leg that is on, or kept for the next one.
Rows ==
    /\ listeners \subseteq {ListenerOf(leg)}
    /\ listeners # {} =>
         \/ pc \in {"send", "update", "sweep", "check", "leave"}
         \/ pc = "asking" /\ after = "sweep"
         \/ pc = "verdict" /\ leg \in {"directed", "broadcast"} /\ got.leg = leg
         \/ pc \in {"enter", "listen"} /\ leg \in {"broadcast", "other"}

\* So what was heard is for that callback.
Mine == pc # "enter" /\ ~Out => got = Nothing \/ ListenerOf(got.leg) = ListenerOf(leg)

\* Nothing of the SLIP leg is on its way before it begins: the size-prefix leg,
\* which has the same callback, cannot hear it.
SlipIsLater == at < 6 =>
    /\ \A k \in DOMAIN cmds : cmds[k].kind = "send" => cmds[k].leg # "slip"
    /\ \A k \in DOMAIN dgrams : dgrams[k] # "slip"
    /\ \A k \in DOMAIN stream : stream[k] # "slip"
    /\ \A k \in DOMAIN inbound : inbound[k].leg # "slip"
    /\ got.leg # "slip"

\* The inductive invariant.
Typed == Where /\ Borrowed /\ Queue /\ Travel /\ Callback
IInv == /\ Typed /\ Wires /\ Trying /\ LastAsked /\ Home /\ Rows /\ Mine /\ SlipIsLater
        /\ HeardItsOwn

\* The greatest of some numbers.
LEMMA GreatestIs ==
    ASSUME NEW n \in Nat, NEW T \in SUBSET (1 .. n), T # {}
    PROVE  Max(T) \in T /\ \A m \in T : Max(T) >= m
<1> DEFINE U == {n - m : m \in T}
<1>1. U \in SUBSET Nat /\ U # {}
  <2>1. \A m \in T : n - m \in Nat
    OBVIOUS
  <2> QED BY <2>1
<1>2. PICK x \in U : \A y \in U : x <= y
  BY <1>1, Least
<1>3. PICK m \in T : x = n - m
  OBVIOUS
<1>4. \A k \in T : n - k \in U
  OBVIOUS
<1>5. \A k \in T : m >= k
  BY <1>2, <1>3, <1>4
<1>6. \E x1 \in T : \A k \in T : x1 >= k
  BY <1>5
<1> QED BY <1>6 DEF Max

\* The legs by number.
LEMMA LegNumbers ==
    /\ Len(Legs) = 10 /\ DOMAIN Legs = 1 .. 10
    /\ Legs[1] = "directed" /\ Legs[2] = "broadcast" /\ Legs[3] = "other"
    /\ Legs[4] = "codec" /\ Legs[5] = "size" /\ Legs[6] = "slip" /\ Legs[7] = "timed"
    /\ Legs[8] = "wildcard" /\ Legs[9] = "garbage" /\ Legs[10] = "mcast"
    /\ \A n \in 1 .. 10 : n \in {1, 2, 3, 4, 5, 6, 7, 8, 9, 10}
BY DEF Legs

\* All of them.
LEMMA LegRange ==
    /\ Range(Legs) = {"directed", "broadcast", "other", "codec", "size", "slip", "timed",
                      "wildcard", "garbage", "mcast"}
    /\ \A n \in 1 .. Len(Legs) : Legs[n] \in Range(Legs)
<1>1. Range(Legs) = {Legs[n] : n \in 1 .. 10}
  BY LegNumbers DEF Range
<1>2. {Legs[n] : n \in 1 .. 10} = {"directed", "broadcast", "other", "codec", "size", "slip",
                                  "timed", "wildcard", "garbage", "mcast"}
  BY LegNumbers
<1> QED BY <1>1, <1>2, LegNumbers

\* What the proofs need of their order.
LEMMA LegOrder ==
    ASSUME NEW n \in 1 .. 10
    PROVE  /\ Legs[n] = "slip" => n >= 6
           /\ Legs[n] = "size" => n < 6
           /\ Legs[n] = "codec" => n < 10
           /\ Legs[n] \in {"directed", "broadcast"}
              => n < 10 /\ Legs[n + 1] \in {"broadcast", "other"}
BY LegNumbers

\* The parts make the whole.
LEMMA TypedIs == TypeOK <=> Typed
BY DEF TypeOK, Typed, Where, Borrowed, Queue, Travel, Callback

\* What a filter leaves was there, in the same kind of sequence.
LEMMA Filtered ==
    ASSUME NEW S, NEW s \in Seq(S), NEW P
    PROVE  /\ Filter(s, P) \in Seq(S)
           /\ \A k \in DOMAIN Filter(s, P) :
                 Filter(s, P)[k] \in P /\ \E i \in DOMAIN s : Filter(s, P)[k] = s[i]
<1> DEFINE r == Filter(s, P)
<1>1. r \in Seq(S) /\ \E f : Picks(r, f, s, P, Len(s))
  BY FilterPicks
<1>2. PICK f : Picks(r, f, s, P, Len(s))
  BY <1>1
<1> HIDE DEF r
<1>3. DOMAIN r = 1 .. Len(r) /\ DOMAIN s = 1 .. Len(s)
  BY <1>1
<1>4. \A k \in DOMAIN r : f[k] \in DOMAIN s /\ r[k] = s[f[k]] /\ s[f[k]] \in P
  BY <1>2, <1>3 DEF Picks
<1> QED BY <1>1, <1>4 DEF r

-------------------------------------------------------------------------------
(* The types.                                                              *)

\* Where the test is.
LEMMA WhereKept == ASSUME IInv, Next PROVE Where'
<1>1. /\ Where /\ Trying
      /\ \A n \in 1 .. 10 : Legs[n] = "codec" => n < 10
      /\ Len(Legs) = 10
  <2>1. Where /\ Trying
    BY DEF IInv, Typed
  <2>2. \A n \in 1 .. 10 : Legs[n] = "codec" => n < 10
    BY LegOrder
  <2>3. Len(Legs) = 10
    BY LegNumbers
  <2> QED BY <2>1, <2>2, <2>3
<1>9. CASE Begin \/ Setup
  BY <1>1, <1>9 DEF Where, Begin, Setup, Ask, Restore
<1>2. CASE Enter
  <2>1. /\ at' = at /\ tries' = 0 /\ slept' = FALSE /\ timeouts' = timeouts
        /\ (pc' = "asking" /\ after' = "bound") \/ (pc' = "listen" /\ after' = after)
    BY <1>2 DEF Enter, Fresh, Ask
  <2>2. 0 \in 0 .. MaxTries + 1
    OBVIOUS
  <2> QED BY <1>1, <2>1, <2>2 DEF Where
<1>10. CASE Bound
  BY <1>1, <1>10 DEF Where, Bound, Ask, Restore
<1>3. CASE CodecLeg
  BY <1>1, <1>3 DEF Where, CodecLeg, Ask, Restore, leg
<1>4. CASE Listen \/ Send \/ SendFails \/ UpdateAsks
  BY <1>1, <1>4 DEF Where, Listen, Send, SendFails, UpdateAsks, Ask, Restore
<1>5. CASE Sweep
  BY <1>1, <1>5 DEF Where, Trying, Sweep
<1>6. CASE Sleep \/ Again \/ Stop \/ Leave
  BY <1>1, <1>6 DEF Where, Sleep, Again, Stop, Leave, Ask, heard
<1>7. CASE Verdict \/ HostUpdate \/ Answered \/ TimedOut
  BY <1>1, <1>7 DEF Where, Verdict, HostUpdate, Answered, TimedOut, Ask, Restore
<1>8. CASE Net \/ TimeComes
  BY <1>1, <1>8 DEF Where, Net, Swap, PerformApply, PerformConnect, PerformSend, Drain, TimeComes,
                    test
<1> QED BY <1>2, <1>3, <1>4, <1>5, <1>6, <1>7, <1>8, <1>9, <1>10 DEF Next, Sude

\* The PODs and the cache.
LEMMA BorrowedKept == ASSUME IInv, Next PROVE Borrowed'
<1>1. Borrowed
  BY DEF IInv, Typed
<1>2. CASE Begin \/ Setup
  BY <1>1, <1>2 DEF Borrowed, Begin, Setup, Ask, Restore, Configs, Fields, Saved
<1>6. CASE Enter \/ CodecLeg \/ Bound
  BY <1>1, <1>6 DEF Borrowed, Enter, CodecLeg, Bound, Ask, Restore, Configs, TcpLegs
<1>3. CASE SendFails \/ UpdateAsks \/ Leave \/ Verdict \/ HostUpdate \/ Answered \/ TimedOut
  BY <1>1, <1>3 DEF Borrowed, SendFails, UpdateAsks, Leave, Verdict, HostUpdate, Answered, TimedOut,
                    Ask, Restore, Configs
<1>4. CASE Listen \/ Send \/ Sweep \/ Sleep \/ Again \/ Stop
  BY <1>1, <1>4 DEF Borrowed, Listen, Send, Sweep, Sleep, Again, Stop, pods
<1>5. CASE Net \/ TimeComes
  BY <1>1, <1>5 DEF Borrowed, Net, Swap, PerformApply, PerformConnect, PerformSend, Drain,
                    TimeComes, pods
<1> QED BY <1>2, <1>3, <1>4, <1>5, <1>6 DEF Next, Sude

\* A request at the end of the queue.
LEMMA Appended ==
    ASSUME NEW T, NEW s \in Seq(T), NEW r \in T
    PROVE  /\ Append(s, r) \in Seq(T) /\ Len(Append(s, r)) = Len(s) + 1
           /\ DOMAIN Append(s, r) = DOMAIN s \cup {Len(s) + 1} /\ Len(s) + 1 \notin DOMAIN s
           /\ Append(s, r)[Len(s) + 1] = r /\ \A k \in DOMAIN s : Append(s, r)[k] = s[k]
           /\ \A k \in DOMAIN s : k <= Len(s)
OBVIOUS

\* And one taken off its front.
LEMMA Taken ==
    ASSUME NEW T, NEW s \in Seq(T), Len(s) > 0
    PROVE  /\ Head(s) = s[1] /\ Head(s) \in T
           /\ Tail(s) \in Seq(T) /\ Len(Tail(s)) = Len(s) - 1
           /\ \A k \in DOMAIN Tail(s) : k + 1 \in DOMAIN s /\ Tail(s)[k] = s[k + 1]
           /\ \A k \in DOMAIN s : k = 1 \/ k - 1 \in DOMAIN Tail(s)
OBVIOUS

\* applyEndpoint: what it asks for is the last that is asked for.
LEMMA AskQueues ==
    ASSUME Queue, LastAsked, NEW c \in Configs, NEW then, Ask(c, then), UNCHANGED <<net, batch>>
    PROVE  Queue' /\ LastAsked'
<1> DEFINE r == [kind |-> "apply", cfg |-> c, token |-> token + 1]
           n == Len(cmds) + 1
<1>1. /\ cmds' = Append(cmds, r) /\ token' = token + 1 /\ answer' = "none" /\ cfg' = c
      /\ cmds \in Seq(Requests) /\ token \in Nat
  BY DEF Ask, Queue
<1>2. r \in Requests /\ r.kind = "apply" /\ r.cfg = c /\ r.token = token + 1
  BY <1>1 DEF Requests
<1> HIDE DEF r
<1>3. /\ cmds' \in Seq(Requests) /\ Len(cmds') = n /\ DOMAIN cmds' = DOMAIN cmds \cup {n}
      /\ cmds'[n] = r /\ \A k \in DOMAIN cmds : cmds'[k] = cmds[k] /\ k <= Len(cmds)
      /\ n \notin DOMAIN cmds
  BY <1>1, <1>2, Appended
<1>4. Asked' = Asked \cup {n} /\ Asked \subseteq DOMAIN cmds
  BY <1>2, <1>3 DEF Asked
<1>5. Len(cmds) \in Nat /\ DOMAIN cmds = 1 .. Len(cmds)
  BY <1>1
<1>6. \A k \in Asked' : cmds'[k].token <= token'
  <2>1. \A k \in Asked : cmds[k].token <= token /\ cmds[k].token \in Nat
    <3> TAKE k \in Asked
    <3>1. cmds[k] \in Requests /\ cmds[k].kind = "apply"
      BY <1>1, <1>4 DEF Asked
    <3> QED BY <3>1 DEF Queue, Requests
  <2> QED BY <1>1, <1>2, <1>3, <1>4, <2>1
<1>7. Queue'
  <2>1. batch' \in 0 .. Len(cmds') /\ net' \in Configs
    BY <1>3, <1>5 DEF Queue
  <2>2. token' \in Nat
    BY <1>1
  <2> QED BY <1>1, <1>3, <1>6, <2>1, <2>2 DEF Queue
<1>8. LastAsked'
  <2>1. \A k \in Asked' : k = n \/ ~(n <= k)
    BY <1>3, <1>4, <1>5
  <2>2. n \in Asked'
    BY <1>4
  <2>3. \A k \in Asked' : (\A m \in Asked' : m <= k) => cmds'[k].cfg = cfg'
    BY <1>1, <1>2, <1>3, <2>1, <2>2
  <2>4. cfg' \in Near'
    BY DEF Near
  <2> QED BY <2>2, <2>3, <2>4 DEF LastAsked
<1> QED BY <1>7, <1>8

\* A request of another kind.
LEMMA AddQueues ==
    ASSUME Queue, LastAsked, NEW r \in Requests, r.kind # "apply", cmds' = Append(cmds, r),
           UNCHANGED <<cfg, net, batch, token, answer>>
    PROVE  Queue' /\ LastAsked'
<1>1. cmds \in Seq(Requests)
  BY DEF Queue
<1>2. /\ cmds' \in Seq(Requests) /\ Len(cmds') = Len(cmds) + 1
      /\ DOMAIN cmds' = DOMAIN cmds \cup {Len(cmds) + 1}
      /\ cmds'[Len(cmds) + 1] = r /\ \A k \in DOMAIN cmds : cmds'[k] = cmds[k]
  BY <1>1, Appended
<1>3. Asked' = Asked /\ \A k \in Asked : cmds'[k] = cmds[k]
  BY <1>2 DEF Asked
<1>4. Len(cmds) \in Nat
  BY <1>1
<1>5. batch' \in 0 .. Len(cmds')
  BY <1>2, <1>4 DEF Queue
<1>6. Queue'
  BY <1>2, <1>3, <1>5 DEF Queue
<1> QED BY <1>3, <1>6 DEF LastAsked, Near

\* The socket thread takes one: an apply leaves the configuration it carried.
LEMMA TakeQueues ==
    ASSUME Queue, LastAsked, NEW kind, Perform(kind), UNCHANGED <<cfg, token>>,
           answer' \in {"none", "ok", "failed"},
           net' = IF kind = "apply" THEN Head(cmds).cfg ELSE net
    PROVE  Queue' /\ LastAsked' /\ Head(cmds) \in Requests
<1>1. /\ cmds \in Seq(Requests) /\ batch \in Nat /\ batch > 0 /\ batch <= Len(cmds)
      /\ Len(cmds) \in Nat /\ batch' = batch - 1 /\ cmds' = Tail(cmds)
      /\ Head(cmds).kind = kind
  BY DEF Queue, Perform
<1>2. Len(cmds) > 0
  BY <1>1
<1>3. /\ Head(cmds) = cmds[1] /\ Head(cmds) \in Requests
      /\ cmds' \in Seq(Requests) /\ Len(cmds') = Len(cmds) - 1
      /\ \A k \in DOMAIN cmds' : k + 1 \in DOMAIN cmds /\ cmds'[k] = cmds[k + 1]
      /\ \A k \in DOMAIN cmds : k = 1 \/ k - 1 \in DOMAIN cmds'
  BY <1>1, <1>2, Taken
<1>4. DOMAIN cmds = 1 .. Len(cmds) /\ DOMAIN cmds' = 1 .. Len(cmds')
  BY <1>1, <1>3
<1>5. \A k \in Asked' : k \in Nat /\ k + 1 \in Asked /\ cmds'[k] = cmds[k + 1]
  BY <1>1, <1>3, <1>4 DEF Asked
<1>6. \A k \in Asked : k = 1 \/ k - 1 \in Asked'
  <2> TAKE k \in Asked
  <2>1. k \in 1 .. Len(cmds) /\ cmds[k].kind = "apply"
    BY <1>4 DEF Asked
  <2>2. k # 1 => k - 1 \in DOMAIN cmds' /\ cmds'[k - 1] = cmds[(k - 1) + 1]
    BY <1>3, <1>4, <2>1
  <2>3. (k - 1) + 1 = k
    BY <1>1, <2>1
  <2> QED BY <2>1, <2>2, <2>3 DEF Asked
<1>7. net' \in Configs
  <2>1. kind = "apply" => Head(cmds).cfg \in Configs
    BY <1>1, <1>3 DEF Requests
  <2> QED BY <2>1 DEF Queue
<1>8. Queue'
  <2>1. batch' \in 0 .. Len(cmds')
    BY <1>1, <1>3
  <2> QED BY <1>3, <1>5, <1>7, <2>1 DEF Queue
<1>9. \A k \in Asked' : (\A m \in Asked' : m <= k) => cmds'[k].cfg \in Near
  <2> SUFFICES ASSUME NEW k \in Asked', \A m \in Asked' : m <= k PROVE cmds'[k].cfg \in Near
    OBVIOUS
  <2>1. \A m \in Asked : m <= k + 1
    <3> TAKE m \in Asked
    <3>1. m \in Nat /\ k \in Nat
      BY <1>1, <1>4, <1>5 DEF Asked
    <3>2. m = 1 \/ m - 1 <= k
      BY <1>6
    <3> QED BY <3>1, <3>2
  <2> QED BY <1>5, <2>1 DEF LastAsked
<1>10. Asked' = {} => net' \in Near
  <2> SUFFICES ASSUME Asked' = {} PROVE net' \in Near
    OBVIOUS
  <2>1. Asked \subseteq {1}
    BY <1>6
  <2>2. CASE kind = "apply"
    <3>1. 1 \in Asked
      BY <1>1, <1>3, <1>4, <2>2 DEF Asked
    <3>2. \A m \in Asked : m <= 1
      BY <2>1
    <3> QED BY <1>3, <2>2, <3>1, <3>2 DEF LastAsked
  <2>3. CASE kind # "apply"
    <3>1. 1 \notin Asked
      BY <1>1, <1>3, <2>3 DEF Asked
    <3> QED BY <2>1, <2>3, <3>1 DEF LastAsked
  <2> QED BY <2>2, <2>3
<1>11. Near' = Near
  BY DEF Near
<1> QED BY <1>3, <1>8, <1>9, <1>10, <1>11 DEF LastAsked

\* The queue, and what was asked for last.
LEMMA QueueKept == ASSUME IInv, Next PROVE Queue' /\ LastAsked'
<1>1. Queue /\ LastAsked /\ Where /\ Borrowed
  BY DEF IInv, Typed
<1>2. ASSUME NEW c \in Configs, NEW then, Ask(c, then), UNCHANGED <<net, batch>>
      PROVE  Queue' /\ LastAsked'
  BY <1>1, <1>2, AskQueues
<1>3. ASSUME Restore, UNCHANGED <<net, batch>> PROVE Queue' /\ LastAsked'
  <2>1. "caller" \in Configs /\ Ask("caller", "done")
    BY <1>3 DEF Restore, Configs
  <2> QED BY <1>2, <1>3, <2>1
<1>4. ASSUME UNCHANGED <<cfg, queue, net, batch>> PROVE Queue' /\ LastAsked'
  <2>1. cfg' = cfg /\ token' = token /\ answer' = answer /\ cmds' = cmds /\ net' = net
        /\ batch' = batch
    BY <1>4 DEF queue
  <2> QED BY <1>1, <2>1 DEF Queue, LastAsked, Near, Asked
<1>5. CASE Begin
  BY <1>2, <1>5 DEF Begin, Configs, socks
<1>6. CASE Setup
  <2>1. UNCHANGED <<net, batch>>
    BY <1>6 DEF Setup, socks
  <2>2. CASE ~ok
    BY <1>3, <1>6, <2>1, <2>2 DEF Setup
  <2>3. CASE ok
    <3>1. cfg' \in {cfg, "udp"} /\ UNCHANGED <<token, answer, cmds>>
      BY <1>6, <2>3 DEF Setup, queue
    <3>2. cfg = "bind"
      BY <1>6 DEF Setup, IInv, Home, In
    <3>3. Near \subseteq Near'
      BY <3>1, <3>2 DEF Near
    <3> QED BY <1>1, <2>1, <3>1, <3>3 DEF Queue, LastAsked, Asked
  <2> QED BY <2>2, <2>3
<1>7. CASE Enter
  <2>1. leg \in TcpLegs \cup {"mcast"} => leg \in Configs
    BY DEF TcpLegs, Configs
  <2> QED BY <1>2, <1>4, <1>7, <2>1 DEF Enter, socks
<1>8. CASE CodecLeg
  BY <1>3, <1>4, <1>8 DEF CodecLeg, socks
<1>9. CASE Bound
  <2>1. UNCHANGED <<net, batch>>
    BY <1>9 DEF Bound, socks
  <2>2. CASE ~ok
    BY <1>3, <1>9, <2>1, <2>2 DEF Bound
  <2>3. CASE ok
    <3>1. UNCHANGED <<cfg, token, answer>>
          /\ (cmds' = Append(cmds, [kind |-> "connect"]) \/ cmds' = cmds)
      BY <1>9, <2>3 DEF Bound
    <3>2. CASE cmds' = cmds
      BY <1>4, <2>1, <3>1, <3>2 DEF queue
    <3>3. CASE cmds' = Append(cmds, [kind |-> "connect"])
      <4>1. [kind |-> "connect"] \in Requests
        BY DEF Requests
      <4> QED BY <1>1, <2>1, <3>1, <3>3, <4>1, AddQueues
    <3> QED BY <3>1, <3>2, <3>3
  <2> QED BY <2>2, <2>3
<1>10. CASE Listen \/ Sweep \/ Sleep \/ Again \/ Stop \/ TimeComes
  <2>1. UNCHANGED <<pods, queue, socks>>
    BY <1>10 DEF Listen, Sweep, Sleep, Again, Stop, TimeComes
  <2> QED BY <1>4, <2>1 DEF pods, socks
<1>11. CASE Send
  <2> DEFINE r == [kind |-> "send", leg |-> leg,
                   udpOnly |-> leg \notin TcpLegs \cup {"wildcard", "mcast"}]
  <2>1. cmds' = Append(cmds, r) /\ UNCHANGED <<cfg, net, batch, token, answer>>
    BY <1>11 DEF Send, pods, socks
  <2>2. leg \in Range(Legs)
    BY <1>1, LegRange DEF Where, leg
  <2>3. r \in Requests /\ r.kind = "send"
    BY <2>2 DEF Requests
  <2> HIDE DEF r
  <2> QED BY <1>1, <2>1, <2>3, AddQueues
<1>12. CASE SendFails
  BY <1>3, <1>12 DEF SendFails, socks
<1>13. CASE UpdateAsks \/ HostUpdate
  <2>1. cfg \in Configs
    BY <1>1 DEF Borrowed
  <2> QED BY <1>2, <1>13, <2>1 DEF UpdateAsks, HostUpdate, socks
<1>14. CASE Leave
  BY <1>2, <1>4, <1>14 DEF Leave, socks, Configs
<1>15. CASE Verdict
  BY <1>3, <1>4, <1>15 DEF Verdict, socks
<1>16. CASE Answered \/ TimedOut
  BY <1>4, <1>16 DEF Answered, TimedOut, socks
<1>17. CASE Swap
  <2>1. UNCHANGED <<pods, queue, net>> /\ batch' = Len(cmds)
    BY <1>17 DEF Swap
  <2>2. cfg' = cfg /\ token' = token /\ answer' = answer /\ cmds' = cmds /\ net' = net
    BY <2>1 DEF queue, pods
  <2>3. Len(cmds) \in 0 .. Len(cmds)
    BY <1>1 DEF Queue
  <2> QED BY <1>1, <2>1, <2>2, <2>3 DEF Queue, LastAsked, Near, Asked
<1>18. CASE PerformApply
  <2>1. Perform("apply") /\ net' = Head(cmds).cfg /\ UNCHANGED <<cfg, token>>
    BY <1>18 DEF PerformApply, pods
  <2>2. answer' \in {"none", "ok", "failed"}
    BY <1>1, <1>18 DEF PerformApply, Queue
  <2> QED BY <1>1, <2>1, <2>2, TakeQueues
<1>19. CASE PerformConnect
  <2>1. Perform("connect") /\ UNCHANGED <<cfg, token, answer, net>>
    BY <1>19 DEF PerformConnect, pods
  <2>2. answer' \in {"none", "ok", "failed"}
    BY <1>1, <2>1 DEF Queue
  <2> QED BY <1>1, <2>1, <2>2, TakeQueues
<1>20. CASE PerformSend
  <2>1. Perform("send") /\ UNCHANGED <<cfg, token, answer, net>>
    BY <1>20 DEF PerformSend, pods
  <2>2. answer' \in {"none", "ok", "failed"}
    BY <1>1, <2>1 DEF Queue
  <2> QED BY <1>1, <2>1, <2>2, TakeQueues
<1>21. CASE Drain
  BY <1>4, <1>21 DEF Drain, pods
<1> QED BY <1>5, <1>6, <1>7, <1>8, <1>9, <1>10, <1>11, <1>12, <1>13, <1>14, <1>15, <1>16, <1>17,
           <1>18, <1>19, <1>20, <1>21 DEF Next, Sude, Net

\* A packet that arrives is one of those that were sent, under its framing.
LEMMA ReceivedIs ==
    ASSUME NEW legs \in Seq(Range(Legs)), NEW via, via \in {"udp", "size", "slip"} \/ legs = <<>>
    PROVE  /\ Received(legs, via) \in Seq(Message)
           /\ \A k \in DOMAIN Received(legs, via) :
                 \E i \in DOMAIN legs : Received(legs, via)[k].leg = legs[i]
<1> DEFINE P == Range(Legs) \ {"garbage"}
           packets == Filter(legs, P)
           r == [k \in DOMAIN packets |-> [leg |-> packets[k], via |-> via]]
<1>1. /\ packets \in Seq(Range(Legs))
      /\ \A k \in DOMAIN packets : \E i \in DOMAIN legs : packets[k] = legs[i]
  <2> HIDE DEF P
  <2>1. /\ Filter(legs, P) \in Seq(Range(Legs))
        /\ \A k \in DOMAIN Filter(legs, P) :
              Filter(legs, P)[k] \in P /\ \E i \in DOMAIN legs : Filter(legs, P)[k] = legs[i]
    BY Filtered
  <2> QED BY <2>1
<1>2. Received(legs, via) = r
  BY DEF Received
<1> HIDE DEF P, packets
<1>3. /\ DOMAIN packets = 1 .. Len(packets) /\ Len(packets) \in Nat
      /\ \A k \in DOMAIN packets : packets[k] \in Range(Legs)
  BY <1>1
<1>4. \A k \in DOMAIN packets : via \in {"udp", "size", "slip"}
  <2>1. legs = <<>> => DOMAIN legs = {}
    OBVIOUS
  <2> QED BY <1>1, <2>1
<1>5. \A k \in DOMAIN packets : r[k] \in Message /\ r[k].leg = packets[k]
  BY <1>3, <1>4 DEF Message
<1>6. DOMAIN r = DOMAIN packets
  OBVIOUS
<1> HIDE DEF r
<1>7. r \in Seq(Message)
  <2>1. r \in [1 .. Len(packets) -> Message]
    BY <1>2, <1>3, <1>5, <1>6 DEF r
  <2> QED BY <1>3, <2>1
<1> QED BY <1>1, <1>2, <1>5, <1>6, <1>7

\* The sockets, and that a stream has a framing.
LEMMA TravelKept == ASSUME IInv, Next PROVE Travel' /\ Wires'
<1>1. Travel /\ Wires /\ Queue
  BY DEF IInv, Typed
<1>2. ASSUME UNCHANGED <<inbound, dgrams, stream, listen, dialed, net>> PROVE Travel' /\ Wires'
  BY <1>1, <1>2 DEF Travel, Wires
<1>3. CASE Begin \/ Setup \/ Enter \/ CodecLeg \/ Bound \/ Listen \/ Send \/ SendFails \/ UpdateAsks
  BY <1>2, <1>3 DEF Begin, Setup, Enter, CodecLeg, Bound, Listen, Send, SendFails, UpdateAsks, socks
<1>4. CASE Sleep \/ Again \/ Stop \/ Leave \/ Verdict \/ HostUpdate \/ Answered \/ TimedOut
          \/ TimeComes
  BY <1>2, <1>4 DEF Sleep, Again, Stop, Leave, Verdict, HostUpdate, Answered, TimedOut, TimeComes,
                    socks
<1>5. CASE Sweep
  <2>1. inbound' = <<>> /\ UNCHANGED <<dgrams, stream, listen, dialed, net>>
    BY <1>5 DEF Sweep, socks
  <2>2. <<>> \in Seq(Message)
    OBVIOUS
  <2> QED BY <1>1, <2>1, <2>2 DEF Travel, Wires
<1>6. CASE Swap
  BY <1>2, <1>6 DEF Swap
<1>7. CASE PerformApply
  <2>1. /\ listen' \in BOOLEAN /\ (listen' => net' \in TcpLegs) /\ dialed' = FALSE
        /\ stream' = <<>> /\ dgrams' \in {dgrams, <<>>} /\ inbound' = inbound
    BY <1>7 DEF PerformApply
  <2>2. <<>> \in Seq(Range(Legs))
    OBVIOUS
  <2> QED BY <1>1, <2>1, <2>2 DEF Travel, Wires
<1>8. CASE PerformConnect
  <2>1. dialed' \in {FALSE, listen} /\ UNCHANGED <<inbound, net, listen, dgrams, stream>>
    BY <1>8 DEF PerformConnect
  <2>2. listen \in BOOLEAN
    BY <1>1 DEF Travel
  <2>3. dialed' \in BOOLEAN /\ (dialed' => listen)
    <3>1. CASE dialed' = FALSE
      BY <3>1
    <3>2. CASE dialed' = listen
      BY <2>2, <3>2
    <3> QED BY <2>1, <3>1, <3>2
  <2> QED BY <1>1, <2>1, <2>2, <2>3 DEF Travel, Wires
<1>9. CASE PerformSend
  <2>1. cmds \in Seq(Requests) /\ Len(cmds) > 0 /\ Head(cmds).kind = "send"
    BY <1>1, <1>9 DEF PerformSend, Perform, Queue
  <2>2. Head(cmds) \in Requests
    BY <2>1, Taken
  <2>3. Head(cmds).leg \in Range(Legs)
    BY <2>1, <2>2 DEF Requests
  <2>4. \A s \in Seq(Range(Legs)) : Append(s, Head(cmds).leg) \in Seq(Range(Legs))
    BY <2>3, Appended
  <2>5. UNCHANGED <<inbound, net, listen, dialed>>
    BY <1>9 DEF PerformSend
  <2>6. CASE dialed /\ ~Head(cmds).udpOnly
    <3>1. stream' = Append(stream, Head(cmds).leg) /\ dgrams' = dgrams
      BY <1>9, <2>6 DEF PerformSend
    <3> QED BY <1>1, <2>4, <2>5, <2>6, <3>1 DEF Travel, Wires
  <2>7. CASE ~(dialed /\ ~Head(cmds).udpOnly)
    <3>1. dgrams' = Append(dgrams, Head(cmds).leg) /\ stream' = stream
      BY <1>9, <2>7 DEF PerformSend
    <3> QED BY <1>1, <2>4, <2>5, <3>1 DEF Travel, Wires
  <2> QED BY <2>6, <2>7
<1>10. CASE Drain
  <2>1. /\ inbound' = inbound \o Received(dgrams, "udp") \o Received(stream, net)
        /\ dgrams' = <<>> /\ stream' = <<>> /\ UNCHANGED <<net, listen, dialed>>
    BY <1>10 DEF Drain
  <2>2. net \in {"udp", "size", "slip"} \/ stream = <<>>
    BY <1>1 DEF Wires, TcpLegs
  <2>3. Received(dgrams, "udp") \in Seq(Message) /\ Received(stream, net) \in Seq(Message)
    BY <1>1, <2>2, ReceivedIs DEF Travel
  <2>4. inbound' \in Seq(Message)
    BY <1>1, <2>1, <2>3 DEF Travel
  <2>5. <<>> \in Seq(Range(Legs))
    OBVIOUS
  <2> QED BY <1>1, <2>1, <2>4, <2>5 DEF Travel, Wires
<1> QED BY <1>3, <1>4, <1>5, <1>6, <1>7, <1>8, <1>9, <1>10 DEF Next, Sude, Net

-------------------------------------------------------------------------------
(* The callbacks and what they hear.                                       *)

\* The counter of a wait never passes its bound.
LEMMA TryingKept == ASSUME IInv, Next PROVE Trying'
<1>1. Trying /\ tries \in 0 .. MaxTries + 1
      /\ after \in {"setup", "bound", "sweep", "verdict", "done"}
  BY DEF IInv, Typed, Where
<1>2. CASE Begin \/ Setup \/ CodecLeg
  BY <1>2 DEF Begin, Setup, CodecLeg, Ask, Restore, Trying
<1>3. CASE Enter
  BY <1>3 DEF Enter, Fresh, Trying
<1>4. CASE Bound \/ Listen \/ Send \/ SendFails
  BY <1>1, <1>4 DEF Bound, Listen, Send, SendFails, Ask, Restore, Trying
<1>5. CASE UpdateAsks \/ Sweep \/ Stop
  BY <1>1, <1>5 DEF UpdateAsks, Sweep, Stop, Ask, Trying
<1>6. CASE Sleep \/ Again
  <2>1. tries' = tries /\ tries <= MaxTries
    BY <1>1, <1>6 DEF Sleep, Again
  <2> QED BY <2>1 DEF Trying
<1>7. CASE Leave \/ Verdict \/ HostUpdate
  BY <1>7 DEF Leave, Verdict, HostUpdate, Ask, Restore, Trying
<1>8. CASE Answered \/ TimedOut
  BY <1>1, <1>8 DEF Answered, TimedOut, Trying
<1>9. CASE Net \/ TimeComes
  BY <1>1, <1>9 DEF Net, Swap, PerformApply, PerformConnect, PerformSend, Drain, TimeComes, test,
                    Trying
<1> QED BY <1>2, <1>3, <1>4, <1>5, <1>6, <1>7, <1>8, <1>9 DEF Next, Sude

\* Every way out goes through restore.
LEMMA HomeKept == ASSUME IInv, Next PROVE Home'
<1>1. Home /\ Borrowed
  BY DEF IInv, Typed
<1>2. ASSUME Restore PROVE Home'
  <2>1. cfg' = "caller" /\ changed' = changed \ Saved
    BY <1>2 DEF Restore, Ask
  <2>2. pc' = "asking" /\ after' = "done"
    BY <1>2 DEF Restore, Ask
  <2> QED BY <1>1, <2>1, <2>2 DEF Home, In, Borrowed, Fields
<1>3. CASE Begin
  BY <1>3 DEF Begin, Ask, Home, In, Out
<1>4. CASE Setup \/ CodecLeg
  BY <1>2, <1>4 DEF Setup, CodecLeg, Home, In, Out
<1>5. CASE Bound \/ SendFails \/ Verdict
  BY <1>2, <1>5 DEF Bound, SendFails, Verdict, Home, In, Out
<1>6. CASE Enter \/ Leave
  BY <1>6 DEF Enter, Leave, Ask, Home, In, Out
<1>7. CASE Listen \/ Send \/ UpdateAsks \/ Sweep \/ Sleep \/ Again \/ Stop
  BY <1>7 DEF Listen, Send, UpdateAsks, Sweep, Sleep, Again, Stop, Ask, Home, In, Out
<1>8. CASE HostUpdate \/ Answered \/ TimedOut
  BY <1>1, <1>8 DEF HostUpdate, Answered, TimedOut, Ask, Home, In, Out
<1>9. CASE Net \/ TimeComes
  BY <1>1, <1>9 DEF Net, Swap, PerformApply, PerformConnect, PerformSend, Drain, TimeComes, test,
                    pods, Home, In, Out
<1> QED BY <1>3, <1>4, <1>5, <1>6, <1>7, <1>8, <1>9 DEF Next, Sude

\* A callback is there for its leg only.
LEMMA RowsKept == ASSUME IInv, Next PROVE Rows'
<1>1. Rows /\ at \in 1 .. 10 /\ Len(Legs) = 10
  BY LegNumbers DEF IInv, Typed, Where
<1>2. ASSUME at' = at PROVE leg' = leg /\ ListenerOf(leg') = ListenerOf(leg)
  BY <1>2 DEF leg
<1>3. ASSUME listeners' = {} PROVE Rows'
  BY <1>3 DEF Rows
<1>4. CASE Begin \/ Setup \/ CodecLeg \/ Bound \/ HostUpdate
  <2>1. listeners = {}
    BY <1>1, <1>4 DEF Begin, Setup, CodecLeg, Bound, HostUpdate, Rows
  <2> QED BY <1>3, <1>4, <2>1 DEF Begin, Setup, CodecLeg, Bound, HostUpdate, heard
<1>5. CASE Enter
  <2>1. pc = "enter" /\ at' = at /\ listeners' = listeners
        /\ (leg \notin TcpLegs \cup {"mcast"} => pc' = "listen")
    BY <1>5 DEF Enter
  <2>2. CASE listeners = {}
    BY <1>3, <2>1, <2>2
  <2>3. CASE listeners # {}
    <3>1. leg \in {"broadcast", "other"}
      BY <1>1, <2>1, <2>3 DEF Rows
    <3> QED BY <1>1, <1>2, <2>1, <3>1 DEF Rows, TcpLegs
  <2> QED BY <2>2, <2>3
<1>6. CASE Listen
  <2>1. at' = at /\ pc' = "send" /\ listeners' \in {listeners, listeners \cup {ListenerOf(leg)}}
    BY <1>6 DEF Listen
  <2> QED BY <1>1, <1>2, <2>1 DEF Rows
<1>7. CASE Send \/ UpdateAsks \/ Sweep \/ Sleep \/ Again \/ Stop
  <2>1. at' = at /\ listeners' = listeners
    BY <1>7 DEF Send, UpdateAsks, Sweep, Sleep, Again, Stop, heard
  <2>2. pc' \in {"send", "update", "sweep", "check", "leave"} \/ (pc' = "asking" /\ after' = "sweep")
    BY <1>7 DEF Send, UpdateAsks, Sweep, Sleep, Again, Stop, Ask
  <2> QED BY <1>1, <1>2, <2>1, <2>2 DEF Rows
<1>8. CASE SendFails
  <2>1. listeners' = listeners \ {ListenerOf(leg)}
    BY <1>8 DEF SendFails, Unlisten
  <2> QED BY <1>1, <1>3, <2>1 DEF Rows
<1>9. CASE Leave
  <2>1. at' = at /\ got' = got /\ (leg \notin TcpLegs => pc' = "verdict")
        /\ Unlisten(~Heard \/ leg \notin {"directed", "broadcast"})
    BY <1>9 DEF Leave
  <2>2. CASE ~Heard \/ leg \notin {"directed", "broadcast"}
    <3>1. listeners' = {}
      BY <1>1, <2>1, <2>2 DEF Unlisten, Rows
    <3> QED BY <1>3, <3>1
  <2>3. CASE Heard /\ leg \in {"directed", "broadcast"}
    <3>1. listeners' = listeners
      BY <2>1, <2>3 DEF Unlisten
    <3>2. got.leg = leg
      BY <2>3 DEF Heard, BusLegs
    <3> QED BY <1>1, <1>2, <2>1, <2>3, <3>1, <3>2 DEF Rows, TcpLegs
  <2> QED BY <2>2, <2>3
<1>10. CASE Verdict
  <2>1. pc = "verdict" /\ listeners' = listeners
    BY <1>10 DEF Verdict, heard
  <2>2. CASE listeners = {}
    BY <1>3, <2>1, <2>2
  <2>3. CASE listeners # {}
    <3>1. leg \in {"directed", "broadcast"} /\ got.leg = leg
      BY <1>1, <2>1, <2>3 DEF Rows
    <3>2. at < 10 /\ Legs[at + 1] \in {"broadcast", "other"}
      BY <1>1, <3>1, LegOrder DEF leg
    <3>3. Heard
      BY <3>1 DEF Heard, BusLegs
    <3>4. at' = at + 1 /\ pc' = "enter"
      BY <1>1, <1>10, <3>2, <3>3 DEF Verdict
    <3>5. leg' \in {"broadcast", "other"}
      BY <3>2, <3>4 DEF leg
    <3>6. ListenerOf(leg) = "bus" /\ ListenerOf(leg') = "bus"
      BY <3>1, <3>5 DEF ListenerOf, BusLegs
    <3>7. listeners' \subseteq {ListenerOf(leg')}
      BY <1>1, <2>1, <3>6 DEF Rows
    <3> QED BY <3>4, <3>5, <3>7 DEF Rows
  <2> QED BY <2>2, <2>3
<1>11. CASE Answered \/ TimedOut
  <2>1. pc = "asking" /\ pc' = after /\ at' = at /\ listeners' = listeners
    BY <1>11 DEF Answered, TimedOut, heard
  <2>2. CASE listeners = {}
    BY <1>3, <2>1, <2>2
  <2>3. CASE listeners # {}
    <3>1. pc' = "sweep"
      BY <1>1, <2>1, <2>3 DEF Rows
    <3> QED BY <1>1, <1>2, <2>1, <3>1 DEF Rows
  <2> QED BY <2>2, <2>3
<1>12. CASE Net \/ TimeComes
  <2>1. UNCHANGED <<test, listeners, got>>
    BY <1>12 DEF Net, Swap, PerformApply, PerformConnect, PerformSend, Drain, TimeComes, heard
  <2>2. pc' = pc /\ after' = after /\ at' = at /\ listeners' = listeners /\ got' = got
    BY <2>1 DEF test
  <2> QED BY <1>1, <1>2, <2>2 DEF Rows
<1> QED BY <1>4, <1>5, <1>6, <1>7, <1>8, <1>9, <1>10, <1>11, <1>12 DEF Next, Sude

\* What update offers was received before, or was held until its time.
LEMMA OfferedIs ==
    ASSUME inbound \in Seq(Message)
    PROVE  /\ Offered \in Seq(Message)
           /\ \A k \in DOMAIN Offered : \/ Offered[k].leg = "timed"
                                        \/ \E i \in DOMAIN inbound : Offered[k] = inbound[i]
<1> DEFINE P == {m \in Range(inbound) : m.leg # "timed" \/ ripe}
           held == IF due /\ ripe THEN <<[leg |-> "timed", via |-> "udp"]>> ELSE <<>>
           now == Filter(inbound, P)
<1>1. Offered = held \o now
  BY DEF Offered
<1> HIDE DEF P
<1>2. /\ now \in Seq(Message)
      /\ \A k \in DOMAIN now : \E i \in DOMAIN inbound : now[k] = inbound[i]
  BY Filtered
<1> HIDE DEF now
<1>3. held \in Seq(Message) /\ \A k \in DOMAIN held : held[k].leg = "timed"
  <2>1. [leg |-> "timed", via |-> "udp"] \in Message
    BY LegRange DEF Message
  <2> QED BY <2>1
<1> HIDE DEF held
<1>4. held \o now \in Seq(Message)
  BY <1>2, <1>3
<1>5. \A k \in DOMAIN (held \o now) :
         (k \in DOMAIN held /\ (held \o now)[k] = held[k])
         \/ \E j \in DOMAIN now : (held \o now)[k] = now[j]
  BY <1>2, <1>3
<1> QED BY <1>1, <1>2, <1>3, <1>4, <1>5

\* What a callback takes is for it.
LEMMA SweepHears ==
    ASSUME Travel, Sweep, got' # got
    PROVE  /\ got' \in Message /\ ListenerOf(got'.leg) \in listeners
           /\ \/ got'.leg = "timed"
              \/ \E i \in DOMAIN inbound : got' = inbound[i]
<1> DEFINE P == {m \in Message : \E row \in listeners : Hears(row, m)}
           mine == Filter(Offered, P)
<1>1. got' = IF mine = <<>> THEN got ELSE mine[Len(mine)]
  BY DEF Sweep
<1>2. /\ Offered \in Seq(Message)
      /\ \A k \in DOMAIN Offered : \/ Offered[k].leg = "timed"
                                   \/ \E i \in DOMAIN inbound : Offered[k] = inbound[i]
  BY OfferedIs DEF Travel
<1> HIDE DEF P
<1>3. /\ mine \in Seq(Message)
      /\ \A k \in DOMAIN mine : mine[k] \in P /\ \E i \in DOMAIN Offered : mine[k] = Offered[i]
  BY <1>2, Filtered
<1> HIDE DEF mine
<1>4. mine # <<>> /\ Len(mine) \in DOMAIN mine
  BY <1>1, <1>3
<1>5. got' = mine[Len(mine)] /\ got' \in P
  BY <1>1, <1>3, <1>4
<1>6. got' \in Message /\ ListenerOf(got'.leg) \in listeners
  BY <1>5 DEF P, Hears
<1>7. \E i \in DOMAIN Offered : got' = Offered[i]
  BY <1>3, <1>4, <1>5
<1> QED BY <1>2, <1>6, <1>7

\* The types of what the callbacks write.
LEMMA CallbackKept == ASSUME IInv, Next, Where', Rows' PROVE Callback'
<1>1. Callback /\ Where /\ Travel
  BY DEF IInv, Typed
<1>2. \E row \in {ListenerOf(l) : l \in Range(Legs)} : listeners' \subseteq {row}
  <2>1. leg' = Legs[at'] /\ at' \in 1 .. Len(Legs)
    BY DEF Where, leg
  <2>2. leg' \in Range(Legs)
    BY <2>1, LegRange
  <2>3. ListenerOf(leg') \in {ListenerOf(l) : l \in Range(Legs)}
    BY <2>2
  <2>4. listeners' \subseteq {ListenerOf(leg')}
    BY DEF Rows
  <2> QED BY <2>3, <2>4
<1>3. ASSUME UNCHANGED <<got, ignored, due, ripe, passed>> PROVE Callback'
  BY <1>1, <1>2, <1>3 DEF Callback, ListenerOf
<1>4. CASE Begin \/ Setup \/ CodecLeg \/ Bound \/ Listen \/ Send \/ SendFails \/ UpdateAsks
  BY <1>3, <1>4 DEF Begin, Setup, CodecLeg, Bound, Listen, Send, SendFails, UpdateAsks, heard
<1>5. CASE Enter
  BY <1>1, <1>2, <1>5 DEF Callback, Enter, Fresh, ListenerOf
<1>6. CASE Sweep
  <2>1. got' \in Message \cup {Nothing}
    <3>1. CASE got' = got
      BY <1>1, <3>1 DEF Callback
    <3>2. CASE got' # got
      BY <1>1, <1>6, <3>2, SweepHears
    <3> QED BY <3>1, <3>2
  <2>2. due' \in BOOLEAN /\ UNCHANGED <<ignored, ripe, passed>>
    BY <1>6 DEF Sweep
  <2> QED BY <1>1, <1>2, <2>1, <2>2 DEF Callback, ListenerOf
<1>7. CASE Sleep
  BY <1>1, <1>2, <1>7 DEF Callback, Sleep, ListenerOf
<1>8. CASE Again \/ Stop \/ Verdict \/ HostUpdate \/ Answered \/ TimedOut
  BY <1>3, <1>8 DEF Again, Stop, Verdict, HostUpdate, Answered, TimedOut, heard
<1>9. CASE Leave
  <2>1. [leg |-> leg, by |-> got] \in [leg : Range(Legs), by : Message \cup {Nothing}]
    <3>1. leg \in Range(Legs)
      BY <1>1, LegRange DEF Where, leg
    <3> QED BY <1>1, <3>1 DEF Callback
  <2>2. passed' \in {passed, passed \cup {[leg |-> leg, by |-> got]}}
        /\ UNCHANGED <<got, ignored, due, ripe>>
    BY <1>9 DEF Leave
  <2> HIDE DEF leg
  <2> QED BY <1>1, <1>2, <2>1, <2>2 DEF Callback, ListenerOf
<1>10. CASE Swap \/ PerformApply \/ PerformConnect \/ PerformSend
  BY <1>3, <1>10 DEF Swap, PerformApply, PerformConnect, PerformSend, heard
<1>11. CASE Drain
  <2>1. ignored' \in BOOLEAN /\ UNCHANGED <<got, due, ripe, passed>>
    BY <1>11 DEF Drain
  <2> QED BY <1>1, <1>2, <2>1 DEF Callback, ListenerOf
<1>12. CASE TimeComes
  BY <1>1, <1>2, <1>12 DEF Callback, TimeComes, ListenerOf
<1> QED BY <1>4, <1>5, <1>6, <1>7, <1>8, <1>9, <1>10, <1>11, <1>12 DEF Next, Sude, Net

\* What was heard in a leg was heard by that leg's callback.
LEMMA MineKept == ASSUME IInv, Next PROVE Mine'
<1>1. Mine /\ Rows /\ Travel /\ after # "enter"
  BY DEF IInv, Typed, Where
<1>2. ASSUME pc # "enter", ~Out, UNCHANGED <<at, got>> PROVE Mine'
  <2>1. leg' = leg /\ got' = got /\ ListenerOf(leg') = ListenerOf(leg)
        /\ ListenerOf(got'.leg) = ListenerOf(got.leg)
    BY <1>2 DEF leg
  <2> QED BY <1>1, <1>2, <2>1 DEF Mine
<1>3. CASE Begin
  BY <1>2, <1>3 DEF Begin, Out, heard
<1>4. CASE Setup \/ CodecLeg \/ Verdict \/ HostUpdate
  BY <1>4 DEF Setup, CodecLeg, Verdict, HostUpdate, Ask, Restore, Mine, Out
<1>5. CASE Enter
  BY <1>5 DEF Enter, Fresh, Mine
<1>6. CASE Bound \/ Listen \/ Send \/ SendFails \/ UpdateAsks
  BY <1>2, <1>6 DEF Bound, Listen, Send, SendFails, UpdateAsks, Out, heard
<1>7. CASE Sweep
  <2>1. at' = at /\ leg' = leg /\ pc \in {"sweep", "update"}
    BY <1>7 DEF Sweep, leg
  <2>2. CASE got' = got
    BY <1>2, <2>1, <2>2 DEF Out
  <2>3. CASE got' # got
    <3>1. ListenerOf(got'.leg) \in listeners
      BY <1>1, <1>7, <2>3, SweepHears
    <3>2. ListenerOf(got'.leg) = ListenerOf(leg)
      BY <1>1, <3>1 DEF Rows
    <3> QED BY <2>1, <3>2 DEF Mine, ListenerOf
  <2> QED BY <2>2, <2>3
<1>8. CASE Sleep \/ Again \/ Stop \/ Leave
  BY <1>2, <1>8 DEF Sleep, Again, Stop, Leave, Out, heard
<1>9. CASE Answered \/ TimedOut
  <2>1. pc = "asking" /\ pc' = after /\ UNCHANGED <<at, got>>
    BY <1>9 DEF Answered, TimedOut, heard
  <2>2. CASE after = "done"
    BY <2>1, <2>2 DEF Mine, Out
  <2>3. CASE after # "done"
    BY <1>2, <2>1, <2>3 DEF Out
  <2> QED BY <2>2, <2>3
<1>10. CASE Net \/ TimeComes
  <2>1. UNCHANGED <<test, got>>
    BY <1>10 DEF Net, Swap, PerformApply, PerformConnect, PerformSend, Drain, TimeComes, heard
  <2>2. UNCHANGED <<pc, after, at, got>>
    BY <2>1 DEF test
  <2>3. pc = "enter" \/ Out => Mine'
    BY <2>2 DEF Mine, Out
  <2> QED BY <1>2, <2>2, <2>3
<1> QED BY <1>3, <1>4, <1>5, <1>6, <1>7, <1>8, <1>9, <1>10 DEF Next, Sude

\* Nothing of the SLIP leg is about before it begins.
LEMMA SlipKept == ASSUME IInv, Next, at' < 6 PROVE SlipIsLater'
<1>1. Queue /\ Travel /\ at \in 1 .. 10 /\ at \in Int
  BY LegNumbers DEF IInv, Typed, Where
<1>3. at < 6
  <2>1. at' = at \/ at' = at + 1
    BY <1>1 DEF Next, Sude, Net, Begin, Setup, Enter, CodecLeg, Bound, Listen, Send, SendFails,
                UpdateAsks, Sweep, Sleep, Again, Stop, Leave, Verdict, HostUpdate, Answered,
                TimedOut, Swap, PerformApply, PerformConnect, PerformSend, Drain, TimeComes, test
  <2> QED BY <1>1, <2>1
<1>4. leg # "slip"
  BY <1>1, <1>3, LegOrder DEF leg
<1>5. /\ \A k \in DOMAIN cmds : cmds[k].kind = "send" => cmds[k].leg # "slip"
      /\ \A k \in DOMAIN dgrams : dgrams[k] # "slip"
      /\ \A k \in DOMAIN stream : stream[k] # "slip"
      /\ \A k \in DOMAIN inbound : inbound[k].leg # "slip"
      /\ got.leg # "slip"
  BY <1>3 DEF IInv, SlipIsLater
<1>6. cmds \in Seq(Requests)
  BY <1>1 DEF Queue
<1>7. ASSUME NEW r, r \in Requests, r.kind = "send" => r.leg # "slip", cmds' = Append(cmds, r)
      PROVE  \A k \in DOMAIN cmds' : cmds'[k].kind = "send" => cmds'[k].leg # "slip"
  <2>1. /\ DOMAIN cmds' = DOMAIN cmds \cup {Len(cmds) + 1}
        /\ cmds'[Len(cmds) + 1] = r /\ \A k \in DOMAIN cmds : cmds'[k] = cmds[k]
    BY <1>6, <1>7, Appended
  <2> QED BY <1>5, <1>7, <2>1
<1>8. ASSUME NEW c \in Configs, NEW then, Ask(c, then)
      PROVE  \A k \in DOMAIN cmds' : cmds'[k].kind = "send" => cmds'[k].leg # "slip"
  <2> DEFINE r == [kind |-> "apply", cfg |-> c, token |-> token + 1]
  <2>1. r \in Requests /\ r.kind = "apply"
    BY <1>1 DEF Queue, Requests
  <2>2. cmds' = Append(cmds, r)
    BY <1>8 DEF Ask
  <2> QED BY <1>7, <2>1, <2>2
<1>9. \A k \in DOMAIN cmds' : cmds'[k].kind = "send" => cmds'[k].leg # "slip"
  <2>1. ASSUME Restore PROVE \A k \in DOMAIN cmds' : cmds'[k].kind = "send" => cmds'[k].leg # "slip"
    BY <1>8, <2>1 DEF Restore, Configs
  <2>2. ASSUME UNCHANGED queue
        PROVE  \A k \in DOMAIN cmds' : cmds'[k].kind = "send" => cmds'[k].leg # "slip"
    BY <1>5, <2>2 DEF queue
  <2>3. CASE Begin
    BY <1>8, <2>3 DEF Begin, Configs
  <2>4. CASE Setup \/ CodecLeg \/ SendFails \/ Verdict
    BY <2>1, <2>2, <2>4 DEF Setup, CodecLeg, SendFails, Verdict
  <2>5. CASE Enter
    <3>1. leg \in TcpLegs \cup {"mcast"} => leg \in Configs
      BY DEF TcpLegs, Configs
    <3> QED BY <1>8, <2>2, <2>5, <3>1 DEF Enter
  <2>6. CASE Bound
    <3>1. [kind |-> "connect"] \in Requests
      BY DEF Requests
    <3>2. Restore \/ cmds' = cmds \/ cmds' = Append(cmds, [kind |-> "connect"])
      BY <2>6 DEF Bound
    <3>3. CASE cmds' = Append(cmds, [kind |-> "connect"])
      BY <1>7, <3>1, <3>3
    <3> QED BY <1>5, <2>1, <3>2, <3>3
  <2>7. CASE Listen \/ Sweep \/ Sleep \/ Again \/ Stop \/ TimeComes \/ Answered \/ TimedOut
    BY <2>2, <2>7 DEF Listen, Sweep, Sleep, Again, Stop, TimeComes, Answered, TimedOut
  <2>8. CASE Send
    <3> DEFINE r == [kind |-> "send", leg |-> leg,
                     udpOnly |-> leg \notin TcpLegs \cup {"wildcard", "mcast"}]
    <3>1. leg \in Range(Legs)
      BY <1>1, LegRange, LegNumbers DEF leg
    <3>2. r \in Requests /\ r.leg # "slip"
      BY <1>4, <3>1 DEF Requests
    <3>3. cmds' = Append(cmds, r)
      BY <2>8 DEF Send
    <3> HIDE DEF r
    <3> QED BY <1>7, <3>2, <3>3
  <2>9. CASE UpdateAsks \/ HostUpdate
    <3>1. cfg \in Configs
      BY DEF IInv, Typed, Borrowed
    <3> QED BY <1>8, <2>9, <3>1 DEF UpdateAsks, HostUpdate
  <2>10. CASE Leave
    BY <1>8, <2>2, <2>10 DEF Leave, Configs
  <2>11. CASE Swap \/ Drain
    BY <2>2, <2>11 DEF Swap, Drain
  <2>12. CASE PerformApply \/ PerformConnect \/ PerformSend
    <3>3. batch > 0 /\ cmds' = Tail(cmds)
      BY <2>12 DEF PerformApply, PerformConnect, PerformSend, Perform
    <3>1. Len(cmds) > 0
      BY <1>1, <1>6, <3>3 DEF Queue
    <3>2. \A k \in DOMAIN cmds' : k + 1 \in DOMAIN cmds /\ cmds'[k] = cmds[k + 1]
      BY <1>6, <3>1, <3>3, Taken
    <3> QED BY <1>5, <3>2
  <2> QED BY <2>3, <2>4, <2>5, <2>6, <2>7, <2>8, <2>9, <2>10, <2>11, <2>12 DEF Next, Sude, Net
<1>10. ASSUME UNCHANGED <<dgrams, stream>>
       PROVE  /\ \A k \in DOMAIN dgrams' : dgrams'[k] # "slip"
              /\ \A k \in DOMAIN stream' : stream'[k] # "slip"
  BY <1>5, <1>10
<1>11. /\ \A k \in DOMAIN dgrams' : dgrams'[k] # "slip"
       /\ \A k \in DOMAIN stream' : stream'[k] # "slip"
  <2>1. CASE Sude \/ TimedOut \/ TimeComes
    <3>1. UNCHANGED <<dgrams, stream>>
      BY <2>1 DEF Sude, Begin, Setup, Enter, CodecLeg, Bound, Listen, Send, SendFails,
                  UpdateAsks, Sweep, Sleep, Again, Stop, Leave, Verdict, HostUpdate, Answered,
                  TimedOut, TimeComes, socks
    <3> QED BY <1>10, <3>1
  <2>2. CASE Swap \/ PerformConnect
    BY <1>10, <2>2 DEF Swap, PerformConnect
  <2>3. CASE PerformApply
    <3>1. stream' = <<>> /\ dgrams' \in {dgrams, <<>>}
      BY <2>3 DEF PerformApply
    <3> QED BY <1>5, <3>1
  <2>4. CASE Drain
    <3>1. stream' = <<>> /\ dgrams' = <<>>
      BY <2>4 DEF Drain
    <3> QED BY <3>1
  <2>5. CASE PerformSend
    <3>1. /\ Len(cmds) > 0 /\ Head(cmds).kind = "send"
          /\ \/ stream' = Append(stream, Head(cmds).leg) /\ dgrams' = dgrams
             \/ dgrams' = Append(dgrams, Head(cmds).leg) /\ stream' = stream
      BY <1>1, <2>5 DEF PerformSend, Perform, Queue
    <3>2. Head(cmds) = cmds[1] /\ Head(cmds) \in Requests /\ 1 \in DOMAIN cmds
      BY <1>6, <3>1, Taken
    <3>3. Head(cmds).leg \in Range(Legs) /\ Head(cmds).leg # "slip"
      BY <1>5, <3>1, <3>2 DEF Requests
    <3>4. ASSUME NEW s \in Seq(Range(Legs)), \A k \in DOMAIN s : s[k] # "slip"
          PROVE  \A k \in DOMAIN Append(s, Head(cmds).leg) : Append(s, Head(cmds).leg)[k] # "slip"
      BY <3>3, <3>4, Appended
    <3> QED BY <1>1, <1>5, <3>1, <3>4 DEF Travel
  <2> QED BY <2>1, <2>2, <2>3, <2>4, <2>5 DEF Next, Net
<1>12. \A k \in DOMAIN inbound' : inbound'[k].leg # "slip"
  <2>1. CASE Drain
    <3>1. inbound' = inbound \o Received(dgrams, "udp") \o Received(stream, net)
      BY <2>1 DEF Drain
    <3>2. net \in {"udp", "size", "slip"} \/ stream = <<>>
      BY DEF IInv, Wires, TcpLegs
    <3>3. /\ Received(dgrams, "udp") \in Seq(Message) /\ Received(stream, net) \in Seq(Message)
          /\ \A k \in DOMAIN Received(dgrams, "udp") : Received(dgrams, "udp")[k].leg # "slip"
          /\ \A k \in DOMAIN Received(stream, net) : Received(stream, net)[k].leg # "slip"
      BY <1>1, <1>5, <3>2, ReceivedIs DEF Travel
    <3>4. ASSUME NEW r \in Seq(Message), NEW s \in Seq(Message),
                 \A k \in DOMAIN r : r[k].leg # "slip", \A k \in DOMAIN s : s[k].leg # "slip"
          PROVE  r \o s \in Seq(Message) /\ \A k \in DOMAIN (r \o s) : (r \o s)[k].leg # "slip"
      BY <3>4
    <3>5. inbound \in Seq(Message)
      BY <1>1 DEF Travel
    <3> DEFINE u == Received(dgrams, "udp")
               v == Received(stream, net)
    <3> HIDE DEF u, v
    <3>6. u \in Seq(Message) /\ v \in Seq(Message) /\ inbound' = (inbound \o u) \o v
          /\ (\A k \in DOMAIN u : u[k].leg # "slip") /\ \A k \in DOMAIN v : v[k].leg # "slip"
      BY <3>1, <3>3 DEF u, v
    <3>7. inbound \o u \in Seq(Message) /\ \A k \in DOMAIN (inbound \o u) : (inbound \o u)[k].leg # "slip"
      BY <1>5, <3>4, <3>5, <3>6
    <3> QED BY <3>4, <3>6, <3>7
  <2>2. CASE ~Drain
    <3>1. inbound' = inbound \/ inbound' = <<>>
      BY <2>2 DEF Next, Sude, Net, Begin, Setup, Enter, CodecLeg, Bound, Listen, Send, SendFails,
                  UpdateAsks, Sweep, Sleep, Again, Stop, Leave, Verdict, HostUpdate, Answered,
                  TimedOut, Swap, PerformApply, PerformConnect, PerformSend, TimeComes
    <3> QED BY <1>5, <3>1
  <2> QED BY <2>1, <2>2
<1>13. got'.leg # "slip"
  <2>1. CASE Sweep /\ got' # got
    <3>1. got'.leg = "timed" \/ \E i \in DOMAIN inbound : got' = inbound[i]
      BY <1>1, <2>1, SweepHears
    <3> QED BY <1>5, <3>1
  <2>2. CASE ~(Sweep /\ got' # got)
    <3>1. got' = got \/ got' = Nothing
      BY <2>2 DEF Next, Sude, Net, Begin, Setup, Enter, CodecLeg, Bound, Listen, Send, SendFails,
                  UpdateAsks, Sleep, Again, Stop, Leave, Verdict, HostUpdate, Answered,
                  TimedOut, Swap, PerformApply, PerformConnect, PerformSend, Drain, TimeComes, heard,
                  Fresh
    <3> QED BY <1>5, <3>1 DEF Nothing
  <2> QED BY <2>1, <2>2
<1> QED BY <1>9, <1>11, <1>12, <1>13 DEF SlipIsLater

\* A leg is passed by what it heard, and heard what it sent.
LEMMA PassedKept == ASSUME IInv, Next PROVE HeardItsOwn'
<1>1. HeardItsOwn /\ Mine /\ Callback /\ at \in 1 .. 10 /\ SlipIsLater
  BY LegNumbers DEF IInv, Typed, Where
<1>2. CASE passed' = passed
  BY <1>1, <1>2 DEF HeardItsOwn
<1>3. CASE passed' # passed
  <2>1. Leave
    BY <1>3 DEF Next, Sude, Net, Begin, Setup, Enter, CodecLeg, Bound, Listen, Send, SendFails,
                UpdateAsks, Sweep, Sleep, Again, Stop, Verdict, HostUpdate, Answered,
                TimedOut, Swap, PerformApply, PerformConnect, PerformSend, Drain, TimeComes, heard
  <2> DEFINE p == [leg |-> leg, by |-> got]
  <2>2. Heard /\ passed' = passed \cup {p} /\ pc = "leave"
    BY <1>3, <2>1 DEF Leave
  <2>3. leg \notin {"slip", "garbage"} => got.leg = leg
    <3> SUFFICES ASSUME leg \notin {"slip", "garbage"} PROVE got.leg = leg
      OBVIOUS
    <3>1. CASE leg \in BusLegs
      BY <2>2, <3>1 DEF Heard, BusLegs
    <3>2. CASE leg \notin BusLegs
      <4>1. got # Nothing
        BY <2>2, <3>2 DEF Heard
      <4>2. got \in Message /\ ListenerOf(got.leg) = ListenerOf(leg)
        BY <1>1, <2>2, <4>1 DEF Mine, Out, Callback
      <4>3. CASE leg = "size"
        <5>1. at < 6
          BY <1>1, <4>3, LegOrder DEF leg
        <5>2. got.leg # "slip"
          BY <1>1, <5>1 DEF SlipIsLater
        <5>3. ListenerOf(leg) = "tcp"
          BY <4>3 DEF ListenerOf, BusLegs, TcpLegs
        <5>4. got.leg \in Range(Legs)
          BY <4>2 DEF Message
        <5>5. got.leg \in TcpLegs
          BY <4>2, <5>3, <5>4, LegRange DEF ListenerOf, BusLegs
        <5> QED BY <4>3, <5>2, <5>5 DEF TcpLegs
      <4>4. CASE leg # "size"
        <5>1. ListenerOf(leg) = leg
          BY <3>2, <4>4 DEF ListenerOf, TcpLegs
        <5>2. leg \in Range(Legs)
          BY <1>1, LegRange, LegNumbers DEF leg
        <5>3. leg # "bus" /\ leg # "tcp"
          BY <5>2, LegRange
        <5> QED BY <4>2, <5>1, <5>3 DEF ListenerOf
      <4> QED BY <4>3, <4>4
    <3> QED BY <3>1, <3>2
  <2>4. p.leg \notin {"slip", "garbage"} => p.by.leg = p.leg
    BY <2>3
  <2> HIDE DEF p
  <2> QED BY <1>1, <2>2, <2>4 DEF HeardItsOwn
<1> QED BY <1>2, <1>3

-------------------------------------------------------------------------------
(* The theorems.                                                           *)

\* Nothing has begun.
LEMMA InitHolds == Init => IInv
<1> SUFFICES ASSUME Init PROVE IInv
  OBVIOUS
<1>1. DOMAIN cmds = {} /\ DOMAIN dgrams = {} /\ DOMAIN stream = {} /\ DOMAIN inbound = {}
      /\ Asked = {} /\ leg = "directed"
  BY LegNumbers DEF Init, Asked, leg
<1>2. Where
  <2>1. 1 \in 1 .. Len(Legs)
    BY LegNumbers
  <2>2. 0 \in 0 .. MaxTries + 1 /\ 0 \in 0 .. MaxTimeouts
    BY BoundAssumption
  <2> QED BY <2>1, <2>2 DEF Init, Where
<1>3. Borrowed
  BY DEF Init, Borrowed, Configs
<1>4. Queue
  <2>1. cmds \in Seq(Requests) /\ Len(cmds) = 0
    BY DEF Init
  <2> QED BY <1>1, <2>1 DEF Init, Queue, Configs
<1>5. Travel
  <2>1. inbound = <<>> /\ dgrams = <<>> /\ stream = <<>> /\ batch = 0 /\ cmds = <<>>
        /\ net = "caller" /\ listen = FALSE /\ dialed = FALSE
    BY DEF Init
  <2>2. <<>> \in Seq(Message) /\ <<>> \in Seq(Range(Legs))
    OBVIOUS
  <2>3. batch \in 0 .. Len(cmds)
    BY <2>1
  <2> QED BY <2>1, <2>2, <2>3 DEF Init, Travel, Configs
<1>6. Callback
  <2>1. ListenerOf("directed") \in {ListenerOf(l) : l \in Range(Legs)}
    BY LegRange
  <2> QED BY <2>1 DEF Init, Callback
<1>7. Wires /\ Trying /\ Home /\ Rows /\ Mine /\ HeardItsOwn
  BY DEF Init, Wires, Trying, Home, In, Out, Rows, Mine, HeardItsOwn
<1>8. LastAsked
  BY <1>1 DEF Init, LastAsked, Near
<1>9. SlipIsLater
  BY <1>1 DEF Init, SlipIsLater, Nothing
<1> QED BY <1>2, <1>3, <1>4, <1>5, <1>6, <1>7, <1>8, <1>9 DEF IInv, Typed

\* Every step of either thread keeps the invariant.
LEMMA NextHolds == IInv /\ [Next]_vars => IInv'
<1> SUFFICES ASSUME IInv, [Next]_vars PROVE IInv'
  OBVIOUS
<1>1. CASE Next
  <2>1. SlipIsLater'
    <3>1. CASE at' < 6
      BY <1>1, <3>1, SlipKept
    <3>2. CASE ~(at' < 6)
      BY <3>2 DEF SlipIsLater
    <3> QED BY <3>1, <3>2
  <2>2. Where' /\ Rows'
    BY <1>1, WhereKept, RowsKept
  <2>3. Borrowed' /\ Queue' /\ LastAsked' /\ Travel' /\ Wires' /\ Callback'
    BY <1>1, <2>2, BorrowedKept, QueueKept, TravelKept, CallbackKept
  <2>4. Trying' /\ Home' /\ Mine' /\ HeardItsOwn'
    BY <1>1, TryingKept, HomeKept, MineKept, PassedKept
  <2> QED BY <2>1, <2>2, <2>3, <2>4 DEF IInv, Typed
<1>2. CASE UNCHANGED vars
  <2>1. UNCHANGED <<test, pods, heard, queue, inbound, socks, timeouts>>
    BY <1>2 DEF vars
  <2>2. /\ UNCHANGED <<pc, after, at, tries, slept>> /\ UNCHANGED <<changed, cfg, liveCfg, ok>>
        /\ UNCHANGED <<listeners, got, ignored, due, ripe, passed>>
        /\ UNCHANGED <<token, answer, cmds>> /\ UNCHANGED inbound
        /\ UNCHANGED <<net, batch, listen, dialed, dgrams, stream>> /\ UNCHANGED timeouts
    BY <2>1 DEF test, pods, heard, queue, socks
  <2>3. Where' /\ Borrowed' /\ Queue' /\ Travel'
    BY <2>2 DEF IInv, Typed, Where, Borrowed, Queue, Travel, Asked
  <2>4. Callback'
    BY <2>2 DEF IInv, Typed, Callback, ListenerOf
  <2>5. Wires' /\ Trying' /\ LastAsked' /\ Home' /\ HeardItsOwn'
    BY <2>2 DEF IInv, Wires, Trying, LastAsked, Near, Asked, Home, In, Out, HeardItsOwn
  <2>6. Rows' /\ Mine' /\ SlipIsLater'
    BY <2>2 DEF IInv, Rows, Mine, SlipIsLater, Out, leg, ListenerOf
  <2> QED BY <2>3, <2>4, <2>5, <2>6 DEF IInv, Typed
<1> QED BY <1>1, <1>2

\* On the way out of the test nothing of it is left.
LEMMA BackFollows == IInv => CallerIsBack
<1> SUFFICES ASSUME IInv, pc = "done"
             PROVE  /\ changed \subseteq {"addressPrefix"}
                    /\ listeners = {}
                    /\ IF Asked = {} THEN net = "caller" ELSE cmds[Max(Asked)].cfg = "caller"
  BY DEF CallerIsBack
<1>1. changed \subseteq {"addressPrefix"} /\ cfg = "caller"
  BY DEF IInv, Home, Out
<1>2. listeners = {}
  BY DEF IInv, Rows
<1>3. Asked = {} => net = "caller"
  BY <1>1 DEF IInv, LastAsked, Near
<1>4. Asked # {} => cmds[Max(Asked)].cfg = "caller"
  <2> SUFFICES ASSUME Asked # {} PROVE cmds[Max(Asked)].cfg = "caller"
    OBVIOUS
  <2>1. cmds \in Seq(Requests)
    BY DEF IInv, Typed, Queue
  <2>2. Asked \subseteq 1 .. Len(cmds) /\ Len(cmds) \in Nat
    BY <2>1 DEF Asked
  <2>3. Max(Asked) \in Asked /\ \A m \in Asked : Max(Asked) >= m
    BY <2>2, GreatestIs
  <2>4. \A m \in Asked : m <= Max(Asked)
    BY <2>2, <2>3
  <2> QED BY <1>1, <2>3, <2>4 DEF IInv, LastAsked, Near
<1> QED BY <1>1, <1>2, <1>3, <1>4

\* Types of both threads' state during the self-test; never two callbacks at once.
THEOREM SelfTestTypes == Spec => []TypeOK
<1>1. IInv => TypeOK
  BY TypedIs DEF IInv
<1> QED BY <1>1, InitHolds, NextHolds, PTL DEF Spec

\* Whatever ends the self-test, whatever its waits, and however many of its applies
\* were given up on: the caller's endpoint is asked for last, its fields are back and
\* no callback is left.
THEOREM SelfTestGivesBack == Spec => []CallerIsBack
<1> QED BY BackFollows, InitHolds, NextHolds, PTL DEF Spec

\* No leg but the SLIP one is passed by what another leg sent.
THEOREM SelfTestHearsItself == Spec => []HeardItsOwn
<1>1. IInv => HeardItsOwn
  BY DEF IInv
<1> QED BY <1>1, InitHolds, NextHolds, PTL DEF Spec
===============================================================================
