---------------------------- MODULE NetThreadProofs ---------------------------
(***************************************************************************)
(* What holds between the two threads for every set of ports and           *)
(* configurations and any number of calls and timeouts: types, no lost     *)
(* wakeup, and the cache that applyEndpoint answers from.                  *)
(***************************************************************************)
EXTENDS NetThread, SequenceTheorems, TLAPS

-------------------------------------------------------------------------------
(* Types.                                                                  *)

\* Net::Cmd is made with every field filled in.
LEMMA CmdTypes ==
    /\ \A c \in Config, t \in Nat : ApplyCmd(c, t) \in Cmd
    /\ \A k \in {"send", "connect"}, d \in Data : DataCmd(k, d) \in Cmd
BY DefaultAssumption DEF ApplyCmd, DataCmd, Cmd

\* What applyOnNet reports and puts in force is a configuration.
LEMMA ReportTypes ==
    ASSUME NEW c \in Config, NEW r \in Reports(c)
    PROVE  /\ r.rewrite \in BOOLEAN /\ r.port \in Ports \cup {0}
           /\ ~r.rewrite => r.port = c.port
           /\ [c EXCEPT !.port = r.port] \in Config
<1>1. c.port \in Ports \cup {0}
  BY DEF Config
<1>2. CASE r = [rewrite |-> FALSE, port |-> c.port]
  BY <1>1, <1>2 DEF Config
<1>3. CASE r \in [rewrite : {TRUE}, port : Ports]
  BY <1>1, <1>3 DEF Config
<1> QED BY <1>2, <1>3 DEF Reports

\* The constructor's state has the types.
LEMMA InitType == Init => TypeOK
<1> SUFFICES ASSUME Init PROVE TypeOK
  OBVIOUS
<1>1. /\ sude = "idle" /\ net = "loop"
      /\ pod \in Config /\ inForce \in Config
      /\ live \in [valid : BOOLEAN, cfg : Config, ok : BOOLEAN]
      /\ call \in [cfg : Config, token : Nat]
  BY DefaultAssumption DEF Init
<1>2. done \in [token : Nat, ok : BOOLEAN, port : Ports \cup {0}, rewrite : BOOLEAN]
  BY DEF Init
<1>3. cmds \in Seq(Cmd) /\ batch \in Seq(Cmd)
  BY EmptySeq DEF Init
<1>4. ops \in 0 .. MaxOps /\ timeouts \in 0 .. MaxTimeouts
  BY BoundAssumption DEF Init
<1>5. nextToken \in Nat \ {0}
  BY DEF Init
<1>6. joinable \in BOOLEAN /\ stop \in BOOLEAN /\ wake \in BOOLEAN /\ hasWake \in BOOLEAN
  BY Zenon DEF Init
<1> QED BY <1>1, <1>2, <1>3, <1>4, <1>5, <1>6 DEF TypeOK, Knocking

\* Every step of the SUDE thread keeps the types.
LEMMA SudeType == ASSUME TypeOK, App \/ Sude PROVE TypeOK'
<1> USE BoundAssumption
<1>1. Normal(pod) \in Config
  BY NormalAssumption DEF TypeOK
<1>2. ASSUME NEW c \in Config, Edit(c) PROVE TypeOK'
  BY <1>2 DEF TypeOK, Edit, Operate, netVars, Knocking
<1>3. ASSUME Apply, ops' \in 0 .. MaxOps PROVE TypeOK'
  <2>1. CASE SubmitApply
    <3>1. ApplyCmd(Normal(pod), nextToken) \in Cmd
      BY <1>1, CmdTypes DEF TypeOK
    <3>2. cmds' \in Seq(Cmd)
      BY <2>1, <3>1 DEF TypeOK, SubmitApply
    <3> QED BY <1>1, <1>3, <2>1, <3>2 DEF TypeOK, Apply, SubmitApply, netVars, Knocking
  <2>2. CASE SubmitDown
    BY <1>1, <1>3, <2>2 DEF TypeOK, Apply, SubmitDown, netVars, Knocking
  <2> QED BY <1>3, <2>1, <2>2 DEF Apply
<1>4. CASE ForceApply
  <2>1. ops' \in 0 .. MaxOps
    BY <1>4 DEF ForceApply, Operate, TypeOK
  <2> QED BY <1>3, <1>4, <2>1 DEF ForceApply
<1>5. CASE Update
  BY <1>3, <1>5 DEF Update, TypeOK
<1>6. CASE UpdateCached
  BY <1>1, <1>6 DEF TypeOK, UpdateCached, netVars, Knocking
<1>7. ASSUME NEW k \in {"send", "connect"}, NEW d \in Data, Enqueue(k, d) PROVE TypeOK'
  <2>1. DataCmd(k, d) \in Cmd
    BY CmdTypes
  <2>2. cmds' \in Seq(Cmd)
    BY <1>7, <2>1 DEF TypeOK, Enqueue
  <2> QED BY <1>7, <2>2 DEF TypeOK, Enqueue, Operate, sudeVars, netVars, Knocking
<1>8. CASE StopNet
  BY <1>8 DEF TypeOK, StopNet, sudeVars, netVars, Knocking
<1>9. CASE CleanupAgain
  BY <1>9 DEF TypeOK, CleanupAgain, netVars, Knocking
<1>10. CASE Knock
  BY <1>10 DEF TypeOK, Knock, sudeVars, netVars, Knocking
<1>11. CASE TakeAnswer
  <2>1. \A c \in Config : Adopted(c) \in Config
    BY DEF Adopted, TypeOK, Config
  <2> QED BY <1>11, <2>1 DEF TypeOK, TakeAnswer, netVars, Knocking
<1>12. CASE GiveUp
  <2>1. timeouts' \in 0 .. MaxTimeouts
    BY <1>12 DEF TypeOK, GiveUp
  <2>2. live' \in [valid : BOOLEAN, cfg : Config, ok : BOOLEAN]
    BY <1>12 DEF TypeOK, GiveUp
  <2> QED BY <1>12, <2>1, <2>2 DEF TypeOK, GiveUp, netVars, Knocking
<1>13. CASE Join
  BY <1>13 DEF TypeOK, Join, netVars, Knocking
<1> QED BY <1>2, <1>4, <1>5, <1>6, <1>7, <1>8, <1>9, <1>10, <1>11, <1>12, <1>13
        DEF App, Sude

\* Every step of the socket thread keeps the types.
LEMMA NetType == ASSUME TypeOK, Net PROVE TypeOK'
<1>1. ASSUME NEW from, NEW to,
             to \in {"loop", "swap", "run", "drained", "more", "poll", "dump", "exited"},
             NetStep(from, to), batch' \in Seq(Cmd), cmds' \in Seq(Cmd),
             wake' \in BOOLEAN, inForce' \in Config,
             done' \in [token : Nat, ok : BOOLEAN, port : Ports \cup {0}, rewrite : BOOLEAN]
      PROVE  TypeOK'
  BY <1>1 DEF TypeOK, NetStep, sudeVars, Knocking
<1>2. CASE Loop
  BY <1>1, <1>2 DEF TypeOK, Loop
<1>3. CASE Swap
  BY <1>1, <1>3, EmptySeq DEF TypeOK, Swap
<1>4. CASE RunApply
  <2>1. Head(batch) \in Cmd /\ Tail(batch) \in Seq(Cmd)
    BY <1>4 DEF TypeOK, RunApply
  <2>2. Head(batch).cfg \in Config /\ Head(batch).token \in Nat
    BY <2>1 DEF Cmd
  <2>3. PICK r \in Reports(Head(batch).cfg), ok \in BOOLEAN :
            /\ inForce' = [Head(batch).cfg EXCEPT !.port = r.port]
            /\ done' = [token |-> Head(batch).token, ok |-> ok,
                        port |-> r.port, rewrite |-> r.rewrite]
    BY <1>4 DEF RunApply
  <2> QED BY <1>1, <1>4, <2>1, <2>2, <2>3, ReportTypes DEF TypeOK, RunApply
<1>5. CASE RunData
  <2>1. Tail(batch) \in Seq(Cmd)
    BY <1>5 DEF TypeOK, RunData
  <2> QED BY <1>1, <1>5, <2>1 DEF TypeOK, RunData
<1>6. CASE Drain
  BY <1>1, <1>6 DEF TypeOK, Drain
<1>7. CASE CheckStop
  BY <1>1, <1>7 DEF TypeOK, CheckStop
<1>8. CASE CheckMore
  BY <1>1, <1>8 DEF TypeOK, CheckMore
<1>9. CASE PollWoken
  BY <1>1, <1>9 DEF TypeOK, PollWoken
<1>10. CASE PollElapsed
  BY <1>1, <1>10 DEF TypeOK, PollElapsed
<1>11. CASE Dump
  BY <1>1, <1>11 DEF TypeOK, Dump
<1> QED BY <1>2, <1>3, <1>4, <1>5, <1>6, <1>7, <1>8, <1>9, <1>10, <1>11 DEF Net

\* Type correctness of both threads together.
THEOREM TypeCorrect == Spec => []TypeOK
<1>1. TypeOK /\ [Next]_vars => TypeOK'
  <2>1. TypeOK /\ UNCHANGED vars => TypeOK'
    BY DEF TypeOK, vars
  <2> QED BY <2>1, SudeType, NetType DEF Next
<1> QED BY InitType, <1>1, PTL DEF Spec

-------------------------------------------------------------------------------
(* No lost wakeup.                                                         *)

\* A stop request is covered as soon as the thread has looked at Net::stop, a
\* command as soon as it has looked at Net::cmds.
Owed == wake \/ sude \in Knocking
Covered ==
    hasWake => /\ net \in {"more", "poll"} /\ stop => Owed
               /\ net = "poll" /\ cmds # <<>> => Owed

\* Covered is inductive on its own: whoever gives the socket thread something to
\* do owes it a knock, and only Dump, outside the window, empties the socket.
LEMMA CoveredStep == Covered /\ [Next]_vars => Covered'
<1> SUFFICES ASSUME Covered, [Next]_vars PROVE Covered'
  OBVIOUS
<1> USE DEF Covered, Owed, Knocking
<1>1. CASE App
  <2>1. UNCHANGED <<net, hasWake>>
    BY <1>1 DEF App, Edit, ForceApply, Apply, SubmitApply, SubmitDown, Enqueue, StopNet,
                CleanupAgain, netVars
  <2>2. UNCHANGED <<cmds, stop, wake, sude>> \/ sude' \in Knocking
    BY <1>1 DEF App, Edit, ForceApply, Apply, SubmitApply, SubmitDown, Enqueue, StopNet,
                CleanupAgain
  <2> QED BY <2>1, <2>2
<1>2. CASE Sude
  BY <1>2 DEF Sude, Update, UpdateCached, Apply, SubmitApply, SubmitDown, Knock,
              TakeAnswer, GiveUp, Join, netVars, sudeVars
<1>3. CASE Net
  BY <1>3 DEF Net, NetStep, Loop, Swap, RunApply, RunData, Drain, CheckStop, CheckMore,
              PollWoken, PollElapsed, Dump
<1>4. CASE UNCHANGED vars
  BY <1>4 DEF vars
<1> QED BY <1>1, <1>2, <1>3, <1>4 DEF Next

\* The socket thread never sleeps on a command or a stop request that nobody will
\* wake it for (netLoop's look at the queue, wakeNet, the dump of the wake socket).
THEOREM WakeupNeverLost == Spec => []NoLostWakeup
<1>1. Init => Covered
  BY DEF Init, Covered
<1>2. Covered => NoLostWakeup
  BY DEF Covered, Owed, NoLostWakeup
<1> QED BY <1>1, <1>2, CoveredStep, PTL DEF Spec
-------------------------------------------------------------------------------
(* The cache of applyEndpoint.                                             *)

\* An element of a queue that has grown at the end, or lost its head.
LEMMA AppendAt ==
    ASSUME NEW q \in Seq(Cmd), NEW c \in Cmd, NEW i \in DOMAIN Append(q, c)
    PROVE  /\ Append(q, c)[i] \in Cmd
           /\ \/ i \in DOMAIN q /\ Append(q, c)[i] = q[i]
              \/ i = Len(q) + 1 /\ Append(q, c)[i] = c
OBVIOUS

\* What is left of a batch when its head is run, and where it was before.
LEMMA TailAt ==
    ASSUME NEW q \in Seq(Cmd), q # <<>>, NEW i \in DOMAIN Tail(q)
    PROVE  i + 1 \in DOMAIN q /\ 1 \in DOMAIN q /\ 1 < i + 1 /\ Tail(q)[i] = q[i + 1]
OBVIOUS

\* The tokens of the applies still queued grow towards the end of the queue, lie
\* between the last one answered and the next one issued, and the one that the
\* SUDE thread waits for, if it is queued, is its call.
Increasing(q) ==
    \A i, j \in DOMAIN q :
        i < j /\ q[i].kind = "apply" /\ q[j].kind = "apply" => q[i].token < q[j].token
Before(p, q) ==
    \A i \in DOMAIN p, j \in DOMAIN q :
        p[i].kind = "apply" /\ q[j].kind = "apply" => p[i].token < q[j].token
Outstanding(q) ==
    \A i \in DOMAIN q : q[i].kind = "apply" =>
        /\ done.token < q[i].token
        /\ q[i].token < nextToken
        /\ sude \in InApply /\ q[i].token = call.token => q[i].cfg = call.cfg
Tokens ==
    /\ done.token < nextToken
    /\ sude \in InApply => call.token = nextToken - 1
    /\ sude \in InApply /\ done.token = call.token => inForce = Adopted(call.cfg)
    /\ Increasing(batch) /\ Increasing(cmds) /\ Before(batch, cmds)
    /\ Outstanding(batch) /\ Outstanding(cmds)

CacheInv == TypeOK /\ Tokens /\ CacheCoherent

\* submitApply issues a token greater than any in the queue.
LEMMA SubmitTokens ==
    ASSUME TypeOK, Tokens, SubmitApply
    PROVE  Tokens'
<1> DEFINE c == ApplyCmd(Normal(pod), nextToken)
<1>1. Normal(pod) \in Config
  BY NormalAssumption DEF TypeOK
<1>2. /\ c \in Cmd /\ c.token = nextToken /\ c.cfg = Normal(pod)
      /\ nextToken \in Nat /\ done.token \in Nat
      /\ batch \in Seq(Cmd) /\ cmds \in Seq(Cmd)
  BY <1>1, CmdTypes DEF TypeOK, ApplyCmd
<1>3. /\ cmds' = Append(cmds, c)
      /\ call' = [cfg |-> Normal(pod), token |-> nextToken]
      /\ nextToken' = nextToken + 1
      /\ UNCHANGED <<batch, done, inForce>>
  BY DEF SubmitApply, netVars
<1> HIDE DEF c
<1>4. \A d \in Cmd : d.token \in Nat
  BY DEF Cmd
<1>5. Increasing(batch)' /\ Outstanding(batch)'
  BY <1>2, <1>3, <1>4 DEF Tokens, Increasing, Outstanding
<1>6. Increasing(cmds)' /\ Before(batch, cmds)'
  <2>1. \A i \in DOMAIN cmds : cmds[i] \in Cmd
    BY <1>2
  <2>2. \A i \in DOMAIN batch : batch[i] \in Cmd
    BY <1>2
  <2>3. DOMAIN cmds = 1 .. Len(cmds) /\ Len(cmds) \in Nat
    BY <1>2
  <2> QED BY <1>2, <1>3, <1>4, <2>1, <2>2, <2>3, AppendAt
          DEF Tokens, Increasing, Before, Outstanding
<1>7. Outstanding(cmds)'
  <2>1. \A i \in DOMAIN cmds : cmds[i] \in Cmd
    BY <1>2
  <2> QED BY <1>2, <1>3, <1>4, <2>1, AppendAt DEF Tokens, Outstanding
<1> QED BY <1>2, <1>3, <1>5, <1>6, <1>7 DEF Tokens

\* enqueueSend and enqueueConnect add nothing that carries a token.
LEMMA EnqueueTokens ==
    ASSUME TypeOK, Tokens, NEW k \in {"send", "connect"}, NEW d \in Data, Enqueue(k, d)
    PROVE  Tokens' /\ (Pending(cmds)' => Pending(cmds))
<1> DEFINE c == DataCmd(k, d)
<1>1. c \in Cmd /\ c.kind # "apply"
  BY CmdTypes DEF DataCmd
<1>2. /\ cmds' = Append(cmds, c)
      /\ sude' \notin InApply
      /\ UNCHANGED <<batch, done, inForce, nextToken, call>>
  BY DEF Enqueue, netVars, sudeVars, InApply
<1> HIDE DEF c
<1>3. cmds \in Seq(Cmd) /\ batch \in Seq(Cmd)
  BY DEF TypeOK
<1>4. \A i \in DOMAIN cmds' : cmds'[i].kind = "apply" => i \in DOMAIN cmds /\ cmds'[i] = cmds[i]
  BY <1>1, <1>2, <1>3, AppendAt
<1>5. Increasing(cmds)' /\ Before(batch, cmds)' /\ Outstanding(cmds)' /\ Outstanding(batch)'
  BY <1>2, <1>4 DEF Tokens, Increasing, Before, Outstanding
<1>6. Increasing(batch)' /\ (Pending(cmds)' => Pending(cmds))
  BY <1>2, <1>4 DEF Tokens, Increasing, Pending
<1> QED BY <1>2, <1>5, <1>6 DEF Tokens

\* A step that neither issues nor runs anything, and begins no apply call.
LEMMA QuietTokens ==
    ASSUME Tokens, sude' \in InApply => sude \in InApply,
           UNCHANGED <<cmds, batch, done, inForce, nextToken, call>>
    PROVE  Tokens'
BY DEF Tokens, Increasing, Before, Outstanding, Adopted

\* The socket thread takes the whole command vector over its emptied batch.
LEMMA SwapTokens ==
    ASSUME Tokens, Swap
    PROVE  Tokens'
<1>1. batch' = cmds /\ cmds' = <<>>
  BY DEF Swap
<1>2. UNCHANGED <<sude, nextToken, call, done, inForce>>
  BY DEF Swap, NetStep, sudeVars
<1>3. DOMAIN cmds' = {}
  BY <1>1
<1> QED BY <1>1, <1>2, <1>3 DEF Tokens, Increasing, Before, Outstanding, Adopted

\* Taking the head off the batch, without or with an answer.
LEMMA TailTokens ==
    ASSUME TypeOK, Tokens, batch # <<>>, batch' = Tail(batch), UNCHANGED cmds
    PROVE  /\ Increasing(batch)' /\ Increasing(cmds)' /\ Before(batch, cmds)'
           /\ Head(batch).kind = "apply" =>
                 \A q \in {batch', cmds} : \A i \in DOMAIN q :
                    q[i].kind = "apply" => Head(batch).token < q[i].token
<1>1. batch \in Seq(Cmd) /\ cmds \in Seq(Cmd)
  BY DEF TypeOK
<1>2. \A i \in DOMAIN batch' : /\ i + 1 \in DOMAIN batch /\ 1 \in DOMAIN batch /\ 1 < i + 1
                               /\ batch'[i] = batch[i + 1]
  BY <1>1, TailAt
<1>3. \A i, j \in DOMAIN batch' : i < j => i + 1 < j + 1
  BY <1>1
<1>4. Head(batch) = batch[1] /\ 1 \in DOMAIN batch
  BY <1>1
<1>5. Increasing(batch)' /\ Before(batch, cmds)' /\ Increasing(cmds)'
  BY <1>2, <1>3 DEF Tokens, Increasing, Before
<1> QED BY <1>2, <1>4, <1>5 DEF Tokens, Increasing, Before

\* Running an apply answers its token, and with it perhaps the pending call.
LEMMA RunApplyTokens ==
    ASSUME TypeOK, Tokens, RunApply
    PROVE  Tokens'
<1> DEFINE h == Head(batch)
<1>1. PICK r \in Reports(h.cfg), ok \in BOOLEAN :
          /\ inForce' = [h.cfg EXCEPT !.port = r.port]
          /\ done' = [token |-> h.token, ok |-> ok, port |-> r.port, rewrite |-> r.rewrite]
  BY DEF RunApply
<1>2. /\ batch # <<>> /\ h.kind = "apply" /\ batch' = Tail(batch)
      /\ UNCHANGED <<cmds, sude, nextToken, call>>
  BY DEF RunApply, NetStep, sudeVars
<1>3. /\ h \in Cmd /\ h.cfg \in Config
      /\ 1 \in DOMAIN batch /\ batch[1] = h
  <2>1. batch \in Seq(Cmd)
    BY DEF TypeOK
  <2>2. h \in Cmd /\ 1 \in DOMAIN batch /\ batch[1] = h
    BY <1>2, <2>1
  <2> QED BY <2>2 DEF Cmd
<1> HIDE DEF h
<1>4. /\ h.token < nextToken
      /\ sude \in InApply /\ h.token = call.token => h.cfg = call.cfg
  BY <1>2, <1>3 DEF Tokens, Outstanding
<1>5. /\ Increasing(batch)' /\ Increasing(cmds)' /\ Before(batch, cmds)'
      /\ \A q \in {batch', cmds} : \A i \in DOMAIN q :
            q[i].kind = "apply" => h.token < q[i].token
  BY <1>2, TailTokens DEF h
<1>6. \A q \in {batch, cmds} : \A i \in DOMAIN q : q[i].kind = "apply" =>
          /\ q[i].token < nextToken
          /\ sude \in InApply /\ q[i].token = call.token => q[i].cfg = call.cfg
  BY DEF Tokens, Outstanding
<1>7. Outstanding(cmds)'
  BY <1>1, <1>2, <1>5, <1>6 DEF Outstanding
<1>8. Outstanding(batch)'
  <2>1. \A i \in DOMAIN batch' : i + 1 \in DOMAIN batch /\ batch'[i] = batch[i + 1]
    BY <1>2, TailAt DEF TypeOK
  <2> QED BY <1>1, <1>2, <1>5, <1>6, <2>1 DEF Outstanding
<1>9. sude' \in InApply /\ done'.token = call'.token => inForce' = Adopted(call.cfg)'
  <2> SUFFICES ASSUME sude' \in InApply, done'.token = call'.token
               PROVE  inForce' = Adopted(call.cfg)'
    OBVIOUS
  <2>1. h.cfg = call.cfg /\ call' = call
    BY <1>1, <1>2, <1>4
  <2>2. r.rewrite \in BOOLEAN /\ (~r.rewrite => r.port = h.cfg.port)
    BY <1>3, ReportTypes
  <2>3. ~r.rewrite => [h.cfg EXCEPT !.port = r.port] = h.cfg
    BY <1>3, <2>2 DEF Config
  <2>4. inForce' = IF r.rewrite THEN [h.cfg EXCEPT !.port = r.port] ELSE h.cfg
    BY <1>1, <2>2, <2>3
  <2>5. done'.rewrite = r.rewrite /\ done'.port = r.port
    BY <1>1
  <2> QED BY <2>1, <2>4, <2>5 DEF Adopted
<1>10. done'.token < nextToken' /\ (sude' \in InApply => call'.token = nextToken' - 1)
  BY <1>1, <1>2, <1>4 DEF Tokens
<1> QED BY <1>5, <1>7, <1>8, <1>9, <1>10 DEF Tokens

\* Running a Send or a Connect answers nothing.
LEMMA RunDataTokens ==
    ASSUME TypeOK, Tokens, RunData
    PROVE  Tokens' /\ (Pending(batch)' => Pending(batch))
<1>1. /\ batch # <<>> /\ batch' = Tail(batch)
      /\ UNCHANGED <<cmds, sude, nextToken, call, done, inForce>>
  BY DEF RunData, NetStep, sudeVars
<1>2. \A i \in DOMAIN batch' : i + 1 \in DOMAIN batch /\ batch'[i] = batch[i + 1]
  BY <1>1, TailAt DEF TypeOK
<1>3. Increasing(batch)' /\ Increasing(cmds)' /\ Before(batch, cmds)'
  BY <1>1, TailTokens
<1>4. Outstanding(batch)' /\ Outstanding(cmds)'
  BY <1>1, <1>2 DEF Tokens, Outstanding
<1>5. Pending(batch)' => Pending(batch)
  BY <1>2 DEF Pending
<1> QED BY <1>1, <1>3, <1>4, <1>5 DEF Tokens, Adopted

\* With the last token answered no apply is left in either queue.
LEMMA NothingLeft ==
    ASSUME TypeOK, Tokens, sude \in InApply, Answered
    PROVE  ~Pending(batch) /\ ~Pending(cmds) /\ inForce = Adopted(call.cfg)
<1>1. done.token = nextToken - 1 /\ nextToken \in Nat
  BY DEF TypeOK, Tokens, Answered
<1>2. ASSUME NEW q \in {batch, cmds}, NEW i \in DOMAIN q, q[i].kind = "apply"
      PROVE  FALSE
  <2>1. q[i] \in Cmd
    BY <1>2 DEF TypeOK
  <2>2. q[i].token \in Nat
    BY <2>1 DEF Cmd
  <2>3. done.token < q[i].token /\ q[i].token < nextToken
    BY <1>2 DEF Tokens, Outstanding
  <2> QED BY <1>1, <2>2, <2>3
<1> QED BY <1>2 DEF Pending, Tokens, Answered

\* Every step of the SUDE thread preserves the cache's invariant.
LEMMA SudeCache ==
    ASSUME CacheInv, App \/ Sude
    PROVE  Tokens' /\ CacheCoherent'
<1> USE DEF CacheInv
<1>1. ASSUME sude' \in InApply => sude \in InApply,
             UNCHANGED <<cmds, nextToken, call>>, UNCHANGED netVars
      PROVE  Tokens'
  BY <1>1, QuietTokens DEF netVars
<1>2. ASSUME Tokens', joinable' /\ sude' \notin InApply /\ live'.valid =>
                         joinable /\ sude \notin InApply /\ live.valid /\ live' = live,
             UNCHANGED <<inForce, batch>>, Pending(cmds)' => Pending(cmds)
      PROVE  Tokens' /\ CacheCoherent'
  BY <1>2 DEF CacheCoherent, Pending
<1>3. ASSUME NEW c \in Config, Edit(c) PROVE Tokens' /\ CacheCoherent'
  BY <1>1, <1>2, <1>3 DEF Edit, netVars, Pending
<1>4. CASE Apply
  <2>1. CASE SubmitApply
    <3>1. sude' \in InApply
      BY <2>1 DEF SubmitApply, InApply
    <3> QED BY <2>1, <3>1, SubmitTokens DEF CacheCoherent
  <2>2. CASE SubmitDown
    <3>1. Tokens'
      BY <1>1, <2>2 DEF SubmitDown
    <3> QED BY <2>2, <3>1 DEF SubmitDown, CacheCoherent
  <2> QED BY <1>4, <2>1, <2>2 DEF Apply
<1>5. CASE UpdateCached
  BY <1>1, <1>2, <1>5 DEF UpdateCached, netVars, Pending
<1>6. ASSUME NEW k \in {"send", "connect"}, NEW d \in Data, Enqueue(k, d)
      PROVE  Tokens' /\ CacheCoherent'
  <2>1. Tokens' /\ (Pending(cmds)' => Pending(cmds))
    BY <1>6, EnqueueTokens
  <2> QED BY <1>2, <1>6, <2>1 DEF Enqueue, sudeVars, netVars, InApply
<1>7. CASE StopNet
  BY <1>1, <1>2, <1>7 DEF StopNet, sudeVars, netVars, Pending, InApply
<1>8. CASE CleanupAgain
  <2>1. Tokens'
    BY <1>1, <1>8 DEF CleanupAgain
  <2> QED BY <1>8, <2>1 DEF CleanupAgain, CacheCoherent
<1>9. CASE Knock
  <2>1. (sude' \in InApply) <=> (sude \in InApply)
    BY <1>9 DEF Knock, Knocking, InApply
  <2> QED BY <1>1, <1>2, <1>9, <2>1 DEF Knock, sudeVars, netVars, Pending
<1>10. CASE TakeAnswer
  <2>1. Tokens'
    BY <1>1, <1>10 DEF TakeAnswer, InApply
  <2>2. ~Pending(batch) /\ ~Pending(cmds) /\ inForce = Adopted(call.cfg)
    BY <1>10, NothingLeft DEF TakeAnswer, InApply
  <2> QED BY <1>10, <2>1, <2>2 DEF TakeAnswer, CacheCoherent, Pending, netVars
<1>11. CASE GiveUp
  <2>1. Tokens'
    BY <1>1, <1>11 DEF GiveUp, InApply
  <2>2. ~live'.valid
    BY <1>11 DEF GiveUp, TypeOK
  <2> QED BY <2>1, <2>2 DEF CacheCoherent
<1>12. CASE Join
  <2>1. Tokens'
    BY <1>1, <1>12 DEF Join, InApply
  <2> QED BY <1>12, <2>1 DEF Join, CacheCoherent
<1> QED BY <1>3, <1>4, <1>5, <1>6, <1>7, <1>8, <1>9, <1>10, <1>11, <1>12
        DEF App, Sude, ForceApply, Update

\* Every step of the socket thread preserves it: while the cache is valid there is
\* no apply for the thread to run.
LEMMA NetCache ==
    ASSUME CacheInv, Net
    PROVE  Tokens' /\ CacheCoherent'
<1> USE DEF CacheInv
<1>1. UNCHANGED <<sude, nextToken, live, call, joinable>>
  BY DEF Net, NetStep, sudeVars, Loop, Swap, RunApply, RunData, Drain, CheckStop,
         CheckMore, PollWoken, PollElapsed, Dump
<1>2. CASE Swap
  <2>1. Tokens'
    BY <1>2, SwapTokens
  <2>2. batch' = cmds /\ cmds' = <<>> /\ inForce' = inForce
    BY <1>2 DEF Swap
  <2>3. ~Pending(cmds)'
    BY <2>2 DEF Pending
  <2> QED BY <1>1, <2>1, <2>2, <2>3 DEF CacheCoherent, Pending
<1>3. CASE RunApply
  <2>1. Tokens'
    BY <1>3, RunApplyTokens
  <2>2. Pending(batch)
    <3>1. 1 \in DOMAIN batch /\ batch[1].kind = "apply"
      BY <1>3 DEF RunApply, TypeOK
    <3> QED BY <3>1 DEF Pending
  <2> QED BY <1>1, <2>1, <2>2 DEF CacheCoherent
<1>4. CASE RunData
  <2>1. Tokens' /\ (Pending(batch)' => Pending(batch))
    BY <1>4, RunDataTokens
  <2>2. UNCHANGED <<cmds, inForce>>
    BY <1>4 DEF RunData
  <2> QED BY <1>1, <2>1, <2>2 DEF CacheCoherent, Pending
<1>5. CASE Loop \/ Drain \/ CheckStop \/ CheckMore \/ PollWoken \/ PollElapsed \/ Dump
  <2>1. UNCHANGED <<cmds, batch, inForce, done>>
    BY <1>5 DEF Loop, Drain, CheckStop, CheckMore, PollWoken, PollElapsed, Dump
  <2>2. Tokens'
    BY <1>1, <2>1, QuietTokens
  <2> QED BY <1>1, <2>1, <2>2 DEF CacheCoherent, Pending
<1> QED BY <1>2, <1>3, <1>4, <1>5 DEF Net

\* While applyEndpoint may answer from its cache, the configuration in the cache is
\* the one the sockets were last given, and no apply that an earlier caller gave
\* up on is still queued to change them (applyEndpoint, submitApply, netLoop).
THEOREM CacheTellsTheTruth == Spec => []CacheCoherent
<1>1. Init => CacheInv
  <2>1. Init => Tokens /\ CacheCoherent
    BY DEF Init, Tokens, CacheCoherent, Increasing, Before, Outstanding, InApply
  <2> QED BY <2>1, InitType DEF CacheInv
<1>2. CacheInv /\ [Next]_vars => CacheInv'
  <2>1. CacheInv /\ UNCHANGED vars => CacheInv'
    <3> SUFFICES ASSUME CacheInv, UNCHANGED vars PROVE CacheInv'
      OBVIOUS
    <3>1. TypeOK'
      BY DEF CacheInv, TypeOK, vars
    <3>2. Tokens'
      BY QuietTokens DEF CacheInv, vars
    <3>3. CacheCoherent'
      BY DEF CacheInv, CacheCoherent, Pending, vars
    <3> QED BY <3>1, <3>2, <3>3 DEF CacheInv
  <2> QED BY <2>1, SudeType, NetType, SudeCache, NetCache DEF CacheInv, Next
<1>3. CacheInv => CacheCoherent
  BY DEF CacheInv
<1> QED BY <1>1, <1>2, <1>3, PTL DEF Spec
-------------------------------------------------------------------------------
(* One queue.                                                              *)

\* The batch is run to its end before the thread goes on: it overwrites nothing.
QueueInv == TypeOK /\ (net # "run" => batch = <<>>)

\* The two buffers seen as one queue.
LEMMA JoinedAppend ==
    ASSUME NEW p \in Seq(Cmd), NEW q \in Seq(Cmd), NEW c \in Cmd
    PROVE  /\ p \o Append(q, c) = Append(p \o q, c)
           /\ Append(p \o q, c) # <<>>
           /\ Append(p \o q, c)[Len(Append(p \o q, c))] = c
OBVIOUS

\* Running the head of the batch takes the head of the joined queue.
LEMMA JoinedTail ==
    ASSUME NEW p \in Seq(Cmd), NEW q \in Seq(Cmd), p # <<>>
    PROVE  /\ p \o q # <<>>
           /\ Head(p \o q) = Head(p)
           /\ Tail(p \o q) = Tail(p) \o q
OBVIOUS

\* Pushing a command under the mutex issues it, whatever the thread has swapped.
LEMMA PushIssues ==
    ASSUME QueueInv, NEW c \in Cmd, cmds' = Append(cmds, c), UNCHANGED <<net, batch, done>>
    PROVE  Queue!Issue
<1> batch \in Seq(Cmd) /\ cmds \in Seq(Cmd)
  BY DEF QueueInv, TypeOK
<1>1. (batch \o cmds)' = Append(batch \o cmds, c)
  BY JoinedAppend
<1>2. /\ (batch \o cmds)' # <<>>
      /\ (batch \o cmds)'[Len((batch \o cmds)')] = c
  BY <1>1, JoinedAppend
<1>3. UNCHANGED <<done.token, net = "exited">>
  OBVIOUS
<1> QED BY <1>1, <1>2, <1>3 DEF Queue!Issue

\* The calls of the application issue commands or leave the queue alone.
LEMMA SudeRefines ==
    ASSUME QueueInv, App \/ Sude
    PROVE  Queue!Issue \/ UNCHANGED Queue!vars
<1>1. UNCHANGED <<net, batch, done>>
  BY DEF App, Sude, Edit, ForceApply, Update, Apply, SubmitApply, SubmitDown, UpdateCached,
         Enqueue, StopNet, CleanupAgain, Knock, TakeAnswer, GiveUp, Join, netVars
<1>2. CASE UNCHANGED cmds
  BY <1>1, <1>2 DEF Queue!vars
<1>3. CASE SubmitApply
  <2>1. ApplyCmd(Normal(pod), nextToken) \in Cmd
    BY CmdTypes, NormalAssumption DEF QueueInv, TypeOK
  <2>2. cmds' = Append(cmds, ApplyCmd(Normal(pod), nextToken))
    BY <1>3 DEF SubmitApply
  <2> QED BY <1>1, <2>1, <2>2, PushIssues
<1>4. ASSUME NEW k \in {"send", "connect"}, NEW d \in Data, Enqueue(k, d)
      PROVE  Queue!Issue
  <2>1. DataCmd(k, d) \in Cmd /\ cmds' = Append(cmds, DataCmd(k, d))
    BY <1>4, CmdTypes DEF Enqueue
  <2> QED BY <1>1, <2>1, PushIssues
<1>5. \/ UNCHANGED cmds
      \/ SubmitApply
      \/ \E k \in {"send", "connect"}, d \in Data : Enqueue(k, d)
  BY DEF App, Sude, Edit, ForceApply, Update, Apply, SubmitDown, UpdateCached,
         StopNet, CleanupAgain, Knock, TakeAnswer, GiveUp, Join
<1> QED BY <1>2, <1>3, <1>4, <1>5

\* The socket thread performs the oldest command, closes the queue, or leaves it.
LEMMA NetRefines ==
    ASSUME QueueInv, Net
    PROVE  (Queue!Perform \/ Queue!Close \/ UNCHANGED Queue!vars) /\ (net' # "run" => batch' = <<>>)
<1>0. batch \in Seq(Cmd) /\ cmds \in Seq(Cmd)
  BY DEF QueueInv, TypeOK
<1>1. CASE Swap
  <2>1. batch = <<>> /\ batch' = cmds /\ cmds' = <<>> /\ done' = done
        /\ net = "swap" /\ net' = "run"
    BY <1>1 DEF Swap, NetStep, QueueInv
  <2>2. (batch \o cmds)' = batch \o cmds
    BY <1>0, <2>1
  <2> QED BY <2>1, <2>2 DEF Queue!vars
<1>2. CASE RunApply \/ RunData
  <2>1. /\ net = "run" /\ net' = "run" /\ batch # <<>>
        /\ batch' = Tail(batch) /\ cmds' = cmds
    BY <1>2 DEF RunApply, RunData, NetStep
  <2>2. /\ batch \o cmds # <<>>
        /\ Head(batch \o cmds) = Head(batch)
        /\ (batch \o cmds)' = Tail(batch \o cmds)
    BY <1>0, <2>1, JoinedTail
  <2>3. done'.token = IF Head(batch).kind = "apply" THEN Head(batch).token ELSE done.token
    BY <1>2 DEF RunApply, RunData
  <2> QED BY <2>1, <2>2, <2>3 DEF Queue!Perform
<1>3. CASE Loop \/ CheckStop
  <2>1. UNCHANGED <<cmds, batch, done>> /\ batch = <<>> /\ net # "exited" /\ net' # "run"
    BY <1>3 DEF Loop, CheckStop, NetStep, QueueInv
  <2>2. CASE net' = "exited"
    BY <2>1, <2>2 DEF Queue!Close
  <2>3. CASE net' # "exited"
    BY <2>1, <2>3 DEF Queue!vars
  <2> QED BY <2>1, <2>2, <2>3
<1>4. CASE Drain \/ CheckMore \/ PollWoken \/ PollElapsed \/ Dump
  <2>1. UNCHANGED <<cmds, batch, done>> /\ batch = <<>> /\ net # "exited" /\ net' # "exited"
    BY <1>4 DEF Drain, CheckMore, PollWoken, PollElapsed, Dump, NetStep, QueueInv
  <2> QED BY <2>1 DEF Queue!vars
<1> QED BY <1>1, <1>2, <1>3, <1>4 DEF Net

\* Two buffers, a wake-up datagram and calls that give up implement one queue whose
\* commands are performed once each, in the order in which send, sendTo, connectTcp
\* and applyEndpoint issued them.
THEOREM OneQueue == Spec => InOrder
<1>1. Init => QueueInv /\ Queue!Init
  <2>1. Init => Queue!Init
    BY DEF Init, Queue!Init
  <2> QED BY <2>1, InitType DEF Init, QueueInv
<1>2. QueueInv /\ [Next]_vars => QueueInv' /\ [Queue!Next]_(Queue!vars)
  <2> SUFFICES ASSUME QueueInv, [Next]_vars
               PROVE  QueueInv' /\ [Queue!Next]_(Queue!vars)
    OBVIOUS
  <2>1. CASE App \/ Sude
    <3>1. TypeOK'
      BY <2>1, SudeType DEF QueueInv
    <3>2. UNCHANGED <<net, batch>>
      BY <2>1 DEF App, Sude, Edit, ForceApply, Update, Apply, SubmitApply, SubmitDown,
                  UpdateCached, Enqueue, StopNet, CleanupAgain, Knock, TakeAnswer,
                  GiveUp, Join, netVars
    <3> QED BY <2>1, <3>1, <3>2, SudeRefines DEF QueueInv, Queue!Next
  <2>2. CASE Net
    BY <2>2, NetType, NetRefines DEF QueueInv, Queue!Next
  <2>3. CASE UNCHANGED vars
    BY <2>3 DEF QueueInv, TypeOK, vars, Queue!vars
  <2> QED BY <2>1, <2>2, <2>3 DEF Next
<1> QED BY <1>1, <1>2, PTL DEF Spec, InOrder, Queue!Spec
===============================================================================
