---------------------------- MODULE TcpPortProofs -----------------------------
(***************************************************************************)
(* The connection table keeps its books for every set of peers and of      *)
(* descriptors: each open descriptor has one owner, and packets to a peer  *)
(* wait in one place.  The code is a set of functions of the table, so the *)
(* proofs go function by function: what a loop over the entries may do to  *)
(* one of them (Tame), what that makes of the table, what compaction and   *)
(* accept make of it, and only then the actions.                           *)
(***************************************************************************)
EXTENDS TcpPort, SeqFilterProofs, FiniteSetTheorems, TLAPS

USE PeersAssumption, DialableAssumption, FdsAssumption, MaxOutAssumption

Tables == [listen : Fds \cup {NoFd}, conns : Seq(Conn), kernel : [Fds -> Socket],
           backlog : Seq(Peers)]
Unused == {"free", "listening"}
Undecided == {"dialing", "refused"}

\* HandlesOwned of a table, said of entries instead of descriptors; and that a
\* connection counts as ready only when the kernel has said so.
Owned(t) ==
    /\ \A i, j \in Alive(t) : t.conns[i].sock = t.conns[j].sock => i = j
    /\ \A i \in Alive(t) : /\ t.kernel[t.conns[i].sock].st \notin Unused
                           /\ t.kernel[t.conns[i].sock].peer = t.conns[i].peer
                           /\ t.conns[i].ready => t.kernel[t.conns[i].sock].st \notin Undecided
    /\ \A fd \in Fds : t.kernel[fd].st = "listening" <=> t.listen = fd
    /\ \A fd \in Fds : t.kernel[fd].st \notin Unused
                          => \E i \in Alive(t) : t.conns[i].sock = fd

\* Why packets to a peer wait in one place: it was dialed once at most; of the
\* accepted ones at most one is not reset; nothing waits on an accepted one while
\* a dialed one is there to be found first.
Once(t) ==
    \A i, j \in DOMAIN t.conns :
        t.conns[i].outbound /\ t.conns[j].outbound /\ t.conns[i].peer = t.conns[j].peer => i = j
Second(t) ==
    \A i, j \in DOMAIN t.conns :
        t.conns[i].outbound /\ ~t.conns[j].outbound /\ t.conns[i].peer = t.conns[j].peer
        => t.conns[j].out = 0
Ready(t) == \A i \in DOMAIN t.conns : ~t.conns[i].outbound => t.conns[i].ready
IsReset(t, i) == t.kernel[t.conns[i].sock].st = "reset"
Fresh(t) ==
    /\ \A j, k \in 1 .. Len(t.backlog) : t.backlog[j] = t.backlog[k] => j = k
    /\ \A i \in Alive(t), k \in 1 .. Len(t.backlog) :
          ~t.conns[i].outbound /\ t.conns[i].peer = t.backlog[k] => IsReset(t, i)
Single(t) ==
    \A i, j \in Alive(t) :
        ~t.conns[i].outbound /\ ~t.conns[j].outbound /\ t.conns[i].peer = t.conns[j].peer => i = j

\* The inductive invariant.
Sound(t) == t \in Tables /\ Owned(t)
Orderly(t) == Once(t) /\ Second(t) /\ Ready(t) /\ Fresh(t)
Lined(t) == Orderly(t) /\ Single(t)

-------------------------------------------------------------------------------
(* Numbers.                                                                *)

\* The least and the greatest of a set of numbers.
LEMMA MinIs ==
    ASSUME NEW T \in SUBSET Nat, T # {}
    PROVE  Min(T) \in T /\ \A m \in T : Min(T) <= m
<1>1. \E n \in T : \A m \in T : n <= m
  BY Least
<1> QED BY <1>1 DEF Min

\* The greatest of a set that is not empty and has a bound.
LEMMA MaxIs ==
    ASSUME NEW n \in Nat, NEW T \in SUBSET (0 .. n), T # {}
    PROVE  Max(T) \in T /\ \A m \in T : Max(T) >= m
<1> DEFINE U == {n - m : m \in T}
<1>1. U \in SUBSET Nat /\ U # {}
  <2>1. \A m \in T : n - m \in Nat
    OBVIOUS
  <2> QED BY <2>1
<1>2. PICK x \in U : \A y \in U : x <= y
  BY <1>1, Least
<1>3. PICK m \in T : x = n - m
  OBVIOUS
<1>4. \A k \in T : n - k \in U
  OBVIOUS
<1>5. \A k \in T : m >= k
  BY <1>2, <1>3, <1>4
<1>6. \E x1 \in T : \A k \in T : x1 >= k
  BY <1>5
<1> QED BY <1>6 DEF Max

-------------------------------------------------------------------------------
(* One entry.                                                              *)

\* What a loop finds: a connection and the socket behind it.
EntryType(e) == /\ e \in [c : Conn, k : Socket]
                /\ Live(e.c) => e.k.st \notin Unused
                /\ Live(e.c) /\ e.c.ready => e.k.st \notin Undecided
                /\ ~Live(e.c) => e.k = Free

\* What a loop body may do: change what waits, what was read and the room there
\* is, make the connection ready, or drop it.
Tame(e, f) ==
    /\ f \in [c : Conn, k : Socket]
    /\ f.c.peer = e.c.peer /\ f.c.outbound = e.c.outbound
    /\ e.c.ready => f.c.ready
    /\ Live(f.c) => /\ Live(e.c) /\ f.c.sock = e.c.sock
                    /\ f.k.st = e.k.st /\ f.k.peer = e.k.peer
                    /\ f.c.ready => f.k.st \notin Undecided
    /\ ~Live(f.c) => f.k = Free

\* And add nothing to what waits.
Quiet(e, f) == Tame(e, f) /\ (e.c.out = 0 => f.c.out = 0)

\* No socket at all.
LEMMA FreeIs == Free \in Socket /\ Free.st = "free"
BY DEF Free, Socket, AnyPeer

\* An entry stays one.
LEMMA TameType ==
    ASSUME NEW e, NEW f, EntryType(e), Tame(e, f)
    PROVE  EntryType(f)
BY DEF EntryType, Tame

\* One loop after another.
LEMMA QuietSteps ==
    ASSUME NEW e, NEW f, NEW g, Quiet(e, f), Quiet(f, g)
    PROVE  Quiet(e, g)
BY DEF Quiet, Tame

\* An entry passed over.
LEMMA QuietSame == ASSUME NEW e, EntryType(e) PROVE Quiet(e, e)
BY DEF Quiet, Tame, EntryType

\* drop.
LEMMA QuietDrop == ASSUME NEW e, EntryType(e) PROVE Quiet(e, Drop(e))
<1>1. Drop(e) \in [c : Conn, k : Socket]
  BY FreeIs DEF Drop, EntryType, Conn
<1> QED BY <1>1 DEF Quiet, Tame, Drop, EntryType, Conn, Live

\* flush: nothing is sent that did not wait.
LEMMA QuietFlush == ASSUME NEW e, EntryType(e) PROVE Quiet(e, Flush(e))
<1> DEFINE n == Min({e.c.out, e.k.room})
<1>1. e.c \in Conn /\ e.k \in Socket /\ e.c.out \in 0 .. MaxOut /\ e.k.room \in 0 .. 1
  BY DEF EntryType, Conn, Socket
<1>2. n \in {e.c.out, e.k.room} /\ n <= e.c.out /\ n <= e.k.room
  BY <1>1, MinIs
<1> HIDE DEF n
<1>3. e.c.out - n \in 0 .. MaxOut /\ e.k.room - n \in 0 .. 1 /\ (e.c.out = 0 => e.c.out - n = 0)
  BY <1>1, <1>2
<1> DEFINE f == [c |-> [e.c EXCEPT !.out = @ - n], k |-> [e.k EXCEPT !.room = @ - n]]
<1>4. f.c \in Conn /\ f.k \in Socket
  <2>3. [e.c EXCEPT !.out = @ - n] \in Conn
    BY <1>1, <1>3 DEF Conn
  <2>4. [e.k EXCEPT !.room = @ - n] \in Socket
    BY <1>1, <1>3 DEF Socket
  <2> QED BY <2>3, <2>4
<1>5. f.c.out = e.c.out - n /\ f.c.peer = e.c.peer /\ f.c.outbound = e.c.outbound
      /\ f.c.ready = e.c.ready /\ f.c.sock = e.c.sock /\ f.k.st = e.k.st /\ f.k.peer = e.k.peer
  BY <1>1, <1>4 DEF Conn, Socket
<1>6. e.c.out # 0 /\ ~Broken(e) => Quiet(e, f)
  <2> SUFFICES ASSUME e.c.out # 0, ~Broken(e) PROVE Quiet(e, f)
    OBVIOUS
  <2>1. Live(e.c) /\ Live(f.c)
    BY <1>5 DEF Broken, Live
  <2>2. f \in [c : Conn, k : Socket]
    BY <1>4
  <2> HIDE DEF f
  <2> QED BY <1>5, <2>1, <2>2 DEF Quiet, Tame, EntryType
<1>7. Flush(e) = IF e.c.out = 0 THEN e ELSE IF Broken(e) THEN Drop(e) ELSE f
  BY DEF Flush, n
<1> QED BY <1>6, <1>7, QuietSame, QuietDrop

\* The dial is decided.
LEMMA QuietFinish == ASSUME NEW e, EntryType(e) PROVE Quiet(e, FinishDial(e))
<1> DEFINE f == [e EXCEPT !.c.ready = e.k.st # "dialing"]
<1>1. e.c \in Conn /\ e.k \in Socket
  BY DEF EntryType
<1>2. /\ f \in [c : Conn, k : Socket] /\ f.k = e.k
      /\ f.c.out = e.c.out /\ f.c.peer = e.c.peer /\ f.c.outbound = e.c.outbound
      /\ f.c.sock = e.c.sock /\ f.c.ready = (e.k.st # "dialing")
  BY <1>1 DEF EntryType, Conn
<1>3. ~e.c.ready /\ ~Broken(e) => Quiet(e, f)
  BY <1>2 DEF Quiet, Tame, Live, Broken, Undecided
<1>4. FinishDial(e) = IF e.c.ready \/ ~Live(e.c) THEN e
                      ELSE IF Broken(e) THEN Drop(e) ELSE f
  BY DEF FinishDial
<1> QED BY <1>3, <1>4, QuietSame, QuietDrop

\* Output.
LEMMA QuietFlushReady == ASSUME NEW e, EntryType(e) PROVE Quiet(e, FlushReady(e))
BY QuietSame, QuietFlush DEF FlushReady

\* Input.
LEMMA QuietReceive == ASSUME NEW e, EntryType(e) PROVE Quiet(e, Receive(e))
<1> DEFINE f == [e EXCEPT !.k.rx = "none"]
<1>1. e.c \in Conn /\ e.k \in Socket
  BY DEF EntryType
<1>2. /\ f \in [c : Conn, k : Socket] /\ f.c = e.c
      /\ f.k.st = e.k.st /\ f.k.peer = e.k.peer
  BY <1>1 DEF EntryType, Socket
<1>3. Live(e.c) => Quiet(e, f)
  BY <1>2 DEF Quiet, Tame, EntryType
<1>4. Receive(e) = IF ~e.c.ready \/ ~Live(e.c) THEN e
                   ELSE IF e.k.st \in {"eof", "reset"} \/ e.k.rx = "bad" THEN Drop(e) ELSE f
  BY DEF Receive
<1> QED BY <1>3, <1>4, QuietSame, QuietDrop

\* The three loops of poll, and that the last drops what was reset.
Polled(e) == Receive(FlushReady(FinishDial(e)))

\* Polling an entry changes its own handle and socket only, and a reset one is dropped.
LEMMA QuietPolled ==
    ASSUME NEW e, EntryType(e)
    PROVE  /\ Quiet(e, Polled(e))
           /\ e.c.ready /\ e.k.st = "reset" => ~Live(Polled(e).c)
<1> DEFINE f == FinishDial(e)
           g == FlushReady(f)
<1>1. Quiet(e, f) /\ EntryType(f)
  BY QuietFinish, TameType DEF Quiet
<1>2. Quiet(f, g) /\ EntryType(g)
  BY <1>1, QuietFlushReady, TameType DEF Quiet
<1>3. Quiet(g, Receive(g))
  BY <1>2, QuietReceive
<1> HIDE DEF f, g
<1>4. Quiet(e, g)
  BY <1>1, <1>2, QuietSteps
<1>5. Quiet(e, Receive(g))
  BY <1>3, <1>4, QuietSteps
<1>6. ASSUME e.c.ready, e.k.st = "reset" PROVE ~Live(Receive(g).c)
  <2>1. CASE Live(g.c)
    <3>1. g.k.st = "reset" /\ g.c.ready
      BY <1>4, <1>6, <2>1 DEF Quiet, Tame
    <3>2. Receive(g) = Drop(g)
      BY <2>1, <3>1 DEF Receive
    <3>3. g.c \in Conn
      BY <1>2 DEF EntryType
    <3> QED BY <3>2, <3>3 DEF Drop, Live, Conn
  <2>2. CASE ~Live(g.c)
    BY <2>2 DEF Receive
  <2> QED BY <2>1, <2>2
<1> QED BY <1>5, <1>6 DEF Polled, f, g

\* Nothing is left to do at a live socket: a dial the kernel has not decided, or
\* all input read and all output given that the kernel has room for.
Calm(c, k) == IF c.ready THEN /\ k.st \notin {"eof", "reset"} /\ k.rx = "none"
                              /\ c.out = 0 \/ k.room = 0
              ELSE k.st = "dialing"

\* poll leaves every entry so, or drops it.
LEMMA PolledCalm ==
    ASSUME NEW e, EntryType(e), Live(Polled(e).c)
    PROVE  Calm(Polled(e).c, Polled(e).k)
<1> DEFINE f == FinishDial(e)
           g == FlushReady(f)
           h == Receive(g)
<1>1. Quiet(e, f) /\ EntryType(f)
  BY QuietFinish, TameType DEF Quiet
<1>2. Quiet(f, g) /\ EntryType(g)
  BY <1>1, QuietFlushReady, TameType DEF Quiet
<1>3. Quiet(g, h) /\ EntryType(h)
  BY <1>2, QuietReceive, TameType DEF Quiet
<1>4. Polled(e) = h /\ Live(h.c)
  BY DEF Polled
<1>5. Live(f.c) /\ Live(g.c) /\ Live(e.c) /\ e.c \in Conn /\ f.c \in Conn /\ f.k \in Socket
      /\ g.c \in Conn /\ g.k \in Socket /\ e.k \in Socket
  BY <1>1, <1>2, <1>3, <1>4 DEF Quiet, Tame, EntryType
<1>6. f.c.ready \/ f.k.st = "dialing"
  <2>1. CASE e.c.ready
    BY <1>1, <2>1 DEF Quiet, Tame
  <2>2. CASE ~e.c.ready /\ Broken(e)
    <3>1. f = Drop(e)
      BY <1>5, <2>2 DEF FinishDial
    <3>2. ~Live(f.c)
      BY <1>5, <3>1 DEF Drop, Live, Conn
    <3> QED BY <1>5, <3>2
  <2>3. CASE ~e.c.ready /\ ~Broken(e)
    <3>1. f = [e EXCEPT !.c.ready = e.k.st # "dialing"]
      BY <1>5, <2>3 DEF FinishDial
    <3>2. f.c.ready = (e.k.st # "dialing") /\ f.k = e.k
      BY <1>5, <3>1 DEF Conn, EntryType
    <3> QED BY <3>2
  <2> QED BY <2>1, <2>2, <2>3
<1>7. f.c.ready => g.c.out = 0 \/ g.k.room = 0
  <2> SUFFICES ASSUME f.c.ready, f.c.out # 0 PROVE g.c.out = 0 \/ g.k.room = 0
    <3>1. f.c.ready /\ f.c.out = 0 => g.c.out = 0
      BY <1>2 DEF Quiet
    <3> QED BY <3>1
  <2>1. g = Flush(f)
    BY <1>5 DEF FlushReady
  <2>2. CASE Broken(f)
    <3>1. g = Drop(f)
      BY <2>1, <2>2 DEF Flush
    <3>2. ~Live(g.c)
      BY <1>5, <3>1 DEF Drop, Live, Conn
    <3> QED BY <1>5, <3>2
  <2>3. CASE ~Broken(f)
    <3> DEFINE n == Min({f.c.out, f.k.room})
    <3>1. g = [c |-> [f.c EXCEPT !.out = @ - n], k |-> [f.k EXCEPT !.room = @ - n]]
      BY <2>1, <2>3 DEF Flush
    <3>2. f.c.out \in Nat /\ f.k.room \in Nat
      BY <1>5 DEF Conn, Socket
    <3>3. n \in {f.c.out, f.k.room}
      BY <3>2, MinIs
    <3> HIDE DEF n
    <3>4. g.c.out = f.c.out - n /\ g.k.room = f.k.room - n
      BY <1>5, <3>1 DEF Conn, Socket
    <3> QED BY <3>2, <3>3, <3>4
  <2> QED BY <2>2, <2>3
<1>8. CASE ~g.c.ready
  <2>1. ~f.c.ready
    BY <1>2, <1>8 DEF Quiet, Tame
  <2>2. h = g
    BY <1>8 DEF Receive
  <2>3. g.k.st = "dialing"
    BY <1>2, <1>5, <1>6, <2>1 DEF Quiet, Tame
  <2> QED BY <1>4, <1>8, <2>2, <2>3 DEF Calm
<1>9. CASE g.c.ready
  <2>1. f.c.ready
    <3>1. ~f.c.ready => g = f
      BY DEF FlushReady
    <3> QED BY <1>9, <3>1
  <2>2. g.k.st \notin {"eof", "reset"} /\ g.k.rx # "bad"
    <3>1. ~(g.k.st \notin {"eof", "reset"} /\ g.k.rx # "bad") => h = Drop(g)
      BY <1>5, <1>9 DEF Receive
    <3>2. h = Drop(g) => ~Live(h.c)
      BY <1>5 DEF Drop, Live, Conn
    <3> QED BY <1>4, <3>1, <3>2
  <2>3. h = [g EXCEPT !.k.rx = "none"]
    BY <1>5, <1>9, <2>2 DEF Receive
  <2>4. h.c = g.c /\ h.k.st = g.k.st /\ h.k.rx = "none" /\ h.k.room = g.k.room
    BY <1>2, <1>5, <2>3 DEF Socket, EntryType
  <2> QED BY <1>4, <1>7, <1>9, <2>1, <2>2, <2>4 DEF Calm
<1> QED BY <1>8, <1>9

-------------------------------------------------------------------------------
(* The table after a loop.                                                 *)

\* The parts of a table.
LEMMA TableIs ==
    ASSUME NEW t \in Tables
    PROVE  /\ t.listen \in Fds \cup {NoFd} /\ t.conns \in Seq(Conn)
           /\ t.kernel \in [Fds -> Socket] /\ t.backlog \in Seq(Peers)
           /\ DOMAIN t.conns = 1 .. Len(t.conns) /\ Len(t.conns) \in Nat
           /\ \A i \in DOMAIN t.conns : t.conns[i] \in Conn
           /\ \A i \in Alive(t) : i \in DOMAIN t.conns /\ t.conns[i].sock \in Fds
           /\ \A i \in DOMAIN t.conns : Live(t.conns[i]) <=> i \in Alive(t)
           /\ NoFd \notin Fds
<1>1. /\ t.listen \in Fds \cup {NoFd} /\ t.conns \in Seq(Conn)
      /\ t.kernel \in [Fds -> Socket] /\ t.backlog \in Seq(Peers)
  BY DEF Tables
<1>2. /\ DOMAIN t.conns = 1 .. Len(t.conns) /\ Len(t.conns) \in Nat
      /\ \A i \in DOMAIN t.conns : t.conns[i] \in Conn
  BY <1>1
<1>3. \A i \in DOMAIN t.conns : t.conns[i].sock \in Fds \cup {NoFd}
  BY <1>2 DEF Conn
<1> QED BY <1>1, <1>2, <1>3 DEF Alive, Live, NoFd

\* What a loop finds.
LEMMA EntryIs ==
    ASSUME NEW t, Sound(t), NEW i \in DOMAIN t.conns
    PROVE  /\ EntryType(Entries(t)[i]) /\ Entries(t)[i].c = t.conns[i]
           /\ i \in Alive(t) => Entries(t)[i].k = t.kernel[t.conns[i].sock]
<1>1. /\ t \in Tables /\ t.conns[i] \in Conn /\ t.kernel \in [Fds -> Socket]
      /\ (Live(t.conns[i]) <=> i \in Alive(t)) /\ (i \in Alive(t) => t.conns[i].sock \in Fds)
  BY TableIs DEF Sound
<1>2. Entries(t)[i] = [c |-> t.conns[i],
                       k |-> IF Live(t.conns[i]) THEN t.kernel[t.conns[i].sock] ELSE Free]
  BY DEF Entries
<1>3. i \in Alive(t) => /\ t.kernel[t.conns[i].sock].st \notin Unused
                        /\ t.conns[i].ready => t.kernel[t.conns[i].sock].st \notin Undecided
  BY DEF Sound, Owned
<1>4. CASE i \in Alive(t)
  <2>1. t.kernel[t.conns[i].sock] \in Socket
    BY <1>1, <1>4
  <2> QED BY <1>1, <1>2, <1>3, <1>4, <2>1 DEF EntryType
<1>5. CASE i \notin Alive(t)
  BY <1>1, <1>2, <1>5, FreeIs DEF EntryType
<1> QED BY <1>4, <1>5

\* new is what a loop makes of the entries of t.
Loop(t, new) == \A i \in DOMAIN t.conns : Tame(Entries(t)[i], new[i])

\* A loop that changes each entry and its socket only: a socket is changed by the
\* entry that owns it, and the books stay right.
LEMMA RewriteIs ==
    ASSUME NEW t, Sound(t), NEW new, Loop(t, new)
    PROVE  LET u == Rewrite(t, new) IN
           /\ Sound(u)
           /\ u.listen = t.listen /\ u.backlog = t.backlog /\ DOMAIN u.conns = DOMAIN t.conns
           /\ \A i \in DOMAIN t.conns : u.conns[i] = new[i].c
           /\ \A i \in Alive(u) : i \in Alive(t) /\ u.kernel[u.conns[i].sock] = new[i].k
           /\ \A fd \in Fds : t.kernel[fd].st = "free" => u.kernel[fd].st = "free"
<1> DEFINE u == Rewrite(t, new)
           Mine(fd) == {i \in DOMAIN t.conns : t.conns[i].sock = fd}
           C == [i \in DOMAIN t.conns |-> new[i].c]
           K == [fd \in Fds |-> IF Mine(fd) = {} THEN t.kernel[fd]
                                ELSE new[CHOOSE i \in Mine(fd) : TRUE].k]
<1>1. /\ t \in Tables /\ t.conns \in Seq(Conn) /\ DOMAIN t.conns = 1 .. Len(t.conns)
      /\ Len(t.conns) \in Nat /\ t.kernel \in [Fds -> Socket]
      /\ \A i \in Alive(t) : i \in DOMAIN t.conns /\ t.conns[i].sock \in Fds
      /\ \A i \in DOMAIN t.conns : Live(t.conns[i]) <=> i \in Alive(t)
      /\ NoFd \notin Fds
  BY TableIs DEF Sound
<1>2. u = [t EXCEPT !.conns = C, !.kernel = K]
  BY DEF Rewrite
<1>3. u.listen = t.listen /\ u.backlog = t.backlog /\ u.conns = C /\ u.kernel = K
  BY <1>1, <1>2 DEF Tables
<1>4. \A i \in DOMAIN t.conns :
          /\ Entries(t)[i].c = t.conns[i] /\ EntryType(Entries(t)[i])
          /\ i \in Alive(t) => Entries(t)[i].k = t.kernel[t.conns[i].sock]
          /\ Tame(Entries(t)[i], new[i])
  BY EntryIs DEF Loop
<1>5. C \in Seq(Conn) /\ DOMAIN C = DOMAIN t.conns
  BY <1>1, <1>4 DEF Tame
<1>6. \A fd \in Fds : IF \E i \in Alive(t) : t.conns[i].sock = fd
                      THEN \E i \in Alive(t) : t.conns[i].sock = fd /\ K[fd] = new[i].k
                      ELSE K[fd] = t.kernel[fd]
  <2> TAKE fd \in Fds
  <2>1. CASE Mine(fd) = {}
    <3>1. ~\E i \in Alive(t) : t.conns[i].sock = fd
      BY <1>1, <2>1
    <3> QED BY <2>1, <3>1
  <2>2. CASE Mine(fd) # {}
    <3>1. PICK i \in Mine(fd) : K[fd] = new[i].k
      BY <2>2
    <3>2. i \in Alive(t)
      BY <1>1 DEF Alive
    <3> QED BY <3>1, <3>2
  <2> QED BY <2>1, <2>2
<1>7. \A i \in Alive(t) : K[t.conns[i].sock] = new[i].k
  <2> TAKE i \in Alive(t)
  <2>1. t.conns[i].sock \in Fds
    BY <1>1
  <2>2. PICK j \in Alive(t) : t.conns[j].sock = t.conns[i].sock /\ K[t.conns[i].sock] = new[j].k
    BY <1>6, <2>1
  <2>3. j = i
    BY <2>2 DEF Sound, Owned
  <2> QED BY <2>2, <2>3
<1>8. K \in [Fds -> Socket]
  <2>1. \A fd \in Fds : K[fd] \in Socket
    BY <1>1, <1>4, <1>6 DEF Tame
  <2> QED BY <2>1
<1>9. u \in Tables
  BY <1>1, <1>2, <1>3, <1>5, <1>8 DEF Tables
<1> HIDE DEF C, K
<1>10. \A i \in DOMAIN t.conns : C[i] = new[i].c
  BY DEF C
<1> HIDE DEF u
<1>11. Alive(u) \subseteq DOMAIN t.conns /\ \A i \in Alive(u) : Live(C[i])
  BY <1>3, <1>5 DEF Alive, Live
<1>12. \A i \in Alive(u) : i \in Alive(t) /\ u.conns[i].sock = t.conns[i].sock
                           /\ u.conns[i].peer = t.conns[i].peer
  BY <1>1, <1>3, <1>4, <1>10, <1>11 DEF Tame
<1>13. \A i \in Alive(u) : u.kernel[u.conns[i].sock] = new[i].k
  BY <1>3, <1>7, <1>12
<1>14. \A i \in Alive(u) : /\ new[i].k.st \notin Unused /\ new[i].k.peer = u.conns[i].peer
                           /\ u.conns[i].ready => new[i].k.st \notin Undecided
  <2> TAKE i \in Alive(u)
  <2>1. Entries(t)[i].k.peer = t.conns[i].peer /\ Live(Entries(t)[i].c) /\ Live(new[i].c)
    BY <1>1, <1>4, <1>10, <1>11, <1>12 DEF Sound, Owned
  <2>2. u.conns[i] = new[i].c
    BY <1>1, <1>3, <1>10, <1>12
  <2> QED BY <1>1, <1>4, <1>12, <2>1, <2>2 DEF Tame, EntryType
<1>15. ASSUME NEW fd \in Fds, NEW i \in Alive(t), t.conns[i].sock = fd, i \notin Alive(u)
       PROVE  K[fd] = Free
  BY <1>1, <1>3, <1>4, <1>5, <1>7, <1>10, <1>15 DEF Alive, Tame, Live
<1>16. ASSUME NEW fd \in Fds, NEW i \in Alive(t), t.conns[i].sock = fd
       PROVE  t.kernel[fd].st \notin Unused /\ K[fd].st # "listening" /\ t.listen # fd
  <2>1. t.kernel[fd].st \notin Unused /\ t.listen # fd
    BY <1>16 DEF Sound, Owned, Unused
  <2>2. CASE i \in Alive(u)
    BY <1>3, <1>12, <1>13, <1>14, <1>16, <2>1, <2>2 DEF Unused
  <2>3. CASE i \notin Alive(u)
    BY <1>15, <1>16, <2>1, <2>3, FreeIs
  <2> QED BY <2>1, <2>2, <2>3
<1>17. Owned(u)
  <2>1. \A i, j \in Alive(u) : u.conns[i].sock = u.conns[j].sock => i = j
    BY <1>12 DEF Sound, Owned
  <2>2. \A i \in Alive(u) : /\ u.kernel[u.conns[i].sock].st \notin Unused
                            /\ u.kernel[u.conns[i].sock].peer = u.conns[i].peer
                            /\ u.conns[i].ready => u.kernel[u.conns[i].sock].st \notin Undecided
    BY <1>13, <1>14
  <2>3. \A fd \in Fds : u.kernel[fd].st = "listening" <=> u.listen = fd
    BY <1>3, <1>6, <1>16 DEF Sound, Owned
  <2>4. ASSUME NEW fd \in Fds, u.kernel[fd].st \notin Unused
        PROVE  \E i \in Alive(u) : u.conns[i].sock = fd
    <3>1. CASE \E i \in Alive(t) : t.conns[i].sock = fd
      <4>1. PICK i \in Alive(t) : t.conns[i].sock = fd
        BY <3>1
      <4>2. i \in Alive(u)
        BY <1>3, <1>15, <2>4, <4>1, FreeIs DEF Unused
      <4> QED BY <1>12, <4>1, <4>2
    <3>2. CASE ~\E i \in Alive(t) : t.conns[i].sock = fd
      BY <1>3, <1>6, <2>4, <3>2 DEF Sound, Owned
    <3> QED BY <3>1, <3>2
  <2> QED BY <2>1, <2>2, <2>3, <2>4 DEF Owned
<1>18. \A fd \in Fds : t.kernel[fd].st = "free" => u.kernel[fd].st = "free"
  <2> SUFFICES ASSUME NEW fd \in Fds, t.kernel[fd].st = "free" PROVE u.kernel[fd].st = "free"
    OBVIOUS
  <2>1. ~\E i \in Alive(t) : t.conns[i].sock = fd
    BY <1>16 DEF Unused
  <2> QED BY <1>3, <1>6, <2>1
<1> QED BY <1>3, <1>5, <1>9, <1>10, <1>12, <1>13, <1>17, <1>18 DEF Sound, u

\* A loop that lets nothing wait on an accepted connection that is found after a
\* dialed one keeps the packets to a peer in one place.
LEMMA RewriteOrderly ==
    ASSUME NEW t, Sound(t), Orderly(t), NEW new, Loop(t, new),
           \A i, j \in DOMAIN t.conns :
              /\ t.conns[j].outbound /\ ~t.conns[i].outbound
              /\ t.conns[i].peer = t.conns[j].peer /\ t.conns[i].out = 0
              => new[i].c.out = 0
    PROVE  Orderly(Rewrite(t, new)) /\ (Single(t) => Single(Rewrite(t, new)))
<1> DEFINE u == Rewrite(t, new)
<1>1. /\ Sound(u)
      /\ u.backlog = t.backlog /\ DOMAIN u.conns = DOMAIN t.conns
      /\ \A i \in DOMAIN t.conns : u.conns[i] = new[i].c
      /\ \A i \in Alive(u) : i \in Alive(t) /\ u.kernel[u.conns[i].sock] = new[i].k
  BY RewriteIs
<1> HIDE DEF u
<1>2. \A i \in DOMAIN t.conns :
          /\ Entries(t)[i].c = t.conns[i]
          /\ i \in Alive(t) => Entries(t)[i].k = t.kernel[t.conns[i].sock]
          /\ Tame(Entries(t)[i], new[i])
  BY EntryIs DEF Loop
<1>3. \A i \in DOMAIN t.conns :
          /\ u.conns[i].peer = t.conns[i].peer /\ u.conns[i].outbound = t.conns[i].outbound
          /\ t.conns[i].ready => u.conns[i].ready
  BY <1>1, <1>2 DEF Tame
<1>4. Once(u) /\ Ready(u)
  BY <1>1, <1>3 DEF Orderly, Once, Ready
<1>5. Second(u)
  BY <1>1, <1>3 DEF Orderly, Second
<1>6. \A i \in Alive(u) : i \in DOMAIN t.conns /\ i \in Alive(t) /\ Live(new[i].c)
  <2> TAKE i \in Alive(u)
  <2>1. i \in DOMAIN u.conns /\ Live(u.conns[i])
    BY DEF Alive, Live
  <2> QED BY <1>1, <2>1
<1>7. \A i \in Alive(u) : IsReset(t, i) => IsReset(u, i)
  BY <1>1, <1>2, <1>6 DEF Tame, IsReset
<1>8. Fresh(u)
  BY <1>1, <1>3, <1>6, <1>7 DEF Orderly, Fresh
<1>9. Single(t) => Single(u)
  BY <1>1, <1>3, <1>6 DEF Single
<1> QED BY <1>4, <1>5, <1>8, <1>9 DEF Orderly, u

\* The compaction keeps the entries that have a socket, in their order.
LEMMA SweepIs ==
    ASSUME NEW t, Sound(t)
    PROVE  LET u == Sweep(t) IN
           /\ Sound(u) /\ u.listen = t.listen /\ u.kernel = t.kernel /\ u.backlog = t.backlog
           /\ Alive(u) = DOMAIN u.conns
           /\ \E f \in [DOMAIN u.conns -> Alive(t)] :
                 /\ \A k \in DOMAIN u.conns : u.conns[k] = t.conns[f[k]]
                 /\ \A j, k \in DOMAIN u.conns : f[j] = f[k] => j = k
<1> DEFINE u == Sweep(t)
           P == {c \in Range(t.conns) : Live(c)}
           r == Filter(t.conns, P)
<1>1. /\ t \in Tables /\ t.conns \in Seq(Conn) /\ DOMAIN t.conns = 1 .. Len(t.conns)
      /\ Len(t.conns) \in Nat
      /\ \A i \in DOMAIN t.conns : Live(t.conns[i]) <=> i \in Alive(t)
      /\ \A i \in Alive(t) : i \in DOMAIN t.conns
  BY TableIs DEF Sound
<1>2. r \in Seq(Conn) /\ \E f : Picks(r, f, t.conns, P, Len(t.conns))
  BY <1>1, FilterPicks
<1>3. PICK f : Picks(r, f, t.conns, P, Len(t.conns))
  BY <1>2
<1>4. u = [t EXCEPT !.conns = r] /\ u \in Tables
  BY <1>1, <1>2 DEF Sweep, Tables
<1>5. u.conns = r /\ u.listen = t.listen /\ u.kernel = t.kernel /\ u.backlog = t.backlog
  BY <1>1, <1>4 DEF Tables
<1>6. \A i \in DOMAIN t.conns : t.conns[i] \in P <=> i \in Alive(t)
  BY <1>1 DEF Range
<1> HIDE DEF r, P, u
<1>7. DOMAIN r = 1 .. Len(r) /\ Len(r) \in Nat
  BY <1>2
<1>8. /\ \A k \in DOMAIN r : f[k] \in Alive(t) /\ r[k] = t.conns[f[k]]
      /\ f \in [DOMAIN r -> DOMAIN t.conns]
      /\ \A j, k \in DOMAIN r : j < k => f[j] < f[k]
      /\ \A i \in Alive(t) : \E k \in DOMAIN r : f[k] = i
  BY <1>1, <1>3, <1>6, <1>7 DEF Picks
<1>9. \A j, k \in DOMAIN r : f[j] = f[k] => j = k
  <2> SUFFICES ASSUME NEW j \in DOMAIN r, NEW k \in DOMAIN r, f[j] = f[k] PROVE j = k
    OBVIOUS
  <2>1. j \in Nat /\ k \in Nat /\ f[j] \in Nat /\ f[k] \in Nat
    BY <1>1, <1>7, <1>8
  <2>2. ~(j < k) /\ ~(k < j)
    BY <1>8, <2>1
  <2> QED BY <2>1, <2>2
<1>10. Alive(u) = DOMAIN u.conns
  <2>1. \A k \in DOMAIN r : r[k].sock # NoFd
    BY <1>8 DEF Alive
  <2> QED BY <1>5, <2>1 DEF Alive
<1>11. Owned(u)
  <2>1. \A i, j \in Alive(u) : u.conns[i].sock = u.conns[j].sock => i = j
    BY <1>5, <1>8, <1>9, <1>10 DEF Sound, Owned
  <2>2. \A i \in Alive(u) : /\ u.kernel[u.conns[i].sock].st \notin Unused
                            /\ u.kernel[u.conns[i].sock].peer = u.conns[i].peer
                            /\ u.conns[i].ready => u.kernel[u.conns[i].sock].st \notin Undecided
    BY <1>5, <1>8, <1>10 DEF Sound, Owned
  <2>3. \A fd \in Fds : u.kernel[fd].st = "listening" <=> u.listen = fd
    BY <1>5 DEF Sound, Owned
  <2>4. ASSUME NEW fd \in Fds, u.kernel[fd].st \notin Unused
        PROVE  \E i \in Alive(u) : u.conns[i].sock = fd
    <3>1. PICK i \in Alive(t) : t.conns[i].sock = fd
      BY <1>5, <2>4 DEF Sound, Owned
    <3>2. PICK k \in DOMAIN r : f[k] = i
      BY <1>8
    <3> QED BY <1>5, <1>8, <1>10, <3>1, <3>2
  <2> QED BY <2>1, <2>2, <2>3, <2>4 DEF Owned
<1>12. f \in [DOMAIN u.conns -> Alive(t)]
  BY <1>5, <1>8
<1> QED BY <1>4, <1>5, <1>8, <1>9, <1>10, <1>11, <1>12 DEF Sound, u

\* And whatever is said of the entries that have one.
LEMMA SweepOrderly ==
    ASSUME NEW t, Sound(t), Orderly(t)
    PROVE  Orderly(Sweep(t)) /\ (Single(t) => Single(Sweep(t)))
<1> DEFINE u == Sweep(t)
<1>1. u.kernel = t.kernel /\ u.backlog = t.backlog /\ Alive(u) = DOMAIN u.conns
  BY SweepIs
<1>2. PICK f \in [DOMAIN u.conns -> Alive(t)] :
          /\ \A k \in DOMAIN u.conns : u.conns[k] = t.conns[f[k]]
          /\ \A j, k \in DOMAIN u.conns : f[j] = f[k] => j = k
  BY SweepIs
<1>3. \A k \in DOMAIN u.conns : f[k] \in Alive(t) /\ f[k] \in DOMAIN t.conns
  BY <1>2 DEF Alive
<1> HIDE DEF u
<1>4. Once(u) /\ Second(u) /\ Ready(u)
  BY <1>2, <1>3 DEF Orderly, Once, Second, Ready
<1>5. Fresh(u)
  BY <1>1, <1>2, <1>3 DEF Orderly, Fresh, IsReset
<1>6. Single(t) => Single(u)
  BY <1>1, <1>2, <1>3 DEF Single
<1> QED BY <1>4, <1>5, <1>6 DEF Orderly, u

-------------------------------------------------------------------------------
(* The functions of the code.                                              *)

\* find returns an entry for the peer, a dialed one if there is one.
LEMMA FindIs ==
    ASSUME NEW t \in Tables, NEW p \in Peers
    PROVE  /\ Find(t, p) = 0 => \A j \in DOMAIN t.conns : t.conns[j].peer # p
           /\ Find(t, p) # 0 =>
                 /\ Find(t, p) \in DOMAIN t.conns /\ t.conns[Find(t, p)].peer = p
                 /\ \A j \in DOMAIN t.conns :
                       t.conns[j].peer = p /\ t.conns[j].outbound => t.conns[Find(t, p)].outbound
<1> DEFINE mine == {i \in DOMAIN t.conns : t.conns[i].peer = p}
           dialed == {i \in mine : t.conns[i].outbound}
<1>1. DOMAIN t.conns = 1 .. Len(t.conns) /\ Len(t.conns) \in Nat
  BY TableIs
<1>2. CASE dialed # {}
  <2>1. Find(t, p) = Min(dialed) /\ dialed \in SUBSET Nat
    BY <1>1, <1>2 DEF Find
  <2>2. Min(dialed) \in dialed
    BY <1>2, <2>1, MinIs
  <2>3. Find(t, p) \in dialed /\ Find(t, p) # 0
    BY <1>1, <2>1, <2>2
  <2> QED BY <2>3
<1>3. CASE dialed = {}
  <2> DEFINE both == mine \cup {0}
  <2>1. Find(t, p) = Max(both)
    BY <1>3 DEF Find
  <2>2. both \in SUBSET (0 .. Len(t.conns)) /\ both # {}
    BY <1>1
  <2>3. Max(both) \in both /\ \A m \in both : Max(both) >= m
    BY <1>1, <2>2, MaxIs
  <2>4. ASSUME Find(t, p) = 0, NEW j \in mine PROVE FALSE
    <3>1. 0 >= j
      BY <2>1, <2>3, <2>4
    <3>2. j \in Nat /\ j >= 1
      BY <1>1
    <3> QED BY <3>1, <3>2
  <2>5. Find(t, p) # 0 => Find(t, p) \in mine
    BY <2>1, <2>3
  <2> QED BY <1>3, <2>4, <2>5
<1> QED BY <1>2, <1>3

\* closeListen: the books stay right, and there is no listener any more.
LEMMA CloseListenIs ==
    ASSUME NEW t, Sound(t), Lined(t)
    PROVE  Sound(CloseListen(t)) /\ Lined(CloseListen(t)) /\ CloseListen(t).listen = NoFd
<1> DEFINE new == [i \in DOMAIN t.conns |->
                      IF Entries(t)[i].c.outbound THEN Entries(t)[i] ELSE Drop(Entries(t)[i])]
           w == Rewrite(t, new)
           u == Sweep(w)
           v == [u EXCEPT !.listen = NoFd, !.kernel[t.listen] = Free, !.backlog = <<>>]
<1>1. \A i \in DOMAIN t.conns : Quiet(Entries(t)[i], new[i]) /\ Entries(t)[i].c = t.conns[i]
  BY EntryIs, QuietSame, QuietDrop
<1>2. CloseListen(t) = IF t.listen = NoFd THEN u ELSE v
  BY DEF CloseListen, EachConn
<1> HIDE DEF new
<1>3. Loop(t, new)
  BY <1>1 DEF Loop, Quiet
<1>4. Sound(w) /\ w.listen = t.listen
  BY <1>3, RewriteIs
<1>5. Lined(w)
  BY <1>1, <1>3, RewriteOrderly DEF Lined, Quiet
<1> HIDE DEF w
<1>6. Sound(u) /\ u.listen = t.listen /\ Lined(u)
  BY <1>4, <1>5, SweepIs, SweepOrderly DEF Lined
<1> HIDE DEF u
<1>7. CASE t.listen # NoFd
  <2>1. u \in Tables /\ t.listen \in Fds /\ u.kernel \in [Fds -> Socket]
        /\ u.kernel[t.listen].st = "listening" /\ NoFd \notin Fds
    BY <1>6, <1>7, TableIs DEF Sound, Owned
  <2>2. /\ v.listen = NoFd /\ v.conns = u.conns /\ v.backlog = <<>>
        /\ v.kernel = [u.kernel EXCEPT ![t.listen] = Free] /\ v \in Tables
    <3>1. [u.kernel EXCEPT ![t.listen] = Free] \in [Fds -> Socket]
      BY <2>1, FreeIs
    <3>2. <<>> \in Seq(Peers)
      OBVIOUS
    <3> QED BY <2>1, <3>1, <3>2 DEF Tables
  <2>3. /\ v.kernel[t.listen].st = "free"
        /\ \A fd \in Fds : fd # t.listen => v.kernel[fd] = u.kernel[fd]
    BY <2>1, <2>2, FreeIs
  <2> HIDE DEF v
  <2>4. Alive(v) = Alive(u)
    BY <2>2 DEF Alive
  <2>5. \A i \in Alive(v) : v.conns[i].sock \in Fds /\ v.conns[i].sock # t.listen
    BY <1>6, <2>1, <2>2, <2>4, TableIs DEF Sound, Owned, Unused
  <2>6. Owned(v)
    BY <1>6, <2>1, <2>2, <2>3, <2>4, <2>5 DEF Sound, Owned, Unused
  <2>7. Fresh(v)
    BY <2>2 DEF Fresh
  <2>8. Lined(v)
    BY <1>6, <2>2, <2>4, <2>7 DEF Lined, Orderly, Once, Second, Ready, Single
  <2> QED BY <1>2, <1>7, <2>2, <2>6, <2>8 DEF Sound
<1> QED BY <1>2, <1>6, <1>7

\* close leaves nothing.
LEMMA CloseAllIs ==
    ASSUME NEW t, Sound(t), Lined(t)
    PROVE  Sound(CloseAll(t)) /\ Lined(CloseAll(t)) /\ CloseAll(t).listen = NoFd
<1> DEFINE new == [i \in DOMAIN t.conns |-> Drop(Entries(t)[i])]
           w == Rewrite(t, new)
           u == [w EXCEPT !.conns = <<>>]
<1>1. \A i \in DOMAIN t.conns : Quiet(Entries(t)[i], new[i]) /\ Entries(t)[i].c \in Conn
  BY EntryIs, QuietDrop DEF EntryType
<1>2. \A i \in DOMAIN t.conns : new[i].c.sock = NoFd
  BY <1>1 DEF Drop, Conn
<1>3. CloseAll(t) = CloseListen(u)
  BY DEF CloseAll, EachConn
<1> HIDE DEF new
<1>4. Loop(t, new)
  BY <1>1 DEF Loop, Quiet
<1>5. /\ Sound(w) /\ w.backlog = t.backlog /\ DOMAIN w.conns = DOMAIN t.conns
      /\ \A i \in DOMAIN t.conns : w.conns[i] = new[i].c
  BY <1>4, RewriteIs
<1> HIDE DEF w
<1>6. Alive(w) = {}
  BY <1>2, <1>5 DEF Alive
<1>7. /\ u \in Tables /\ u.conns = <<>> /\ u.listen = w.listen /\ u.kernel = w.kernel
      /\ u.backlog = w.backlog
  <2>1. w \in Tables /\ <<>> \in Seq(Conn)
    BY <1>5 DEF Sound
  <2> QED BY <2>1 DEF Tables
<1> HIDE DEF u
<1>8. DOMAIN u.conns = {} /\ Alive(u) = {}
  BY <1>7 DEF Alive
<1>9. Sound(u)
  BY <1>5, <1>6, <1>7, <1>8 DEF Sound, Owned
<1>10. Lined(u)
  BY <1>5, <1>7, <1>8 DEF Lined, Orderly, Once, Second, Ready, Fresh, Single
<1> QED BY <1>3, <1>9, <1>10, CloseListenIs

\* A descriptor that is free belongs to nobody.
LEMMA FreeFd ==
    ASSUME NEW t, Sound(t), FreeFds(t) # {}
    PROVE  LET fd == Min(FreeFds(t)) IN
           /\ fd \in Fds /\ t.kernel[fd].st = "free" /\ t.listen # fd
           /\ \A i \in Alive(t) : t.conns[i].sock # fd
<1>1. FreeFds(t) \in SUBSET Nat
  BY DEF FreeFds
<1>2. Min(FreeFds(t)) \in FreeFds(t)
  BY <1>1, MinIs
<1> QED BY <1>2 DEF FreeFds, Sound, Owned, Unused

\* listen
LEMMA ListenIs ==
    ASSUME NEW t, Sound(t), Lined(t), FreeFds(CloseAll(t)) # {}
    PROVE  Sound(Listen(t)) /\ Lined(Listen(t))
<1> DEFINE u == CloseAll(t)
           fd == Min(FreeFds(u))
           k == New("listening", NoPeer)
           v == [u EXCEPT !.listen = fd, !.kernel[fd] = k]
<1>1. Sound(u) /\ Lined(u) /\ u.listen = NoFd
  BY CloseAllIs
<1>2. /\ fd \in Fds /\ u.kernel[fd].st = "free"
      /\ \A i \in Alive(u) : u.conns[i].sock # fd
  BY <1>1, FreeFd
<1>3. Listen(t) = v
  BY DEF Listen
<1>4. k \in Socket /\ k.st = "listening"
  BY DEF New, Socket, AnyPeer
<1> HIDE DEF u, fd, k
<1>5. u \in Tables /\ u.kernel \in [Fds -> Socket] /\ NoFd \notin Fds
  BY <1>1, TableIs DEF Sound
<1>6. /\ v.listen = fd /\ v.conns = u.conns /\ v.backlog = u.backlog
      /\ v.kernel = [u.kernel EXCEPT ![fd] = k] /\ v \in Tables
  BY <1>2, <1>4, <1>5 DEF Tables
<1>7. /\ v.kernel[fd].st = "listening"
      /\ \A g \in Fds : g # fd => v.kernel[g] = u.kernel[g]
  BY <1>2, <1>4, <1>5, <1>6
<1> HIDE DEF v
<1>8. Alive(v) = Alive(u)
  BY <1>6 DEF Alive
<1>9. \A i \in Alive(u) : u.conns[i].sock \in Fds
  BY <1>5, TableIs
<1>10. Owned(v)
  BY <1>1, <1>2, <1>5, <1>6, <1>7, <1>8, <1>9 DEF Sound, Owned, Unused
<1>11. Fresh(v)
  BY <1>1, <1>2, <1>6, <1>7, <1>8, <1>9 DEF Lined, Orderly, Fresh, IsReset
<1>12. Lined(v)
  BY <1>1, <1>6, <1>8, <1>11 DEF Lined, Orderly, Once, Second, Ready, Single
<1> QED BY <1>3, <1>6, <1>10, <1>12 DEF Sound

\* connect: the new entry has a descriptor that was free and a peer that had none.
LEMMA DialsIs ==
    ASSUME NEW t, Sound(t), Lined(t), NEW p \in Peers, NEW st \in DialOutcomes
    PROVE  Sound(Dials(t, p, st)) /\ Lined(Dials(t, p, st))
<1> DEFINE fd == Min(FreeFds(t))
           c == [sock |-> fd, peer |-> p, outbound |-> TRUE, ready |-> st = "open", out |-> 0]
           k == New(st, p)
           v == [t EXCEPT !.kernel[fd] = k, !.conns = Append(@, c)]
           n == Len(t.conns) + 1
<1>1. Dials(t, p, st) = IF Find(t, p) # 0 \/ FreeFds(t) = {} \/ st = "refused" THEN t ELSE v
  BY DEF Dials
<1>2. SUFFICES ASSUME Find(t, p) = 0, FreeFds(t) # {}, st # "refused"
               PROVE  Sound(v) /\ Lined(v)
  BY <1>1
<1>3. /\ t \in Tables /\ t.conns \in Seq(Conn) /\ DOMAIN t.conns = 1 .. Len(t.conns)
      /\ Len(t.conns) \in Nat /\ t.kernel \in [Fds -> Socket]
      /\ \A i \in Alive(t) : i \in DOMAIN t.conns /\ t.conns[i].sock \in Fds
      /\ NoFd \notin Fds
  BY TableIs DEF Sound
<1>4. /\ fd \in Fds /\ t.kernel[fd].st = "free" /\ t.listen # fd
      /\ \A i \in Alive(t) : t.conns[i].sock # fd
  BY <1>2, FreeFd
<1>5. \A j \in DOMAIN t.conns : t.conns[j].peer # p
  BY <1>2, <1>3, FindIs
<1> HIDE DEF fd
<1>6. k \in Socket /\ k.st \notin Unused /\ k.peer = p /\ k.st = st
  BY <1>2 DEF New, Socket, AnyPeer, DialOutcomes, Unused
<1>7. /\ c \in Conn /\ c.sock = fd /\ c.peer = p /\ c.outbound
      /\ c.ready => st \notin Undecided
  <2>1. (st = "open") \in BOOLEAN /\ 0 \in 0 .. MaxOut
    OBVIOUS
  <2> QED BY <1>4, <2>1 DEF Conn, Undecided
<1> HIDE DEF c, k
<1>8. Append(t.conns, c) \in Seq(Conn) /\ [t.kernel EXCEPT ![fd] = k] \in [Fds -> Socket]
  BY <1>3, <1>4, <1>6, <1>7
<1>9. /\ v.listen = t.listen /\ v.backlog = t.backlog /\ v.conns = Append(t.conns, c)
      /\ v.kernel = [t.kernel EXCEPT ![fd] = k] /\ v \in Tables
  BY <1>3, <1>8 DEF Tables
<1>10. /\ v.kernel[fd] = k
       /\ \A g \in Fds : g # fd => v.kernel[g] = t.kernel[g]
  BY <1>3, <1>4, <1>9
<1>11. /\ DOMAIN v.conns = DOMAIN t.conns \cup {n} /\ n \notin DOMAIN t.conns
       /\ v.conns[n] = c /\ \A i \in DOMAIN t.conns : v.conns[i] = t.conns[i]
  BY <1>3, <1>7, <1>9
<1> HIDE DEF v, n
<1>12. Alive(v) = Alive(t) \cup {n} /\ n \notin Alive(t)
  BY <1>3, <1>4, <1>7, <1>11 DEF Alive
<1>13. \A i \in Alive(t) : v.conns[i] = t.conns[i] /\ v.kernel[v.conns[i].sock] = t.kernel[t.conns[i].sock]
                           /\ v.conns[i].sock # fd
  BY <1>3, <1>4, <1>10, <1>11
<1>14. Owned(v)
  <2>1. \A i, j \in Alive(v) : v.conns[i].sock = v.conns[j].sock => i = j
    BY <1>7, <1>11, <1>12, <1>13 DEF Sound, Owned
  <2>2. \A i \in Alive(v) : /\ v.kernel[v.conns[i].sock].st \notin Unused
                            /\ v.kernel[v.conns[i].sock].peer = v.conns[i].peer
                            /\ v.conns[i].ready => v.kernel[v.conns[i].sock].st \notin Undecided
    BY <1>6, <1>7, <1>10, <1>11, <1>12, <1>13 DEF Sound, Owned
  <2>3. \A g \in Fds : v.kernel[g].st = "listening" <=> v.listen = g
    BY <1>4, <1>6, <1>9, <1>10 DEF Sound, Owned, Unused
  <2>4. \A g \in Fds : v.kernel[g].st \notin Unused => \E i \in Alive(v) : v.conns[i].sock = g
    BY <1>7, <1>10, <1>11, <1>12, <1>13 DEF Sound, Owned
  <2> QED BY <2>1, <2>2, <2>3, <2>4 DEF Owned
<1>15. Once(v) /\ Second(v) /\ Ready(v)
  BY <1>5, <1>7, <1>11 DEF Lined, Orderly, Once, Second, Ready
<1>16. Fresh(v)
  <2>1. \A i \in Alive(v) : ~v.conns[i].outbound => i \in Alive(t)
    BY <1>7, <1>11, <1>12
  <2>2. \A i \in Alive(t) : v.conns[i] = t.conns[i] /\ (IsReset(t, i) => IsReset(v, i))
    BY <1>13 DEF IsReset
  <2> QED BY <1>9, <2>1, <2>2 DEF Lined, Orderly, Fresh
<1>17. Single(v)
  BY <1>7, <1>11, <1>12, <1>13 DEF Lined, Single
<1> QED BY <1>9, <1>14, <1>15, <1>16, <1>17 DEF Sound, Lined, Orderly

\* sendTo: one entry is changed, the one that is found.
LEMMA SendIs ==
    ASSUME NEW t, Sound(t), Lined(t), NEW p \in Peers, Find(t, p) # 0,
           t.conns[Find(t, p)].out < MaxOut
    PROVE  LET u == Rewrite(t, [Entries(t) EXCEPT ![Find(t, p)] = SendOn(@)])
           IN Sound(u) /\ Lined(u)
<1> DEFINE i == Find(t, p)
           e == Entries(t)[i]
           q == Queued(e)
           new == [Entries(t) EXCEPT ![i] = SendOn(@)]
<1>1. /\ i \in DOMAIN t.conns /\ t.conns[i].peer = p /\ DOMAIN Entries(t) = DOMAIN t.conns
      /\ \A j \in DOMAIN t.conns :
            t.conns[j].peer = p /\ t.conns[j].outbound => t.conns[i].outbound
  BY FindIs DEF Sound, Entries
<1> HIDE DEF i
<1>2. EntryType(e) /\ e.c = t.conns[i] /\ e.c.out < MaxOut /\ e.c \in Conn /\ e.c.out \in Nat
  <2>1. EntryType(e) /\ e.c = t.conns[i]
    BY <1>1, EntryIs
  <2> QED BY <2>1 DEF EntryType, Conn, i
<1>3. new[i] = SendOn(e) /\ \A j \in DOMAIN t.conns : j # i => new[j] = Entries(t)[j]
  BY <1>1
<1> HIDE DEF e, new
<1>4. /\ q \in [c : Conn, k : Socket] /\ q.k = e.k /\ q.c.peer = e.c.peer
      /\ q.c.outbound = e.c.outbound /\ q.c.ready = e.c.ready /\ q.c.sock = e.c.sock
  <2>1. e.c.out + 1 \in 0 .. MaxOut
    BY <1>2
  <2>2. [e.c EXCEPT !.out = @ + 1] \in Conn
    BY <1>2, <2>1 DEF Conn
  <2>3. q = [c |-> [e.c EXCEPT !.out = @ + 1], k |-> e.k]
    BY <1>2 DEF EntryType, Queued
  <2>4. e.k \in Socket
    BY <1>2 DEF EntryType
  <2> QED BY <1>2, <2>2, <2>3, <2>4 DEF Conn
<1> HIDE DEF q
<1>5. EntryType(q) /\ Tame(e, q)
  BY <1>2, <1>4 DEF EntryType, Tame, Live
<1>6. Quiet(q, SendOn(e))
  BY <1>4, <1>5, QuietFlush, QuietSame DEF SendOn, q
<1>7. Tame(e, SendOn(e))
  BY <1>5, <1>6 DEF Tame, Quiet
<1>8. \A j \in DOMAIN t.conns : EntryType(Entries(t)[j]) /\ Entries(t)[j].c = t.conns[j]
  BY EntryIs
<1>9. Loop(t, new)
  BY <1>3, <1>7, <1>8, QuietSame DEF Loop, Quiet, e
<1>10. ASSUME NEW j \in DOMAIN t.conns, NEW k \in DOMAIN t.conns,
              t.conns[k].outbound, ~t.conns[j].outbound, t.conns[j].peer = t.conns[k].peer,
              t.conns[j].out = 0
       PROVE  new[j].c.out = 0
  <2>1. j # i
    BY <1>1, <1>10
  <2> QED BY <1>3, <1>8, <1>10, <2>1
<1>11. Sound(Rewrite(t, new))
  BY <1>9, RewriteIs
<1>12. Orderly(Rewrite(t, new)) /\ Single(Rewrite(t, new))
  BY <1>9, <1>10, RewriteOrderly DEF Lined
<1> QED BY <1>11, <1>12 DEF Lined, new, i

\* accept gives out descriptors that were free, each of them once.
LEMMA LowestIs ==
    ASSUME NEW t, Sound(t), NEW fds \in Lowest(t)
    PROVE  LET n == Cardinality(DOMAIN fds) IN
           /\ n \in Nat /\ n <= Len(t.backlog) /\ DOMAIN fds = 1 .. n
           /\ Len(t.backlog) <= Cardinality(FreeFds(t)) => n = Len(t.backlog)
           /\ \A j \in 1 .. n : fds[j] \in FreeFds(t)
           /\ \A j, m \in 1 .. n : fds[j] = fds[m] => j = m
<1> DEFINE free == FreeFds(t)
           l == Len(t.backlog)
           n == Min({l, Cardinality(free)})
<1>1. l \in Nat /\ Cardinality(free) \in Nat /\ free \in SUBSET Nat
  <2>1. free \subseteq Fds /\ IsFiniteSet(free)
    BY FS_Subset DEF FreeFds
  <2>2. Cardinality(free) \in Nat
    BY <2>1, FS_CardinalityType
  <2>3. Len(t.backlog) \in Nat
    BY TableIs DEF Sound
  <2> QED BY <2>1, <2>2, <2>3
<1>2. /\ fds \in [1 .. n -> free]
      /\ \A j \in DOMAIN fds, fd \in free :
            fd < fds[j] <=> \E m \in 1 .. j - 1 : fds[m] = fd
  BY DEF Lowest
<1> HIDE DEF free
<1>3. n \in {l, Cardinality(free)} /\ n <= l /\ n <= Cardinality(free)
  <2> DEFINE T == {l, Cardinality(free)}
  <2>1. T \in SUBSET Nat /\ T # {}
    BY <1>1
  <2>2. Min(T) \in T /\ \A m \in T : Min(T) <= m
    BY <2>1, MinIs
  <2> QED BY <2>2
<1> HIDE DEF l, n
<1>4. n \in Nat /\ n <= l /\ (l <= Cardinality(free) => n = l)
  BY <1>1, <1>3
<1>5. Cardinality(DOMAIN fds) = n
  BY <1>2, <1>4, FS_Interval
<1>6. \A j, m \in 1 .. n : j < m => fds[j] # fds[m]
  <2> SUFFICES ASSUME NEW j \in 1 .. n, NEW m \in 1 .. n, j < m, fds[j] = fds[m] PROVE FALSE
    OBVIOUS
  <2>1. j \in 1 .. m - 1
    BY <1>4
  <2>2. m \in DOMAIN fds /\ fds[j] \in free /\ fds[m] \in free
    BY <1>2
  <2>3. fds[m] \in Nat
    BY <1>1, <2>2
  <2>4. fds[j] < fds[m]
    BY <1>2, <2>1, <2>2
  <2> QED BY <2>3, <2>4
<1>7. \A j, m \in 1 .. n : fds[j] = fds[m] => j = m
  <2> SUFFICES ASSUME NEW j \in 1 .. n, NEW m \in 1 .. n, fds[j] = fds[m] PROVE j = m
    OBVIOUS
  <2>1. ~(j < m) /\ ~(m < j) /\ j \in Nat /\ m \in Nat
    BY <1>4, <1>6
  <2> QED BY <2>1
<1> QED BY <1>2, <1>4, <1>5, <1>7 DEF free, l

\* Of two live accepted entries of one peer, one is reset: what stays of Single
\* between accept and the loop that receives.
AtMostReset(t) ==
    \A i, j \in Alive(t) :
        ~t.conns[i].outbound /\ ~t.conns[j].outbound /\ t.conns[i].peer = t.conns[j].peer
        => i = j \/ IsReset(t, i) \/ IsReset(t, j)

\* accept: new entries at the end, each with the socket of its own descriptor.
LEMMA AcceptIs ==
    ASSUME NEW t, Sound(t), Lined(t), NEW fds \in Lowest(t)
    PROVE  LET u == AcceptAll(t, fds) IN
           /\ Sound(u) /\ Orderly(u) /\ AtMostReset(u)
           /\ Len(t.backlog) <= Cardinality(FreeFds(t)) => u.backlog = <<>>
<1> DEFINE n == Cardinality(DOMAIN fds)
           l == Len(t.conns)
           C == [j \in 1 .. n |-> Accepted(fds[j], t.backlog[j])]
           K == [fd \in Fds |->
                     IF \E j \in 1 .. n : fds[j] = fd
                     THEN New("open", t.backlog[CHOOSE j \in 1 .. n : fds[j] = fd])
                     ELSE t.kernel[fd]]
           B == SubSeq(t.backlog, n + 1, Len(t.backlog))
           u == [t EXCEPT !.conns = @ \o C, !.kernel = K, !.backlog = B]
<1>1. AcceptAll(t, fds) = u
  BY DEF AcceptAll
<1>2. /\ n \in Nat /\ n <= Len(t.backlog)
      /\ Len(t.backlog) <= Cardinality(FreeFds(t)) => n = Len(t.backlog)
      /\ \A j \in 1 .. n : fds[j] \in FreeFds(t)
      /\ \A j, m \in 1 .. n : fds[j] = fds[m] => j = m
  BY LowestIs
<1> HIDE DEF n
<1>3. /\ t \in Tables /\ t.conns \in Seq(Conn) /\ DOMAIN t.conns = 1 .. l /\ l \in Nat
      /\ t.kernel \in [Fds -> Socket] /\ t.backlog \in Seq(Peers)
      /\ \A i \in Alive(t) : i \in DOMAIN t.conns /\ t.conns[i].sock \in Fds
      /\ NoFd \notin Fds
  BY TableIs DEF Sound
<1>4. \A j \in 1 .. n : fds[j] \in Fds /\ t.kernel[fds[j]].st = "free" /\ t.backlog[j] \in Peers
  BY <1>2, <1>3 DEF FreeFds
<1>5. \A j \in 1 .. n : /\ C[j] \in Conn /\ C[j].sock = fds[j] /\ C[j].peer = t.backlog[j]
                        /\ ~C[j].outbound /\ C[j].ready /\ C[j].out = 0
  <2>1. 0 \in 0 .. MaxOut
    OBVIOUS
  <2> QED BY <1>4, <2>1 DEF Accepted, Conn
<1>6. \A j \in 1 .. n : K[fds[j]] = New("open", t.backlog[j])
  <2> TAKE j \in 1 .. n
  <2> DEFINE m == CHOOSE m \in 1 .. n : fds[m] = fds[j]
  <2>1. m \in 1 .. n /\ fds[m] = fds[j]
    OBVIOUS
  <2>2. m = j
    BY <1>2, <2>1
  <2>3. K[fds[j]] = New("open", t.backlog[m])
    BY <1>4
  <2> QED BY <2>2, <2>3
<1>7. \A fd \in Fds : (~\E j \in 1 .. n : fds[j] = fd) => K[fd] = t.kernel[fd]
  OBVIOUS
<1>8. \A p \in Peers : /\ New("open", p) \in Socket /\ New("open", p).st = "open"
                       /\ New("open", p).peer = p
  BY DEF New, Socket, AnyPeer
<1>9. K \in [Fds -> Socket]
  <2>1. \A fd \in Fds : K[fd] \in Socket
    <3> TAKE fd \in Fds
    <3>1. CASE \E j \in 1 .. n : fds[j] = fd
      BY <1>4, <1>6, <1>8, <3>1
    <3>2. CASE ~\E j \in 1 .. n : fds[j] = fd
      BY <1>3, <1>7, <3>2
    <3> QED BY <3>1, <3>2
  <2> QED BY <2>1
<1>10. C \in Seq(Conn) /\ Len(C) = n
  BY <1>2, <1>5
<1>11. /\ B \in Seq(Peers) /\ Len(B) = Len(t.backlog) - n
       /\ \A k \in 1 .. Len(B) : B[k] = t.backlog[n + k] /\ n + k \in 1 .. Len(t.backlog)
  <2>1. Len(t.backlog) \in Nat
    BY <1>3
  <2>2. B = [k \in 1 .. Len(t.backlog) - n |-> t.backlog[n + k]]
    BY <1>2, <1>3, <2>1
  <2>3. \A k \in 1 .. Len(t.backlog) - n : n + k \in 1 .. Len(t.backlog)
    BY <1>2, <2>1
  <2>4. \A k \in 1 .. Len(t.backlog) - n : t.backlog[n + k] \in Peers
    BY <1>3, <2>3
  <2>5. Len(t.backlog) - n \in Nat
    BY <1>2, <2>1
  <2>6. B \in Seq(Peers) /\ Len(B) = Len(t.backlog) - n
    <3> DEFINE m == Len(t.backlog) - n
               D == [k \in 1 .. m |-> t.backlog[n + k]]
    <3>1. m \in Nat /\ B = D /\ \A k \in 1 .. m : t.backlog[n + k] \in Peers
      BY <2>2, <2>4, <2>5
    <3> HIDE DEF m, B
    <3>2. D \in [1 .. m -> Peers]
      BY <3>1
    <3>3. D \in Seq(Peers)
      BY <3>1, <3>2
    <3>4. Len(D) = m
      BY <3>1
    <3> QED BY <3>1, <3>3, <3>4 DEF m
  <2> QED BY <2>2, <2>3, <2>6
<1> HIDE DEF C, K, B
<1>12. t.conns \o C \in Seq(Conn)
  BY <1>3, <1>10
<1>13. /\ u.listen = t.listen /\ u.conns = t.conns \o C /\ u.kernel = K /\ u.backlog = B
       /\ u \in Tables
  BY <1>3, <1>9, <1>11, <1>12 DEF Tables
<1> HIDE DEF u
<1>14. /\ DOMAIN u.conns = 1 .. l + n
       /\ \A i \in 1 .. l : u.conns[i] = t.conns[i]
       /\ \A j \in 1 .. n : u.conns[l + j] = C[j]
  <2>1. /\ Len(t.conns \o C) = l + n
        /\ \A i \in 1 .. l + n : (t.conns \o C)[i] = IF i <= l THEN t.conns[i] ELSE C[i - l]
    <3> DEFINE s == t.conns
    <3>1. s \in Seq(Conn) /\ C \in Seq(Conn)
      BY <1>3, <1>10
    <3> HIDE DEF s
    <3>2. /\ Len(s \o C) = Len(s) + Len(C)
          /\ \A i \in 1 .. Len(s) + Len(C) : (s \o C)[i] = IF i <= Len(s) THEN s[i]
                                                          ELSE C[i - Len(s)]
      BY <3>1
    <3> QED BY <1>10, <3>2 DEF s
  <2>2. DOMAIN (t.conns \o C) = 1 .. l + n
    BY <1>12, <2>1
  <2>3. \A i \in 1 .. l : i \in 1 .. l + n /\ i <= l
    BY <1>2, <1>3
  <2>4. \A j \in 1 .. n : l + j \in 1 .. l + n /\ ~(l + j <= l) /\ (l + j) - l = j
    BY <1>2, <1>3
  <2> HIDE DEF l
  <2> QED BY <1>13, <2>1, <2>2, <2>3, <2>4
<1> HIDE DEF l
<1>15. \A i \in 1 .. l + n : i \in 1 .. l \/ \E j \in 1 .. n : i = l + j
  <2> TAKE i \in 1 .. l + n
  <2>1. i \in 1 .. l \/ (i - l \in 1 .. n /\ i = l + (i - l))
    BY <1>2, <1>3
  <2> QED BY <2>1
<1>16. \A i \in Alive(u) : i \in Alive(t) \/ \E j \in 1 .. n : i = l + j
  BY <1>3, <1>14, <1>15 DEF Alive
<1>17. \A i \in Alive(t) : /\ i \in Alive(u) /\ u.conns[i] = t.conns[i]
                           /\ \A j \in 1 .. n : u.conns[i].sock # fds[j]
                           /\ u.kernel[u.conns[i].sock] = t.kernel[t.conns[i].sock]
  <2> TAKE i \in Alive(t)
  <2>1. i \in 1 .. l /\ i \in 1 .. l + n /\ u.conns[i] = t.conns[i] /\ u.conns[i].sock # NoFd
    BY <1>2, <1>3, <1>14 DEF Alive
  <2>2. \A j \in 1 .. n : u.conns[i].sock # fds[j]
    BY <1>4, <2>1 DEF Sound, Owned, Unused
  <2>3. u.kernel[u.conns[i].sock] = t.kernel[t.conns[i].sock]
    BY <1>3, <1>7, <1>13, <2>1, <2>2
  <2>4. i \in Alive(u)
    BY <1>14, <2>1 DEF Alive
  <2> QED BY <2>1, <2>2, <2>3, <2>4
<1>18. \A j \in 1 .. n : /\ l + j \in Alive(u) /\ u.conns[l + j].sock = fds[j]
                         /\ u.conns[l + j].peer = t.backlog[j] /\ ~u.conns[l + j].outbound
                         /\ u.kernel[fds[j]].st = "open" /\ u.kernel[fds[j]].peer = t.backlog[j]
  <2> TAKE j \in 1 .. n
  <2>1. l + j \in 1 .. l + n
    BY <1>2, <1>3
  <2>2. u.conns[l + j].sock = fds[j] /\ fds[j] # NoFd
    BY <1>3, <1>4, <1>5, <1>14
  <2>3. l + j \in Alive(u)
    BY <1>14, <2>1, <2>2 DEF Alive
  <2>4. u.conns[l + j] = C[j] /\ u.conns[l + j].peer = t.backlog[j] /\ ~u.conns[l + j].outbound
    BY <1>5, <1>14
  <2>5. u.kernel[fds[j]] = New("open", t.backlog[j]) /\ t.backlog[j] \in Peers
    BY <1>4, <1>6, <1>13
  <2> QED BY <1>8, <2>2, <2>3, <2>4, <2>5
<1>19. Owned(u)
  <2>1. ASSUME NEW i \in Alive(u), NEW j \in Alive(u), u.conns[i].sock = u.conns[j].sock
        PROVE  i = j
    <3>1. CASE i \in Alive(t) /\ j \in Alive(t)
      BY <1>17, <2>1, <3>1 DEF Sound, Owned
    <3>2. CASE i \in Alive(t) /\ j \notin Alive(t)
      BY <1>16, <1>17, <1>18, <2>1, <3>2
    <3>3. CASE i \notin Alive(t) /\ j \in Alive(t)
      BY <1>16, <1>17, <1>18, <2>1, <3>3
    <3>4. CASE i \notin Alive(t) /\ j \notin Alive(t)
      BY <1>2, <1>16, <1>18, <2>1, <3>4
    <3> QED BY <3>1, <3>2, <3>3, <3>4
  <2>2. \A i \in Alive(u) : /\ u.kernel[u.conns[i].sock].st \notin Unused
                            /\ u.kernel[u.conns[i].sock].peer = u.conns[i].peer
                            /\ u.conns[i].ready => u.kernel[u.conns[i].sock].st \notin Undecided
    BY <1>16, <1>17, <1>18 DEF Sound, Owned, Unused, Undecided
  <2>3. ASSUME NEW fd \in Fds PROVE u.kernel[fd].st = "listening" <=> u.listen = fd
    <3>1. CASE \E j \in 1 .. n : fds[j] = fd
      BY <1>4, <1>13, <1>18, <3>1 DEF Sound, Owned
    <3>2. CASE ~\E j \in 1 .. n : fds[j] = fd
      BY <1>7, <1>13, <3>2 DEF Sound, Owned
    <3> QED BY <3>1, <3>2
  <2>4. ASSUME NEW fd \in Fds, u.kernel[fd].st \notin Unused
        PROVE  \E i \in Alive(u) : u.conns[i].sock = fd
    <3>1. CASE \E j \in 1 .. n : fds[j] = fd
      BY <1>18, <3>1
    <3>2. CASE ~\E j \in 1 .. n : fds[j] = fd
      <4>1. t.kernel[fd].st \notin Unused
        BY <1>7, <1>13, <2>4, <3>2
      <4>2. PICK i \in Alive(t) : t.conns[i].sock = fd
        BY <4>1 DEF Sound, Owned
      <4> QED BY <1>17, <4>2
    <3> QED BY <3>1, <3>2
  <2> QED BY <2>1, <2>2, <2>3, <2>4 DEF Owned
<1>20. \A i \in DOMAIN u.conns : \/ i \in DOMAIN t.conns /\ u.conns[i] = t.conns[i]
                                 \/ /\ ~u.conns[i].outbound /\ u.conns[i].ready
                                    /\ u.conns[i].out = 0
  BY <1>3, <1>5, <1>14, <1>15
<1>21. Once(u)
  BY <1>20 DEF Lined, Orderly, Once
<1>22. Second(u)
  BY <1>20 DEF Lined, Orderly, Second
<1>23. Ready(u)
  BY <1>20 DEF Lined, Orderly, Ready
<1>24. \A j, k \in 1 .. Len(t.backlog) : t.backlog[j] = t.backlog[k] => j = k
  BY DEF Lined, Orderly, Fresh
<1>25. \A i \in Alive(t), k \in 1 .. Len(t.backlog) :
          ~t.conns[i].outbound /\ t.conns[i].peer = t.backlog[k] => IsReset(u, i)
  BY <1>17 DEF Lined, Orderly, Fresh, IsReset
<1>26. Fresh(u)
  <2>1. ASSUME NEW j \in 1 .. Len(B), NEW k \in 1 .. Len(B), B[j] = B[k] PROVE j = k
    <3>1. n + j = n + k
      BY <1>11, <1>24, <2>1
    <3> QED BY <1>2, <3>1
  <2>2. ASSUME NEW i \in Alive(u), NEW k \in 1 .. Len(B), ~u.conns[i].outbound,
               u.conns[i].peer = B[k]
        PROVE  IsReset(u, i)
    <3>1. CASE i \in Alive(t)
      BY <1>11, <1>17, <1>25, <2>2, <3>1
    <3>2. CASE i \notin Alive(t)
      <4>1. PICK j \in 1 .. n : i = l + j
        BY <1>16, <3>2
      <4>2. t.backlog[j] = t.backlog[n + k] /\ n + k \in 1 .. Len(t.backlog)
        BY <1>11, <1>18, <2>2, <4>1
      <4>3. j \in 1 .. Len(t.backlog)
        BY <1>2, <1>3
      <4>4. j = n + k
        BY <1>24, <4>2, <4>3
      <4> QED BY <1>2, <4>4
    <3> QED BY <3>1, <3>2
  <2> QED BY <1>13, <2>1, <2>2 DEF Fresh
<1>27. AtMostReset(u)
  <2> SUFFICES ASSUME NEW i \in Alive(u), NEW j \in Alive(u), ~u.conns[i].outbound,
                      ~u.conns[j].outbound, u.conns[i].peer = u.conns[j].peer
               PROVE  i = j \/ IsReset(u, i) \/ IsReset(u, j)
    BY DEF AtMostReset
  <2>1. \A m \in 1 .. n : m \in 1 .. Len(t.backlog)
    BY <1>2, <1>3
  <2>2. CASE i \in Alive(t) /\ j \in Alive(t)
    BY <1>17, <2>2 DEF Lined, Single
  <2>3. CASE i \in Alive(t) /\ j \notin Alive(t)
    BY <1>16, <1>17, <1>18, <1>25, <2>1, <2>3
  <2>4. CASE i \notin Alive(t) /\ j \in Alive(t)
    BY <1>16, <1>17, <1>18, <1>25, <2>1, <2>4
  <2>5. CASE i \notin Alive(t) /\ j \notin Alive(t)
    BY <1>16, <1>18, <1>24, <2>1, <2>5
  <2> QED BY <2>2, <2>3, <2>4, <2>5
<1>28. n = Len(t.backlog) => u.backlog = <<>>
  <2> SUFFICES ASSUME n = Len(t.backlog) PROVE B = <<>>
    BY <1>13
  <2>1. Len(B) = 0
    BY <1>2, <1>11
  <2> QED BY <1>11, <2>1
<1> QED BY <1>1, <1>2, <1>13, <1>19, <1>21, <1>22, <1>23, <1>26, <1>27, <1>28 DEF Sound, Orderly

\* poll: the loops drop what was reset, so Single is back; nothing is left to do.
LEMMA PollIs ==
    ASSUME NEW t, Sound(t), Lined(t), NEW fds \in Lowest(t)
    PROVE  LET u == Sweep(EachConn(LAMBDA e : Receive(FlushReady(FinishDial(e))),
                                   AcceptAll(t, fds)))
           IN /\ Sound(u) /\ Lined(u)
              /\ Len(t.backlog) <= Cardinality(FreeFds(t)) => u.backlog = <<>>
              /\ \A i \in Alive(u) : Calm(u.conns[i], u.kernel[u.conns[i].sock])
<1> DEFINE v == AcceptAll(t, fds)
           new == [i \in DOMAIN v.conns |-> Receive(FlushReady(FinishDial(Entries(v)[i])))]
           w == Rewrite(v, new)
           u == Sweep(w)
<1>1. /\ Sound(v) /\ Orderly(v) /\ AtMostReset(v)
      /\ Len(t.backlog) <= Cardinality(FreeFds(t)) => v.backlog = <<>>
  BY AcceptIs
<1>2. u = Sweep(EachConn(LAMBDA e : Receive(FlushReady(FinishDial(e))), AcceptAll(t, fds)))
  BY DEF EachConn
<1> HIDE DEF v
<1>3. \A i \in DOMAIN v.conns : /\ EntryType(Entries(v)[i]) /\ Entries(v)[i].c = v.conns[i]
                                /\ i \in Alive(v) => Entries(v)[i].k = v.kernel[v.conns[i].sock]
                                /\ new[i] = Polled(Entries(v)[i])
  BY <1>1, EntryIs DEF Polled
<1> HIDE DEF new
<1>4. \A i \in DOMAIN v.conns : Quiet(Entries(v)[i], new[i])
  BY <1>3, QuietPolled
<1>5. Loop(v, new)
  BY <1>4 DEF Loop, Quiet
<1>6. /\ Sound(w) /\ w.backlog = v.backlog /\ DOMAIN w.conns = DOMAIN v.conns
      /\ \A i \in DOMAIN v.conns : w.conns[i] = new[i].c
      /\ \A i \in Alive(w) : i \in Alive(v) /\ w.kernel[w.conns[i].sock] = new[i].k
  BY <1>1, <1>5, RewriteIs
<1>7. Orderly(w)
  BY <1>1, <1>3, <1>4, <1>5, RewriteOrderly DEF Quiet
<1> HIDE DEF w
<1>8. \A i \in Alive(w) : i \in DOMAIN w.conns /\ i \in DOMAIN v.conns /\ i \in Alive(v)
                          /\ Live(new[i].c)
  <2> TAKE i \in Alive(w)
  <2>1. i \in DOMAIN w.conns /\ Live(w.conns[i])
    BY DEF Alive, Live
  <2> QED BY <1>6, <2>1
<1>9. \A i \in Alive(w) : /\ w.conns[i].peer = v.conns[i].peer
                          /\ w.conns[i].outbound = v.conns[i].outbound
  BY <1>3, <1>4, <1>6, <1>8 DEF Quiet, Tame
<1>10. \A i \in Alive(w) : ~w.conns[i].outbound => ~IsReset(v, i)
  <2> SUFFICES ASSUME NEW i \in Alive(w), ~w.conns[i].outbound, IsReset(v, i) PROVE FALSE
    OBVIOUS
  <2>1. v.conns[i].ready
    BY <1>1, <1>8, <1>9 DEF Orderly, Ready
  <2>2. Entries(v)[i].c.ready /\ Entries(v)[i].k.st = "reset"
    BY <1>3, <1>8, <2>1 DEF IsReset
  <2> QED BY <1>3, <1>8, <2>2, QuietPolled
<1>11. Single(w)
  BY <1>1, <1>8, <1>9, <1>10 DEF Single, AtMostReset
<1>12. \A i \in Alive(w) : Calm(w.conns[i], w.kernel[w.conns[i].sock])
  BY <1>3, <1>6, <1>8, PolledCalm
<1>13. Sound(u) /\ u.kernel = w.kernel /\ u.backlog = w.backlog /\ Alive(u) = DOMAIN u.conns
  BY <1>6, SweepIs
<1>14. PICK f \in [DOMAIN u.conns -> Alive(w)] : \A k \in DOMAIN u.conns : u.conns[k] = w.conns[f[k]]
  BY <1>6, SweepIs
<1>15. Orderly(u) /\ Single(u)
  BY <1>6, <1>7, <1>11, SweepOrderly
<1> HIDE DEF u
<1>16. \A i \in Alive(u) : Calm(u.conns[i], u.kernel[u.conns[i].sock])
  BY <1>12, <1>13, <1>14
<1>17. Len(t.backlog) <= Cardinality(FreeFds(t)) => u.backlog = <<>>
  BY <1>1, <1>6, <1>13
<1> QED BY <1>2, <1>13, <1>15, <1>16, <1>17 DEF Lined

\* What the kernel or a peer does at one socket in use.
LEMMA SocketIs ==
    ASSUME NEW t, Sound(t), Lined(t), NEW fd \in Fds, NEW k \in Socket,
           t.kernel[fd].st \notin Unused \cup {"reset"}, k.peer = t.kernel[fd].peer,
           k.st \notin Unused,
           k.st \in Undecided => t.kernel[fd].st \in Undecided
    PROVE  LET u == [t EXCEPT !.kernel = [@ EXCEPT ![fd] = k]] IN Sound(u) /\ Lined(u)
<1> DEFINE u == [t EXCEPT !.kernel = [@ EXCEPT ![fd] = k]]
<1>1. /\ t \in Tables /\ t.kernel \in [Fds -> Socket]
      /\ \A i \in Alive(t) : i \in DOMAIN t.conns /\ t.conns[i].sock \in Fds
  BY TableIs DEF Sound
<1>2. [t.kernel EXCEPT ![fd] = k] \in [Fds -> Socket]
  BY <1>1
<1>3. /\ u.listen = t.listen /\ u.conns = t.conns /\ u.backlog = t.backlog
      /\ u.kernel = [t.kernel EXCEPT ![fd] = k] /\ u \in Tables
  BY <1>1, <1>2 DEF Tables
<1>4. u.kernel[fd] = k /\ \A g \in Fds : g # fd => u.kernel[g] = t.kernel[g]
  BY <1>1, <1>3
<1> HIDE DEF u
<1>5. Alive(u) = Alive(t)
  BY <1>3 DEF Alive
<1>6. Owned(u)
  <2>1. \A i, j \in Alive(u) : u.conns[i].sock = u.conns[j].sock => i = j
    BY <1>3, <1>5 DEF Sound, Owned
  <2>2. ASSUME NEW i \in Alive(u)
        PROVE  /\ u.kernel[u.conns[i].sock].st \notin Unused
               /\ u.kernel[u.conns[i].sock].peer = u.conns[i].peer
               /\ u.conns[i].ready => u.kernel[u.conns[i].sock].st \notin Undecided
    <3>1. CASE u.conns[i].sock = fd
      BY <1>3, <1>4, <1>5, <3>1 DEF Sound, Owned
    <3>2. CASE u.conns[i].sock # fd
      BY <1>1, <1>3, <1>4, <1>5, <3>2 DEF Sound, Owned
    <3> QED BY <3>1, <3>2
  <2>3. \A g \in Fds : u.kernel[g].st = "listening" <=> u.listen = g
    BY <1>3, <1>4 DEF Sound, Owned, Unused
  <2>4. \A g \in Fds : u.kernel[g].st \notin Unused => \E i \in Alive(u) : u.conns[i].sock = g
    BY <1>3, <1>4, <1>5 DEF Sound, Owned, Unused
  <2> QED BY <2>1, <2>2, <2>3, <2>4 DEF Owned
<1>7. \A i \in Alive(t) : IsReset(t, i) => IsReset(u, i)
  BY <1>1, <1>3, <1>4 DEF IsReset
<1>8. Fresh(u)
  BY <1>3, <1>5, <1>7 DEF Lined, Orderly, Fresh
<1>9. Once(u) /\ Second(u) /\ Ready(u) /\ Single(u)
  BY <1>3, <1>5 DEF Lined, Orderly, Once, Second, Ready, Single
<1> QED BY <1>3, <1>6, <1>8, <1>9 DEF Sound, Lined, Orderly, u

\* A connection waits for accept.
LEMMA WaitsIs ==
    ASSUME NEW t, Sound(t), Lined(t), NEW p \in Peers, p \notin Range(t.backlog),
           \A i \in Alive(t) : t.conns[i].peer = p /\ ~t.conns[i].outbound => IsReset(t, i)
    PROVE  LET u == [t EXCEPT !.backlog = Append(@, p)] IN Sound(u) /\ Lined(u)
<1> DEFINE u == [t EXCEPT !.backlog = Append(@, p)]
           n == Len(t.backlog)
<1>1. t \in Tables /\ t.backlog \in Seq(Peers) /\ n \in Nat
  BY TableIs DEF Sound
<1>2. Append(t.backlog, p) \in Seq(Peers)
  BY <1>1
<1>3. /\ u.listen = t.listen /\ u.conns = t.conns /\ u.backlog = Append(t.backlog, p)
      /\ u.kernel = t.kernel /\ u \in Tables
  BY <1>1, <1>2 DEF Tables
<1>4. /\ Len(u.backlog) = n + 1 /\ u.backlog[n + 1] = p
      /\ \A k \in 1 .. n : u.backlog[k] = t.backlog[k] /\ u.backlog[k] # p
  <2>1. DOMAIN t.backlog = 1 .. n
    BY <1>1
  <2>2. \A k \in 1 .. n : t.backlog[k] # p
    BY <2>1 DEF Range
  <2> QED BY <1>1, <1>3, <2>2
<1>5. \A k \in 1 .. n + 1 : k = n + 1 \/ k \in 1 .. n
  BY <1>1
<1> HIDE DEF u, n
<1>6. Alive(u) = Alive(t)
  BY <1>3 DEF Alive
<1>7. Owned(u)
  BY <1>3, <1>6 DEF Sound, Owned
<1>8. Fresh(u)
  <2>1. \A j, k \in 1 .. n + 1 : u.backlog[j] = u.backlog[k] => j = k
    BY <1>4, <1>5 DEF Lined, Orderly, Fresh, n
  <2>2. ASSUME NEW i \in Alive(t), NEW k \in 1 .. n + 1, ~t.conns[i].outbound,
               t.conns[i].peer = u.backlog[k]
        PROVE  IsReset(t, i)
    BY <1>4, <1>5, <2>2 DEF Lined, Orderly, Fresh, n
  <2> QED BY <1>3, <1>4, <1>6, <2>1, <2>2 DEF Fresh, IsReset
<1>9. Once(u) /\ Second(u) /\ Ready(u) /\ Single(u)
  BY <1>3, <1>6 DEF Lined, Orderly, Once, Second, Ready, Single
<1> QED BY <1>3, <1>7, <1>8, <1>9 DEF Sound, Lined, Orderly, u

-------------------------------------------------------------------------------
(* The actions.                                                            *)

\* What the rest of the state is.
Thread ==
    /\ dial \in AnyPeer
    /\ dialFail \in AnyPeer
    /\ phase \in {"commands", "poll", "sleep", "joined"}
Books == Sound(Table) /\ Lined(Table)
IInv == Books /\ Thread

\* The table read off the variables is the one that was put there.
LEMMA BecomesIs ==
    ASSUME NEW t, Sound(t), Lined(t), Becomes(t)
    PROVE  Table' = t /\ Books'
<1>1. tcp' = [listen |-> t.listen, conns |-> t.conns] /\ kernel' = t.kernel /\ backlog' = t.backlog
  BY DEF Becomes
<1>2. t = [listen |-> t.listen, conns |-> t.conns, kernel |-> t.kernel, backlog |-> t.backlog]
  BY DEF Sound, Tables
<1>3. Table' = [listen |-> tcp'.listen, conns |-> tcp'.conns, kernel |-> kernel',
                backlog |-> backlog']
  BY DEF Table
<1>4. Table' = t
  BY <1>1, <1>2, <1>3
<1>5. Books' <=> Sound(Table') /\ Lined(Table')
  BY DEF Books, Sound, Tables, Owned, Lined, Orderly, Once, Second, Ready, Fresh, Single, IsReset,
         Alive
<1> QED BY <1>4, <1>5

\* And a table that nothing touches stays what it is.
LEMMA TableKept ==
    ASSUME Books, UNCHANGED <<tcp, kernel, backlog>>
    PROVE  Books'
<1>1. Table' = Table
  BY DEF Table
<1>2. Books' <=> Sound(Table') /\ Lined(Table')
  BY DEF Books, Sound, Tables, Owned, Lined, Orderly, Once, Second, Ready, Fresh, Single, IsReset,
         Alive
<1> QED BY <1>1, <1>2 DEF Books

\* maintainTcpConnect, from any table the batch has left.
LEMMA MaintainIs ==
    ASSUME NEW t, Sound(t), Lined(t), Thread, NEW d \in AnyPeer, NEW st \in DialOutcomes,
           MaintainAfter(t, d, st)
    PROVE  Books' /\ dialFail' \in AnyPeer
<1>1. PICK u \in {IF MaintainDials(t, d) THEN Dials(t, d, st) ELSE t} :
         /\ Becomes(u)
         /\ dialFail' = IF MaintainDials(t, d) /\ Find(u, d) = 0 THEN d ELSE dialFail
  BY DEF MaintainAfter
<1>2. Sound(u) /\ Lined(u)
  <2>1. CASE MaintainDials(t, d)
    <3>1. d \in Peers
      BY <2>1 DEF MaintainDials, AnyPeer
    <3> QED BY <1>1, <2>1, <3>1, DialsIs
  <2>2. CASE ~MaintainDials(t, d)
    BY <1>1, <2>2
  <2> QED BY <2>1, <2>2
<1> QED BY <1>1, <1>2, BecomesIs DEF Thread

\* applyOnNet
LEMMA ApplyKeeps ==
    ASSUME IInv, NEW d \in Dialable \cup {NoPeer}, NEW st \in DialOutcomes, Apply(d, st)
    PROVE  IInv'
<1>1. Sound(Table) /\ Lined(Table) /\ Thread /\ d \in AnyPeer
  BY DEF IInv, Books, AnyPeer
<1>2. dial' = d /\ phase' = phase
  BY DEF Apply
<1>3. ASSUME NEW t \in TcpHalf PROVE Sound(t) /\ Lined(t)
  <2>1. CASE t = Table
    BY <1>1, <2>1
  <2>2. CASE t = CloseListen(Table)
    BY <1>1, <2>2, CloseListenIs
  <2>3. CASE t \in {Listen(Table) : fd \in FreeFds(CloseAll(Table))}
    BY <1>1, <2>3, ListenIs
  <2> QED BY <2>1, <2>2, <2>3 DEF TcpHalf
<1>4. CASE \E t \in TcpHalf : MaintainAfter(t, d, st)
  BY <1>1, <1>2, <1>3, <1>4, MaintainIs DEF IInv, Thread
<1>5. CASE \E t \in {Table, CloseAll(Table)} : Becomes(t) /\ UNCHANGED dialFail
  BY <1>1, <1>2, <1>5, CloseAllIs, BecomesIs DEF IInv, Thread
<1> QED BY <1>4, <1>5 DEF Apply

\* The three other commands and maintenance.
LEMMA CommandKeeps == ASSUME IInv, Command PROVE IInv'
<1>1. Sound(Table) /\ Lined(Table) /\ Thread
  BY DEF IInv, Books
<1>2. ASSUME NEW p \in Peers, Send(p) PROVE IInv'
  <2> DEFINE i == Find(Table, p)
             u == Rewrite(Table, [Entries(Table) EXCEPT ![i] = SendOn(@)])
  <2>1. i # 0 /\ tcp.conns[i].out < MaxOut /\ Becomes(u) /\ UNCHANGED <<dial, dialFail, phase>>
    BY <1>2 DEF Send
  <2>2. Table.conns = tcp.conns
    BY DEF Table
  <2>3. Sound(u) /\ Lined(u)
    BY <1>1, <2>1, <2>2, SendIs
  <2> QED BY <1>1, <2>1, <2>3, BecomesIs DEF IInv, Thread
<1>3. ASSUME NEW p \in Dialable, NEW st \in DialOutcomes, Connect(p, st) PROVE IInv'
  <2>1. p \in Peers /\ Becomes(Dials(Table, p, st)) /\ dialFail' = NoPeer /\ UNCHANGED <<dial, phase>>
    BY <1>3 DEF Connect
  <2>2. Sound(Dials(Table, p, st)) /\ Lined(Dials(Table, p, st))
    BY <1>1, <2>1, DialsIs
  <2> QED BY <1>1, <2>1, <2>2, BecomesIs DEF IInv, Thread, AnyPeer
<1> QED BY <1>2, <1>3, ApplyKeeps DEF Command

\* The thread's own steps.
LEMMA TurnKeeps == ASSUME IInv, NetLoop \/ Elapsed \/ Cleanup PROVE IInv'
<1>1. Sound(Table) /\ Lined(Table) /\ Thread
  BY DEF IInv, Books
<1>2. CASE Poll
  <2>1. phase' = "sleep" /\ UNCHANGED <<dial, dialFail>>
    BY <1>2 DEF Poll
  <2>2. PICK fds \in Lowest(Table) :
           Becomes(Sweep(EachConn(LAMBDA e : Receive(FlushReady(FinishDial(e))),
                                  AcceptAll(Table, fds))))
    BY <1>2 DEF Poll
  <2>3. Books'
    BY <1>1, <2>2, PollIs, BecomesIs
  <2> QED BY <1>1, <2>1, <2>3 DEF IInv, Thread
<1>3. CASE Woken \/ Elapsed
  <2>1. UNCHANGED <<tcp, kernel, backlog, dial, dialFail>> /\ phase' = "commands"
    BY <1>3 DEF Woken, Elapsed
  <2> QED BY <1>1, <2>1, TableKept DEF IInv, Thread
<1>4. ASSUME NEW st \in DialOutcomes, Maintain(st) PROVE IInv'
  <2>1. MaintainAfter(Table, dial, st) /\ phase' = "poll" /\ dial' = dial /\ dial \in AnyPeer
    BY <1>1, <1>4 DEF Maintain, Thread
  <2>2. Books' /\ dialFail' \in AnyPeer
    BY <1>1, <2>1, MaintainIs
  <2> QED BY <1>1, <2>1, <2>2 DEF IInv, Thread
<1>5. CASE Cleanup
  <2>1. phase' = "joined" /\ dial' = dial /\ dialFail' = NoPeer /\ Becomes(CloseAll(Table))
    BY <1>5 DEF Cleanup
  <2>2. Books'
    BY <1>1, <2>1, CloseAllIs, BecomesIs
  <2> QED BY <1>1, <2>1, <2>2 DEF IInv, Thread, AnyPeer
<1> QED BY <1>2, <1>3, <1>4, <1>5 DEF NetLoop

\* The kernel and the peers.
LEMMA PeerKeeps == ASSUME IInv, Peer PROVE IInv'
<1>1. Sound(Table) /\ Lined(Table) /\ Thread
  BY DEF IInv, Books
<1>2. /\ Table.kernel = kernel /\ Table.conns = tcp.conns /\ Table.backlog = backlog
      /\ Table.listen = tcp.listen /\ kernel \in [Fds -> Socket]
  BY <1>1, TableIs DEF Table, Sound
<1>3. ASSUME NEW fd \in Fds, NEW k \in Socket, Happens(fd, k),
             kernel[fd].st \notin Unused \cup {"reset"}, k.peer = kernel[fd].peer,
             k.st \notin Unused, k.st \in Undecided => kernel[fd].st \in Undecided
      PROVE  IInv'
  <2> DEFINE u == [Table EXCEPT !.kernel = [@ EXCEPT ![fd] = k]]
  <2>1. Sound(u) /\ Lined(u)
    BY <1>1, <1>2, <1>3, SocketIs
  <2>2. kernel' = [kernel EXCEPT ![fd] = k] /\ UNCHANGED <<tcp, backlog, dial, dialFail, phase>>
    BY <1>3 DEF Happens
  <2>3. u = [listen |-> tcp.listen, conns |-> tcp.conns, kernel |-> kernel', backlog |-> backlog]
    BY <2>2 DEF Table
  <2>4. Table' = u
    BY <2>2, <2>3 DEF Table
  <2>5. Books'
    <3>1. Books' <=> Sound(Table') /\ Lined(Table')
      BY DEF Books, Sound, Tables, Owned, Lined, Orderly, Once, Second, Ready, Fresh, Single,
             IsReset, Alive
    <3> QED BY <2>1, <2>4, <3>1
  <2> QED BY <1>1, <2>2, <2>5 DEF IInv, Thread
<1>4. ASSUME NEW fd \in Fds, PeerReads(fd) PROVE IInv'
  <2> DEFINE k == [kernel[fd] EXCEPT !.room = 1]
  <2>1. k \in Socket /\ k.st = "open" /\ k.peer = kernel[fd].peer /\ kernel[fd].st = "open"
        /\ Happens(fd, k)
    BY <1>2, <1>4 DEF PeerReads, Socket
  <2> HIDE DEF k
  <2> QED BY <1>3, <2>1 DEF Unused, Undecided
<1>5. ASSUME NEW fd \in Fds, NEW st \in {"open", "refused"}, DialEnds(fd, st) PROVE IInv'
  <2> DEFINE k == [kernel[fd] EXCEPT !.st = st]
  <2>1. k \in Socket /\ k.st = st /\ k.peer = kernel[fd].peer /\ kernel[fd].st = "dialing"
        /\ Happens(fd, k)
    BY <1>2, <1>5 DEF DialEnds, Socket
  <2> HIDE DEF k
  <2> QED BY <1>3, <2>1 DEF Unused, Undecided
<1>6. ASSUME NEW fd \in Fds, NEW rx \in {"packet", "bad"}, PeerSends(fd, rx) PROVE IInv'
  <2> DEFINE k == [kernel[fd] EXCEPT !.rx = rx]
  <2>1. k \in Socket /\ k.st = "open" /\ k.peer = kernel[fd].peer /\ kernel[fd].st = "open"
        /\ Happens(fd, k)
    BY <1>2, <1>6 DEF PeerSends, Socket
  <2> HIDE DEF k
  <2> QED BY <1>3, <2>1 DEF Unused, Undecided
<1>7. ASSUME NEW fd \in Fds, NEW st \in {"eof", "reset"}, PeerLeaves(fd, st) PROVE IInv'
  <2> DEFINE k == [kernel[fd] EXCEPT !.st = st]
  <2>1. k \in Socket /\ k.st = st /\ k.peer = kernel[fd].peer /\ kernel[fd].st = "open"
        /\ Happens(fd, k)
    BY <1>2, <1>7 DEF PeerLeaves, Socket
  <2> HIDE DEF k
  <2> QED BY <1>3, <2>1 DEF Unused, Undecided
<1>8. ASSUME NEW p \in Peers, Incoming(p) PROVE IInv'
  <2> DEFINE u == [Table EXCEPT !.backlog = Append(@, p)]
  <2>1. /\ p \notin Range(backlog) /\ backlog' = Append(backlog, p)
        /\ \A i \in Alive(Table) : tcp.conns[i].peer = p /\ ~tcp.conns[i].outbound
                                      => kernel[tcp.conns[i].sock].st = "reset"
        /\ UNCHANGED <<tcp, kernel, dial, dialFail, phase>>
    BY <1>8 DEF Incoming
  <2>2. \A i \in Alive(Table) : Table.conns[i].peer = p /\ ~Table.conns[i].outbound
                                      => IsReset(Table, i)
    BY <1>2, <2>1 DEF IsReset
  <2>3. Sound(u) /\ Lined(u)
    BY <1>1, <1>2, <2>1, <2>2, WaitsIs
  <2>4. Table' = u
    <3>1. u = [Table EXCEPT !.backlog = backlog']
      BY <1>2, <2>1
    <3> HIDE DEF u
    <3>2. u = [listen |-> tcp.listen, conns |-> tcp.conns, kernel |-> kernel, backlog |-> backlog']
      BY <3>1 DEF Table
    <3> QED BY <2>1, <3>2 DEF Table
  <2>5. Books'
    <3>1. Books' <=> Sound(Table') /\ Lined(Table')
      BY DEF Books, Sound, Tables, Owned, Lined, Orderly, Once, Second, Ready, Fresh, Single,
             IsReset, Alive
    <3> QED BY <2>3, <2>4, <3>1
  <2> QED BY <1>1, <2>1, <2>5 DEF IInv, Thread
<1> QED BY <1>4, <1>5, <1>6, <1>7, <1>8 DEF Peer

-------------------------------------------------------------------------------
(* The theorems.                                                           *)

\* Nothing is open at the start.
LEMMA InitKeeps == Init => IInv
<1> SUFFICES ASSUME Init PROVE IInv
  OBVIOUS
<1>1. Table = [listen |-> NoFd, conns |-> <<>>, kernel |-> [fd \in Fds |-> Free], backlog |-> <<>>]
  BY DEF Init, Table
<1>2. /\ Table.listen = NoFd /\ Table.conns = <<>> /\ Table.backlog = <<>>
      /\ \A fd \in Fds : Table.kernel[fd].st = "free" /\ fd # NoFd
  BY <1>1, FreeIs DEF NoFd
<1>3. Table \in Tables
  <2>1. [fd \in Fds |-> Free] \in [Fds -> Socket]
    BY FreeIs
  <2>2. <<>> \in Seq(Conn) /\ <<>> \in Seq(Peers)
    OBVIOUS
  <2> QED BY <1>1, <2>1, <2>2 DEF Tables
<1>4. DOMAIN Table.conns = {} /\ Alive(Table) = {} /\ Len(Table.backlog) = 0
  BY <1>2 DEF Alive
<1>5. Owned(Table)
  BY <1>2, <1>4 DEF Owned, Unused
<1>6. Lined(Table)
  BY <1>4 DEF Lined, Orderly, Once, Second, Ready, Fresh, Single
<1>7. Thread
  BY DEF Init, Thread, AnyPeer
<1> QED BY <1>3, <1>5, <1>6, <1>7 DEF IInv, Books, Sound

\* Every step keeps the books.
LEMMA NextKeeps == IInv /\ [Next]_vars => IInv'
<1> SUFFICES ASSUME IInv, [Next]_vars PROVE IInv'
  OBVIOUS
<1>1. CASE UNCHANGED vars
  BY <1>1, TableKept DEF vars, IInv, Thread
<1>2. CASE Next
  BY <1>2, CommandKeeps, TurnKeeps, PeerKeeps DEF Next
<1> QED BY <1>1, <1>2

\* What the invariant says of the variables.
LEMMA TypeFollows == IInv => TypeOK
<1> SUFFICES ASSUME IInv PROVE TypeOK
  OBVIOUS
<1>1. /\ Table.kernel = kernel /\ Table.conns = tcp.conns /\ Table.backlog = backlog
      /\ Table.listen = tcp.listen
  BY DEF Table
<1> QED BY <1>1, TableIs DEF IInv, Books, Sound, Thread, TypeOK

\* The books, read from the descriptors.
LEMMA OwnedFollows == IInv => HandlesOwned
<1> SUFFICES ASSUME IInv, NEW fd \in Fds
             PROVE  LET owners == {i \in DOMAIN tcp.conns : tcp.conns[i].sock = fd}
                    IN CASE kernel[fd].st = "free" -> owners = {} /\ tcp.listen # fd
                         [] kernel[fd].st = "listening" -> owners = {} /\ tcp.listen = fd
                         [] OTHER -> /\ tcp.listen # fd
                                     /\ \E i \in owners : /\ owners = {i}
                                                          /\ tcp.conns[i].peer = kernel[fd].peer
  BY DEF HandlesOwned
<1> DEFINE owners == {i \in DOMAIN tcp.conns : tcp.conns[i].sock = fd}
<1>1. /\ Table.kernel = kernel /\ Table.conns = tcp.conns /\ Table.backlog = backlog
      /\ Table.listen = tcp.listen
  BY DEF Table
<1>2. Owned(Table) /\ NoFd \notin Fds
  BY TableIs DEF IInv, Books, Sound
<1>3. \A i \in owners : i \in Alive(Table) /\ tcp.conns[i].sock = fd
  BY <1>1, <1>2 DEF Alive
<1>4. \A i \in Alive(Table) : tcp.conns[i].sock = fd => i \in owners
  BY <1>1 DEF Alive
<1> HIDE DEF owners
<1>5. CASE kernel[fd].st = "free"
  <2>1. owners = {} /\ tcp.listen # fd
    BY <1>1, <1>2, <1>3, <1>5 DEF Owned, Unused
  <2> QED BY <1>5, <2>1 DEF owners
<1>6. CASE kernel[fd].st = "listening"
  <2>1. owners = {} /\ tcp.listen = fd
    BY <1>1, <1>2, <1>3, <1>6 DEF Owned, Unused
  <2> QED BY <1>6, <2>1 DEF owners
<1>7. CASE kernel[fd].st \notin Unused
  <2>1. tcp.listen # fd
    BY <1>1, <1>2, <1>7 DEF Owned, Unused
  <2>2. PICK i \in Alive(Table) : tcp.conns[i].sock = fd
    BY <1>1, <1>2, <1>7 DEF Owned
  <2>3. i \in owners /\ \A j \in owners : j = i
    BY <1>1, <1>2, <1>3, <1>4, <2>2 DEF Owned
  <2>4. owners = {i} /\ tcp.conns[i].peer = kernel[fd].peer
    BY <1>1, <1>2, <2>2, <2>3 DEF Owned
  <2> QED BY <1>7, <2>1, <2>3, <2>4 DEF owners, Unused
<1> QED BY <1>5, <1>6, <1>7 DEF Unused

\* One stream, from why there is.
LEMMA StreamFollows == IInv => OneStream
<1> SUFFICES ASSUME IInv, NEW i \in Alive(Table), NEW j \in Alive(Table),
                    tcp.conns[i].peer = tcp.conns[j].peer,
                    tcp.conns[i].out > 0, tcp.conns[j].out > 0
             PROVE  i = j
  BY DEF OneStream
<1>1. Table.conns = tcp.conns /\ Lined(Table)
  BY DEF Table, IInv, Books
<1>2. i \in DOMAIN Table.conns /\ j \in DOMAIN Table.conns
  BY DEF Alive
<1>3. tcp.conns[i].out # 0 /\ tcp.conns[j].out # 0
  <2>1. tcp.conns[i] \in Conn /\ tcp.conns[j] \in Conn
    BY <1>1, <1>2, TableIs DEF IInv, Books, Sound
  <2> QED BY <2>1 DEF Conn
<1> QED BY <1>1, <1>2, <1>3 DEF Lined, Orderly, Once, Second, Single

\* After a poll that could accept everything, nothing the thread waits for is ready.
LEMMA PollQuiet ==
    ASSUME IInv, Poll, Len(backlog) <= Cardinality(FreeFds(Table))
    PROVE  ~Wakes'
<1>1. Sound(Table) /\ Lined(Table) /\ Table.backlog = backlog
  BY DEF IInv, Books, Table
<1>2. PICK fds \in Lowest(Table) :
         Becomes(Sweep(EachConn(LAMBDA e : Receive(FlushReady(FinishDial(e))),
                                AcceptAll(Table, fds))))
  BY DEF Poll
<1> DEFINE u == Sweep(EachConn(LAMBDA e : Receive(FlushReady(FinishDial(e))),
                               AcceptAll(Table, fds)))
<1>3. /\ Sound(u) /\ Lined(u) /\ u.backlog = <<>>
      /\ \A i \in Alive(u) : Calm(u.conns[i], u.kernel[u.conns[i].sock])
  BY <1>1, PollIs
<1>4. Becomes(u)
  BY <1>2
<1> HIDE DEF u
<1>5. /\ tcp' = [listen |-> u.listen, conns |-> u.conns] /\ kernel' = u.kernel
      /\ backlog' = u.backlog /\ Table' = u
  BY <1>3, <1>4, BecomesIs DEF Becomes
<1>6. ASSUME NEW i \in Alive(u), NEW c, NEW k, c = u.conns[i], k = u.kernel[c.sock]
      PROVE  ~(WantsRead(c) /\ Readable(k)) /\ ~(WantsWrite(c) /\ Writable(k)) /\ ~Failed(k)
  <2>1. /\ Calm(c, k) /\ c \in Conn /\ k \in Socket
        /\ c.ready => k.st \notin Undecided
    <3>1. u \in Tables /\ Owned(u)
      BY <1>3 DEF Sound
    <3>2. /\ u.kernel \in [Fds -> Socket] /\ i \in DOMAIN u.conns /\ c.sock \in Fds
          /\ u.conns[i] \in Conn
      BY <1>6, <3>1, TableIs
    <3>3. c.ready => k.st \notin Undecided
      BY <1>6, <3>1 DEF Owned
    <3>4. Calm(c, k)
      BY <1>3, <1>6
    <3> QED BY <1>6, <3>2, <3>3, <3>4
  <2>2. CASE c.ready
    <3>1. k.st \notin {"eof", "reset", "dialing", "refused"} /\ k.rx = "none"
          /\ (c.out = 0 \/ k.room = 0)
      BY <2>1, <2>2 DEF Calm, Undecided
    <3> QED BY <2>2, <3>1 DEF Readable, WantsWrite, Writable, Failed
  <2>3. CASE ~c.ready
    BY <2>1, <2>3 DEF Calm, WantsRead, Writable, Failed
  <2> QED BY <2>2, <2>3
<1>7. Wakes' <=> \/ tcp'.listen # NoFd /\ backlog' # <<>>
                 \/ \E i \in Alive(Table') :
                       LET c == tcp'.conns[i]
                           k == kernel'[c.sock]
                       IN \/ WantsRead(c) /\ Readable(k)
                          \/ WantsWrite(c) /\ Writable(k)
                          \/ Failed(k)
  BY DEF Wakes, Alive, WantsRead, WantsWrite, Readable, Writable, Failed
<1>8. tcp'.conns = u.conns
  BY <1>5
<1>9. ASSUME Wakes' PROVE FALSE
  <2>1. PICK i \in Alive(u) : LET c == u.conns[i]
                                  k == u.kernel[c.sock]
                              IN \/ WantsRead(c) /\ Readable(k)
                                 \/ WantsWrite(c) /\ Writable(k)
                                 \/ Failed(k)
    BY <1>3, <1>5, <1>7, <1>8, <1>9
  <2> QED BY <1>6, <2>1
<1> QED BY <1>9

\* Types of the table, of the sockets and of the thread's state.
THEOREM TcpTypes == Spec => []TypeOK
<1> QED BY InitKeeps, NextKeeps, TypeFollows, PTL DEF Spec

\* Whatever is dialed, accepted, dropped, refused and closed, in any order: a
\* descriptor the kernel has open belongs to the listener or to one entry for the
\* same peer, and no handle is left of a closed one.
THEOREM TcpHandlesOwned == Spec => []HandlesOwned
<1> QED BY InitKeeps, NextKeeps, OwnedFollows, PTL DEF Spec

\* Packets to one peer never wait on two connections at once.
THEOREM TcpOneStream == Spec => []OneStream
<1> QED BY InitKeeps, NextKeeps, StreamFollows, PTL DEF Spec

\* poll leaves nothing that would wake the thread at once, as long as there are
\* descriptors for what waits to be accepted.
THEOREM TcpNoSpin == Spec => NoSpin
<1>1. IInv /\ [Next]_vars
      => [phase = "poll" /\ phase' = "sleep" /\ Len(backlog) <= Cardinality(FreeFds(Table))
          => ~Wakes']_phase
  <2> SUFFICES ASSUME IInv, Next, phase = "poll", phase' = "sleep",
                      Len(backlog) <= Cardinality(FreeFds(Table))
               PROVE  ~Wakes'
    BY DEF vars
  <2>1. Poll
    BY DEF Next, Command, Send, Connect, Apply, NetLoop, Woken, Maintain, Elapsed, Cleanup, Peer,
           PeerReads, DialEnds, PeerSends, PeerLeaves, Incoming, Happens
  <2> QED BY <2>1, PollQuiet
<1> QED BY <1>1, InitKeeps, NextKeeps, PTL DEF Spec, NoSpin
===============================================================================
