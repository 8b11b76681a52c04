----------------------------- MODULE AgmemDaemon -----------------------------
(***************************************************************************)
(* One store, the daemon that owns it, and the sessions that attach        *)
(* (crates/agmem-server, daemon/client.rs, daemon/serve.rs, daemon/mod.rs  *)
(* and lock.rs).                                                           *)
(*                                                                         *)
(* A session connects to the socket or, under a spawn lock, starts a       *)
(* daemon from its own binary.  A daemon takes the data-dir lock, opens    *)
(* the store, which has a lock of its own, and binds the socket last.  A   *)
(* session of a newer release makes it retire: it unlinks the socket,      *)
(* drains, closes the store and only then lets the data-dir lock go.       *)
(* Everything a process does to a lock, the socket path or a connection    *)
(* is a step of its own; processes can crash and deadlines can pass.       *)
(***************************************************************************)
EXTENDS Integers, FiniteSets

CONSTANTS
    Client,        \* sessions
    Daemon,        \* daemon processes; an id is used again once it is dead
    Config,        \* per session, what its handshake says: [release, version, serves]
    None,
    Solo,          \* a process that opens the store itself: --no-daemon, reindex
    IdleExits,     \* FALSE for --idle-timeout 0
    MaxMishaps,    \* bound on crashes, failed opens, late exits and Solo runs
    MaxGiveUps     \* bound on sessions killed or timed out before they are attached

Attempt == 1..2    \* attach tries twice, the second time after a retirement

ASSUME DaemonAssumption ==
    /\ None \notin Client \cup Daemon /\ Solo \notin Client \cup Daemon \cup {None}
    /\ Client \cap Daemon = {}
    /\ MaxMishaps \in Nat /\ MaxGiveUps \in Nat /\ IdleExits \in BOOLEAN
    /\ \A c \in Client : Config[c].version \in Nat
                         /\ (Config[c].release = None \/ Config[c].release \in Nat)

VARIABLES
    status,     \* where each daemon stands
    conf,       \* the configuration it was started with
    dlock,      \* the holder of agmem.lock
    elock,      \* the holder of the engine's own LOCK: who has the store open
    slock,      \* the holder of the spawn lock
    sock,       \* the daemon whose socket the path names, alive or not, or None
    conn,       \* per session and attempt: the daemon's end of the connection
    pc,         \* where each session stands
    try,        \* which attach_once it is in
    startsLeft, \* start_one's starts_left
    child,      \* the daemon it spawned
    answer,     \* the ack it has been sent, or "eof"
    why,        \* why it gave up
    mishaps, giveups

daemons == <<status, conf, dlock, elock>>
session == <<pc, try, startsLeft, child, why>>
vars == <<status, conf, dlock, elock, slock, sock, conn, pc, try, startsLeft,
          child, answer, why, mishaps, giveups>>

NoConn == [to |-> None, phase |-> "none"]
Statuses == {"unborn", "start", "locked", "open", "serving", "draining",
             "idling", "closing", "exiting", "dead"}
PCs == {"out", "connect", "queue", "recheck", "clear", "unlink", "lock", "probe", "spawn",
        "ready", "ack", "retired", "attached", "gone", "failed"}

Init ==
    /\ status = [d \in Daemon |-> "unborn"]
    /\ conf = [d \in Daemon |-> None]
    /\ dlock = None /\ elock = None /\ slock = None /\ sock = None
    /\ conn = [c \in Client |-> [n \in Attempt |-> NoConn]]
    /\ pc = [c \in Client |-> "out"]
    /\ try = [c \in Client |-> 1]
    /\ startsLeft = [c \in Client |-> 0]
    /\ child = [c \in Client |-> None]
    /\ answer = [c \in Client |-> None]
    /\ why = [c \in Client |-> None]
    /\ mishaps = 0 /\ giveups = 0

-----------------------------------------------------------------------------
(* Handshake::accept: what daemon configuration `self` answers `asked`. *)

Verdict(self, asked) ==
    CASE self.release = None \/ asked.release = None -> "retiring"
      [] asked.release > self.release -> "retiring"
      [] asked.release < self.release -> "refused"
      [] asked.version # self.version ->
             IF asked.version > self.version THEN "retiring" ELSE "refused"
      [] asked.serves # self.serves -> "refused"
      [] OTHER -> "ok"

-----------------------------------------------------------------------------
(* Connections *)

Listening(d) == status[d] = "serving"

Link(k) == conn[k[1]][k[2]]
LinksOf(d, phases) ==
    {k \in Client \X Attempt : Link(k).to = d /\ Link(k).phase \in phases}

\* Connections the kernel holds for accept(), and the JoinSet's tasks.
Backlog(d) == LinksOf(d, {"backlog"})
Sessions(d) == LinksOf(d, {"accepted", "ok", "done", "retire"})

SetPhase(k, phase) == conn' = [conn EXCEPT ![k[1]][k[2]].phase = phase]

\* The daemon's ends of K are closed: a session still waiting for its ack
\* reads the end of the stream.
CutLinks(K) ==
    /\ conn' = [c \in Client |-> [n \in Attempt |->
                   IF <<c, n>> \in K THEN NoConn ELSE conn[c][n]]]
    /\ answer' = [c \in Client |->
           IF <<c, try[c]>> \in K /\ conn[c][try[c]].phase \in {"backlog", "accepted"}
           THEN "eof" ELSE answer[c]]

-----------------------------------------------------------------------------
(* The session: daemon/client.rs *)

Goto(c, where) == pc' = [pc EXCEPT ![c] = where]

\* start_one returns, and its guard with it.
DropGuard(c) == slock' = IF slock = c THEN None ELSE slock

Fail(c, reason) ==
    /\ Goto(c, "failed")
    /\ why' = [why EXCEPT ![c] = reason]
    /\ DropGuard(c)

\* attach; a session is a process and runs once.
Begin(c) ==
    /\ pc[c] = "out"
    /\ Goto(c, "connect")
    /\ UNCHANGED <<daemons, slock, sock, conn, try, startsLeft, child, answer, why,
                   mishaps, giveups>>

\* Mutant: the guard lives as long as the session does.
ConnectedHoldsGuard(c) ==
    /\ sock \in Daemon /\ Listening(sock)
    /\ conn' = [conn EXCEPT ![c][try[c]] = [to |-> sock, phase |-> "backlog"]]
    /\ Goto(c, "ack")
    /\ UNCHANGED slock

\* The connection lands in the backlog with the handshake written behind it.
Connected(c) ==
    /\ sock \in Daemon /\ Listening(sock)
    /\ conn' = [conn EXCEPT ![c][try[c]] = [to |-> sock, phase |-> "backlog"]]
    /\ Goto(c, "ack")
    /\ DropGuard(c)

\* Mutant: the queue ends without another look at the socket.
ConnectOnce(c) ==
    /\ pc[c] \in {"connect", "recheck"}
    /\ \/ pc[c] = "connect" /\ Connected(c)
       \/ /\ pc[c] = "recheck" \/ ~(sock \in Daemon /\ Listening(sock))
          /\ Goto(c, IF pc[c] = "connect" THEN "queue" ELSE "clear")
          /\ UNCHANGED <<conn, slock>>
    /\ UNCHANGED <<daemons, sock, try, startsLeft, child, answer, why, mishaps, giveups>>

\* attach_once's connect, and start_one's second one under the spawn lock.
Connect(c) ==
    /\ pc[c] \in {"connect", "recheck"}
    /\ \/ Connected(c)
       \/ /\ ~(sock \in Daemon /\ Listening(sock))
          /\ Goto(c, IF pc[c] = "connect" THEN "queue" ELSE "clear")
          /\ UNCHANGED <<conn, slock>>
    /\ UNCHANGED <<daemons, sock, try, startsLeft, child, answer, why, mishaps, giveups>>

\* Mutant: the spawn lock is not exclusive.
QueueToSpawnShared(c) ==
    /\ pc[c] = "queue"
    /\ slock' = c
    /\ Goto(c, "recheck")
    /\ UNCHANGED <<daemons, sock, conn, try, startsLeft, child, answer, why, mishaps, giveups>>

QueueToSpawn(c) ==
    /\ pc[c] = "queue"
    /\ slock = None
    /\ slock' = c
    /\ Goto(c, "recheck")
    /\ UNCHANGED <<daemons, sock, conn, try, startsLeft, child, answer, why, mishaps, giveups>>

\* Mutant (issue #112): the daemon is started without waiting for the lock.
CheckStaleAndSpawn(c) ==
    /\ pc[c] = "clear"
    /\ startsLeft' = [startsLeft EXCEPT ![c] = try[c]]
    /\ Goto(c, IF sock = None THEN "spawn" ELSE "unlink")
    /\ UNCHANGED <<daemons, slock, sock, conn, try, child, answer, why, mishaps, giveups>>

\* Is there a stale socket?  One start, or two after a retirement.
CheckStale(c) ==
    /\ pc[c] = "clear"
    /\ startsLeft' = [startsLeft EXCEPT ![c] = try[c]]
    /\ Goto(c, IF sock = None THEN "lock" ELSE "unlink")
    /\ UNCHANGED <<daemons, slock, sock, conn, try, child, answer, why, mishaps, giveups>>

\* What is at the path by now is removed; that nothing is, is an error.
ClearStale(c) ==
    /\ pc[c] = "unlink"
    /\ \/ sock # None /\ sock' = None /\ Goto(c, "lock") /\ UNCHANGED <<slock, why>>
       \/ sock = None /\ Fail(c, "stale") /\ UNCHANGED sock
    /\ UNCHANGED <<daemons, conn, try, startsLeft, child, answer, mishaps, giveups>>

\* wait_for_store_lock polls lock::probe, which takes the lock for a moment.
ProbeLock(c) ==
    /\ pc[c] = "lock"
    /\ dlock = None
    /\ dlock' = c
    /\ Goto(c, "probe")
    /\ UNCHANGED <<status, conf, elock, slock, sock, conn, try, startsLeft, child,
                   answer, why, mishaps, giveups>>

ProbeDone(c) ==
    /\ pc[c] = "probe"
    /\ dlock' = None
    /\ Goto(c, "spawn")
    /\ UNCHANGED <<status, conf, elock, slock, sock, conn, try, startsLeft, child,
                   answer, why, mishaps, giveups>>

\* A process id nothing refers to any more.
Fresh(d) ==
    /\ status[d] \in {"unborn", "dead"}
    /\ sock # d
    /\ \A c \in Client : child[c] # d /\ \A n \in Attempt : conn[c][n].to # d

Spawn(c) ==
    /\ pc[c] = "spawn"
    /\ \E d \in Daemon :
          /\ Fresh(d)
          /\ status' = [status EXCEPT ![d] = "start"]
          /\ conf' = [conf EXCEPT ![d] = Config[c]]
          /\ child' = [child EXCEPT ![c] = d]
    /\ Goto(c, "ready")
    /\ UNCHANGED <<dlock, elock, slock, sock, conn, try, startsLeft, answer, why,
                   mishaps, giveups>>

\* wait_until_ready: the socket answers, or the child has exited.
WaitUntilReady(c) ==
    /\ pc[c] = "ready"
    /\ \/ Connected(c) /\ UNCHANGED <<startsLeft, why>>
       \/ /\ status[child[c]] = "dead"
          /\ startsLeft' = [startsLeft EXCEPT ![c] = @ - 1]
          /\ IF startsLeft[c] = 1
             THEN Fail(c, "died")
             ELSE Goto(c, "lock") /\ UNCHANGED <<slock, why>>
          /\ UNCHANGED conn
    /\ child' = [child EXCEPT ![c] = None]
    /\ UNCHANGED <<daemons, sock, try, answer, mishaps, giveups>>

\* read_ack, and attach's verdict on a second retirement.
ReadAck(c) ==
    /\ pc[c] = "ack"
    /\ answer[c] # None
    /\ CASE answer[c] = "ok" -> Goto(c, "attached") /\ UNCHANGED <<why, slock>>
         [] answer[c] = "retiring" /\ try[c] = 1 -> Goto(c, "retired") /\ UNCHANGED <<why, slock>>
         [] answer[c] = "retiring" /\ try[c] = 2 -> Fail(c, "twice")
         [] OTHER -> Fail(c, answer[c])
    /\ UNCHANGED <<daemons, sock, conn, try, startsLeft, child, answer, mishaps, giveups>>

\* wait_for_retirement polls until nothing is at the path.  Once the daemon
\* that retired has unlinked its socket another one's may be there: then only
\* RETIRE_DEADLINE ends the wait.
WaitForRetirement(c) ==
    /\ pc[c] = "retired"
    /\ sock = None \/ conn[c][1].to # sock
    /\ Goto(c, "connect")
    /\ try' = [try EXCEPT ![c] = 2]
    /\ answer' = [answer EXCEPT ![c] = None]
    /\ UNCHANGED <<daemons, slock, sock, conn, startsLeft, child, why, mishaps, giveups>>

\* The session's end of its connection is closed.
Detach(c) == conn' = [conn EXCEPT ![c][try[c]].phase = IF @ = "ok" THEN "done" ELSE @]

\* The pump ends: the client hung up, or the daemon closed the stream.
HangUp(c) ==
    /\ pc[c] = "attached"
    /\ Goto(c, "gone")
    /\ Detach(c)
    /\ UNCHANGED <<daemons, slock, sock, try, startsLeft, child, answer, why, mishaps, giveups>>

GiveUp == giveups < MaxGiveUps /\ giveups' = giveups + 1

\* SPAWN_LOCK_DEADLINE, RETIRE_DEADLINE, READY_DEADLINE or ACK_DEADLINE passes.
Deadline(c) ==
    /\ GiveUp
    /\ pc[c] \in {"queue", "lock", "ready"} \/ (pc[c] = "ack" /\ answer[c] = None)
    /\ Fail(c, "deadline")
    /\ child' = [child EXCEPT ![c] = None]
    /\ UNCHANGED <<daemons, sock, conn, try, startsLeft, answer, mishaps>>

\* The session's process is killed before it is attached.
Abort(c) ==
    /\ GiveUp
    /\ pc[c] \notin {"out", "attached", "gone", "failed"}
    /\ Goto(c, "gone")
    /\ Detach(c)
    /\ DropGuard(c)
    /\ dlock' = IF dlock = c THEN None ELSE dlock
    /\ child' = [child EXCEPT ![c] = None]
    /\ UNCHANGED <<status, conf, elock, sock, try, startsLeft, answer, why, mishaps>>

-----------------------------------------------------------------------------
(* The daemon: daemon/serve.rs *)

Become(d, where) == status' = [status EXCEPT ![d] = where]

\* The process is gone, and its locks with it.
Die(d) ==
    /\ Become(d, "dead")
    /\ dlock' = IF dlock = d THEN None ELSE dlock
    /\ elock' = IF elock = d THEN None ELSE elock

\* lock::acquire
Acquire(d) ==
    /\ status[d] = "start"
    /\ \/ dlock = None /\ dlock' = d /\ Become(d, "locked") /\ UNCHANGED elock
       \/ dlock # None /\ Die(d)
    /\ UNCHANGED <<conf, slock, sock, conn, session, answer, mishaps, giveups>>

\* startup::open_locked: the engine takes its own lock or the open fails.
Open(d) ==
    /\ status[d] = "locked"
    /\ \/ elock = None /\ elock' = d /\ Become(d, "open") /\ UNCHANGED dlock
       \/ elock # None /\ Die(d)
    /\ UNCHANGED <<conf, slock, sock, conn, session, answer, mishaps, giveups>>

\* Whatever the path named is removed and the listener bound.
Bind(d) ==
    /\ status[d] = "open"
    /\ sock' = d
    /\ Become(d, "serving")
    /\ UNCHANGED <<conf, dlock, elock, slock, conn, session, answer, mishaps, giveups>>

Accept(d) ==
    /\ Listening(d)
    /\ \E k \in Backlog(d) : SetPhase(k, "accepted")
    /\ UNCHANGED <<daemons, slock, sock, session, answer, mishaps, giveups>>

\* How a session task goes on after its ack: it serves, or returns a SessionEnd.
PhaseAfter(verdict) ==
    CASE verdict = "ok" -> "ok" [] verdict = "retiring" -> "retire" [] OTHER -> "done"

\* A session task reads the handshake and writes its ack; to a session that
\* has left the write fails and the task ends.
Answer(d) ==
    /\ status[d] \in {"serving", "draining"}
    /\ \E k \in LinksOf(d, {"accepted"}) :
          LET c == k[1]
              verdict == IF status[d] = "draining" THEN "retiring"
                         ELSE Verdict(conf[d], Config[c])
          IN  IF pc[c] = "ack"
              THEN /\ SetPhase(k, PhaseAfter(verdict))
                   /\ answer' = [answer EXCEPT ![c] = verdict]
              ELSE SetPhase(k, "done") /\ UNCHANGED answer
    /\ UNCHANGED <<daemons, slock, sock, session, mishaps, giveups>>

\* join_next: the first session that asked for a newer release makes the
\* daemon stop accepting, unlink its socket and drain; a drain ends early
\* with its last session.
Join(d) ==
    \E k \in LinksOf(d, {"done", "retire"}) :
        LET last == Sessions(d) = {k}
            retires == status[d] = "serving" /\ Link(k).phase = "retire"
        IN  /\ status[d] \in {"serving", "draining"}
            /\ CutLinks(IF retires THEN {k} \cup Backlog(d) ELSE {k})
            /\ sock' = IF retires THEN None ELSE sock
            /\ Become(d, IF ~retires /\ status[d] = "serving" THEN "serving"
                         ELSE IF last THEN "closing" ELSE "draining")
            /\ UNCHANGED <<conf, dlock, elock, slock, session, mishaps, giveups>>

\* DRAIN has passed: the sessions left are cut loose.
DrainOver(d) ==
    /\ status[d] = "draining"
    /\ CutLinks(Sessions(d))
    /\ Become(d, "closing")
    /\ UNCHANGED <<conf, dlock, elock, slock, sock, session, mishaps, giveups>>

\* Mutant: the idle timer does not look at the sessions.
IdleAnyway(d) ==
    /\ IdleExits
    /\ Listening(d)
    /\ CutLinks(Backlog(d) \cup Sessions(d))
    /\ Become(d, "idling")
    /\ UNCHANGED <<conf, dlock, elock, slock, sock, session, mishaps, giveups>>

\* Nothing attached for idle_timeout: the listener is dropped.  The shortest
\* timeout is a second and the session that started the daemon polls every
\* 50 ms, so that one has connected or given up.
Idle(d) ==
    /\ IdleExits
    /\ Listening(d)
    /\ Sessions(d) = {}
    /\ \A c \in Client : child[c] # d
    /\ CutLinks(Backlog(d))
    /\ Become(d, "idling")
    /\ UNCHANGED <<conf, dlock, elock, slock, sock, session, mishaps, giveups>>

Unlink(d) ==
    /\ status[d] = "idling"
    /\ sock' = None
    /\ Become(d, "closing")
    /\ UNCHANGED <<conf, dlock, elock, slock, conn, session, answer, mishaps, giveups>>

\* The last handle is gone and the engine closes the store on its own task.
EngineCloses(d) ==
    /\ status[d] = "closing"
    /\ elock = d
    /\ elock' = None
    /\ UNCHANGED <<status, conf, dlock, slock, sock, conn, session, answer, mishaps, giveups>>

\* wait_for_store_release returns and serve with it.
Release(d) ==
    /\ status[d] = "closing"
    /\ elock # d
    /\ Die(d)
    /\ UNCHANGED <<conf, slock, sock, conn, session, answer, mishaps, giveups>>

Exit(d) ==
    /\ status[d] = "exiting"
    /\ Die(d)
    /\ UNCHANGED <<conf, slock, sock, conn, session, answer, mishaps, giveups>>

-----------------------------------------------------------------------------
(* What can go wrong beside them *)

Mishap == mishaps < MaxMishaps /\ mishaps' = mishaps + 1

\* The store did not let go within STORE_RELEASE_DEADLINE.
ReleaseLate(d) ==
    /\ Mishap
    /\ status[d] = "closing" /\ elock = d
    /\ Become(d, "exiting")
    /\ dlock' = None
    /\ UNCHANGED <<conf, elock, slock, sock, conn, session, answer, giveups>>

\* A crash, or a migration, a model or a bind that fails.
Crash(d) ==
    /\ Mishap
    /\ status[d] \notin {"unborn", "dead"}
    /\ Die(d)
    /\ CutLinks(Backlog(d) \cup Sessions(d))
    /\ UNCHANGED <<conf, slock, sock, session, giveups>>

\* --no-daemon and `agmem reindex` take both locks and let both go.
SoloOpens ==
    /\ Mishap
    /\ dlock = None /\ elock = None
    /\ dlock' = Solo /\ elock' = Solo
    /\ UNCHANGED <<status, conf, slock, sock, conn, session, answer, giveups>>

SoloExits ==
    /\ dlock = Solo
    /\ dlock' = None /\ elock' = None
    /\ UNCHANGED <<status, conf, slock, sock, conn, session, answer, mishaps, giveups>>

ClientStep(c) ==
    \/ Connect(c) \/ QueueToSpawn(c) \/ CheckStale(c) \/ ClearStale(c) \/ ProbeLock(c) \/ ProbeDone(c)
    \/ Spawn(c) \/ WaitUntilReady(c) \/ ReadAck(c) \/ WaitForRetirement(c)

DaemonStep(d) ==
    \/ Acquire(d) \/ Open(d) \/ Bind(d) \/ Accept(d) \/ Answer(d) \/ Join(d)
    \/ DrainOver(d) \/ Unlink(d) \/ EngineCloses(d) \/ Release(d) \/ Exit(d)

Next ==
    \/ \E c \in Client : Begin(c) \/ ClientStep(c) \/ HangUp(c) \/ Deadline(c) \/ Abort(c)
    \/ \E d \in Daemon : DaemonStep(d) \/ Idle(d) \/ ReleaseLate(d) \/ Crash(d)
    \/ SoloOpens \/ SoloExits

Spec == Init /\ [][Next]_vars

\* Processes run, their runtimes poll their tasks, and whoever opened the
\* store alone closes it again.  No deadline is relied on but the retired session's own.
FairSpec ==
    /\ Spec
    /\ \A c \in Client : WF_vars(ClientStep(c))
    /\ \A d \in Daemon : WF_vars(DaemonStep(d))
    /\ WF_vars(SoloExits)

-----------------------------------------------------------------------------
(* Properties *)

\* A daemon that listens can be found: the path names its socket, whatever
\* sessions clear stale sockets and whatever daemons come and go around it,
\* as long as no session leaves a daemon behind that is still starting.
Reachable == giveups = 0 => \A d \in Daemon : Listening(d) => sock = d

\* A burst of sessions produces one daemon: never two that are coming up or
\* serving, unless a session gave up on the one it started.  And only the
\* holder of the data-dir lock has the store open: through a hand-over the
\* lock moves after the store does (issue #124).
OneDaemon ==
    /\ giveups = 0 =>
         Cardinality({d \in Daemon : status[d] \in {"start", "locked", "open", "serving"}}) <= 1
    /\ elock # None =>
         dlock = elock \/ (elock \in Daemon /\ mishaps > 0 /\ status[elock] = "exiting")

\* A daemon that is started comes up: while nothing crashes, nobody else
\* takes the store and no session gives up on its daemon, none dies on the
\* data-dir lock or the store's, however the hand-overs interleave (#124).
NoStartWasted ==
    [][\A d \in Daemon : status[d] \in {"start", "locked", "open"} /\ status'[d] = "dead" =>
           mishaps' + giveups' > 0]_vars

\* A session that was served is cut off by the daemon only if that retires.
SessionsKept ==
    [][\A c \in Client : \A n \in Attempt :
          conn[c][n].phase = "ok" /\ conn'[c][n].phase = "none" =>
              status[conn[c][n].to] = "draining" \/ mishaps' > mishaps]_vars

\* Every session that starts is attached or told why not, without waiting
\* for a deadline: the spawn lock, the data-dir lock, the store's lock and
\* the socket never make everybody wait for everybody, unless a session
\* leaves a daemon behind that is still starting.
Settles ==
    \A c \in Client :
        pc[c] = "connect" ~> pc[c] \in {"attached", "gone", "failed"} \/ giveups > 0
=============================================================================
