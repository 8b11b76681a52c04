-------------------------- MODULE AgmemDaemonProofs --------------------------
(***************************************************************************)
(* What the locks, the socket path and the hand-over of AgmemDaemon        *)
(* promise for any number of sessions and daemons, any configurations and  *)
(* any number of crashes.                                                  *)
(***************************************************************************)
EXTENDS AgmemDaemon, FiniteSetTheorems, TLAPS

-----------------------------------------------------------------------------
(* The shapes the arguments rest on *)

Phases == {"none", "backlog", "accepted", "ok", "done", "retire"}
Ends == [Client -> [Attempt -> [to: Daemon \cup {None}, phase: Phases]]]

Shape ==
    /\ status \in [Daemon -> Statuses]
    /\ dlock \in Client \cup Daemon \cup {None, Solo}
    /\ elock \in Daemon \cup {None, Solo}
    /\ slock \in Client \cup {None}
    /\ sock \in Daemon \cup {None}
    /\ conn \in Ends
    /\ pc \in [Client -> PCs]
    /\ try \in [Client -> Attempt]
    /\ child \in [Client -> Daemon \cup {None}]
    /\ mishaps \in Nat /\ giveups \in Nat

\* Closing connections leaves connections.
LEMMA CutShape ==
    ASSUME Shape, NEW K, CutLinks(K)
    PROVE  conn' \in Ends
  BY DEF Shape, CutLinks, Ends, NoConn, Phases

\* So does the next phase of one.
LEMMA PhaseShape ==
    ASSUME Shape, NEW k \in Client \X Attempt, NEW phase \in Phases, SetPhase(k, phase)
    PROVE  conn' \in Ends
  <1>. DEFINE End == [to: Daemon \cup {None}, phase: Phases]
  <1>1. conn \in [Client -> [Attempt -> End]] /\ k[1] \in Client /\ k[2] \in Attempt
    BY DEF Shape, Ends
  <1>2. [conn[k[1]][k[2]] EXCEPT !.phase = phase] \in End
    BY <1>1
  <1>3. conn' = [conn EXCEPT ![k[1]] =
                    [conn[k[1]] EXCEPT ![k[2]] = [conn[k[1]][k[2]] EXCEPT !.phase = phase]]]
    BY DEF SetPhase
  <1>. HIDE DEF End
  <1>4. conn' \in [Client -> [Attempt -> End]]
    BY <1>1, <1>2, <1>3
  <1>. QED BY <1>4 DEF Ends, End

\* So does the session's end being closed, and a new connection.
LEMMA SessionShape ==
    ASSUME Shape, NEW c \in Client, Detach(c) \/ Connected(c)
    PROVE  conn' \in Ends
  <1>1. CASE Detach(c)
    <2>. DEFINE End == [to: Daemon \cup {None}, phase: Phases]
                old == conn[c][try[c]]
                new == [old EXCEPT !.phase = IF old.phase = "ok" THEN "done" ELSE old.phase]
    <2>1. conn \in [Client -> [Attempt -> End]] /\ try[c] \in Attempt
      BY DEF Shape, Ends
    <2>2. new \in End
      BY <2>1 DEF Phases
    <2>3. conn' = [conn EXCEPT ![c] = [conn[c] EXCEPT ![try[c]] = new]]
      BY <1>1 DEF Detach
    <2>. HIDE DEF End, new
    <2>4. conn' \in [Client -> [Attempt -> End]]
      BY <2>1, <2>2, <2>3
    <2>. QED BY <2>4 DEF Ends, End
  <1>2. CASE Connected(c)
    BY <1>2 DEF Shape, Connected, Ends, Phases
  <1>. QED BY <1>1, <1>2

\* Every verdict of the handshake has a phase.
LEMMA PhaseAfterShape ==
    ASSUME NEW v
    PROVE  PhaseAfter(v) \in Phases
  BY DEF PhaseAfter, Phases

\* Every step keeps the shapes.
LEMMA ShapeStep ==
    ASSUME Shape, [Next]_vars
    PROVE  Shape'
  <1>. USE DEF Shape
  <1>1. conn' \in Ends
    <2>1. ASSUME NEW c \in Client, ClientStep(c) \/ Begin(c) PROVE conn' \in Ends
      BY <2>1, SessionShape DEF ClientStep, Begin, Connect, QueueToSpawn, CheckStale,
         ClearStale, ProbeLock, ProbeDone, Spawn, WaitUntilReady, ReadAck, WaitForRetirement
    <2>2. ASSUME NEW c \in Client, HangUp(c) \/ Deadline(c) \/ Abort(c) PROVE conn' \in Ends
      BY <2>2, SessionShape DEF HangUp, Deadline, Abort
    <2>3. ASSUME NEW d \in Daemon, Accept(d) PROVE conn' \in Ends
      <3>1. PICK k \in Backlog(d) : SetPhase(k, "accepted")
        BY <2>3 DEF Accept
      <3>. QED BY <3>1, PhaseShape DEF Backlog, LinksOf, Phases
    <2>4. ASSUME NEW d \in Daemon, Answer(d) PROVE conn' \in Ends
      <3>1. PICK k \in LinksOf(d, {"accepted"}) : \E phase \in Phases : SetPhase(k, phase)
        BY <2>4, PhaseAfterShape DEF Answer, Phases
      <3>. QED BY <3>1, PhaseShape DEF LinksOf
    <2>5. ASSUME NEW d \in Daemon, Join(d) \/ DrainOver(d) \/ Idle(d) \/ Crash(d)
          PROVE  conn' \in Ends
      BY <2>5, CutShape DEF Join, DrainOver, Idle, Crash
    <2>6. ASSUME NEW d \in Daemon, \/ Acquire(d) \/ Open(d) \/ Bind(d) \/ Unlink(d)
                                   \/ EngineCloses(d) \/ Release(d) \/ Exit(d) \/ ReleaseLate(d)
          PROVE  conn' = conn
      BY <2>6 DEF Acquire, Open, Bind, Unlink, EngineCloses, Release, Exit, ReleaseLate
    <2>7. SoloOpens \/ SoloExits \/ UNCHANGED vars => conn' = conn
      BY DEF SoloOpens, SoloExits, vars
    <2>. QED BY <2>1, <2>2, <2>3, <2>4, <2>5, <2>6, <2>7 DEF Next, DaemonStep
  <1>2. ASSUME NEW c \in Client, Begin(c) \/ ClientStep(c) PROVE Shape'
    BY <1>1, <1>2 DEF Begin, ClientStep, Connect, QueueToSpawn, CheckStale,
       ClearStale, ProbeLock, ProbeDone, Spawn, WaitUntilReady, ReadAck, WaitForRetirement,
       Connected, Fail, DropGuard, Goto, daemons, PCs, Statuses, Attempt
  <1>3. ASSUME NEW c \in Client, HangUp(c) \/ Deadline(c) \/ Abort(c) PROVE Shape'
    BY <1>1, <1>3 DEF HangUp, Deadline, Abort, Fail, DropGuard, Goto, GiveUp, daemons, PCs
  <1>4. ASSUME NEW d \in Daemon, DaemonStep(d) PROVE Shape'
    BY <1>1, <1>4 DEF DaemonStep, Acquire, Open, Bind, Accept, Answer, Join, DrainOver,
       Unlink, EngineCloses, Release, Exit, Become, Die, daemons, session, Statuses
  <1>5. ASSUME NEW d \in Daemon, Idle(d) \/ ReleaseLate(d) \/ Crash(d) PROVE Shape'
    BY <1>1, <1>5 DEF Idle, ReleaseLate, Crash, Become, Die, Mishap, daemons, session, Statuses
  <1>6. ASSUME SoloOpens \/ SoloExits \/ UNCHANGED vars PROVE Shape'
    BY <1>1, <1>6 DEF SoloOpens, SoloExits, Mishap, session, vars
  <1>. QED BY <1>2, <1>3, <1>4, <1>5, <1>6 DEF Next

-----------------------------------------------------------------------------
(***************************************************************************)
(* The locks.  A daemon holds the data-dir lock from the moment it has it  *)
(* until it lets it go, the store's from Open until the engine closes, and *)
(* a session that probes holds the data-dir lock for that moment: two of   *)
(* them can never be there at once.                                        *)
(***************************************************************************)
Holding == {"locked", "open", "serving", "draining", "idling", "closing"}
Opened == {"open", "serving", "draining", "idling"}

LocksHeld ==
    /\ \A d \in Daemon : status[d] \in Holding => dlock = d
    /\ \A d \in Daemon : status[d] \in Opened => elock = d
    /\ \A d \in Daemon : elock = d => status[d] \in Opened \cup {"closing", "exiting"}
    /\ elock = Solo <=> dlock = Solo
    /\ \A c \in Client : pc[c] = "probe" => dlock = c
    /\ \A d \in Daemon : status[d] = "exiting" => mishaps > 0

Guarded == {"recheck", "clear", "unlink", "lock", "probe", "spawn", "ready"}

\* From the queue until start_one returns a session has the spawn lock, and
\* while it waits for its daemon it has one to wait for.
GuardHeld ==
    \A c \in Client : /\ pc[c] \in Guarded => slock = c
                      /\ pc[c] = "ready" => child[c] \in Daemon

\* Who may change a lock, and when.
LEMMA LocksStep ==
    ASSUME Shape, LocksHeld, [Next]_vars
    PROVE  LocksHeld'
  <1>. USE DaemonAssumption DEF Shape, LocksHeld, Holding, Opened
  <1>1. ASSUME NEW c \in Client, Begin(c) \/ ClientStep(c) PROVE LocksHeld'
    <2>1. CASE Spawn(c)
      BY <2>1 DEF Spawn, Fresh, Goto
    <2>2. CASE ProbeLock(c) \/ ProbeDone(c)
      BY <2>2 DEF ProbeLock, ProbeDone, Goto
    <2>3. CASE \/ Begin(c) \/ Connect(c) \/ QueueToSpawn(c) \/ CheckStale(c) \/ ClearStale(c)
               \/ WaitUntilReady(c) \/ ReadAck(c) \/ WaitForRetirement(c)
      <3>1. /\ UNCHANGED <<status, dlock, elock, mishaps>>
            /\ \E where \in PCs \ {"probe"} : pc' = [pc EXCEPT ![c] = where]
        BY <2>3 DEF Begin, Connect, QueueToSpawn, CheckStale, ClearStale, WaitUntilReady,
           ReadAck, WaitForRetirement, Connected, Fail, Goto, daemons, PCs
      <3>. QED BY <3>1
    <2>. QED BY <1>1, <2>1, <2>2, <2>3 DEF ClientStep
  <1>2. ASSUME NEW c \in Client, HangUp(c) \/ Deadline(c) \/ Abort(c) PROVE LocksHeld'
    BY <1>2 DEF HangUp, Deadline, Abort, Fail, Goto, daemons
  <1>3. ASSUME NEW d \in Daemon, Acquire(d) \/ Open(d) \/ Bind(d) PROVE LocksHeld'
    BY <1>3 DEF Acquire, Open, Bind, Become, Die, session
  <1>4. ASSUME NEW d \in Daemon, Accept(d) \/ Answer(d) PROVE LocksHeld'
    BY <1>4 DEF Accept, Answer, daemons, session
  <1>5. ASSUME NEW d \in Daemon, Join(d) \/ DrainOver(d) \/ Idle(d) \/ Unlink(d)
        PROVE  LocksHeld'
    <2>1. /\ UNCHANGED <<dlock, elock, pc, mishaps>>
          /\ \/ status[d] \in Opened /\ \E where \in Opened : status' = [status EXCEPT ![d] = where]
             \/ status[d] \in Opened /\ status' = [status EXCEPT ![d] = "closing"]
      BY <1>5 DEF Join, DrainOver, Idle, Unlink, Listening, Become, session
    <2>. QED BY <2>1
  <1>6. ASSUME NEW d \in Daemon, EngineCloses(d) \/ Release(d) \/ Exit(d) PROVE LocksHeld'
    BY <1>6 DEF EngineCloses, Release, Exit, Become, Die, session
  <1>7. ASSUME NEW d \in Daemon, ReleaseLate(d) \/ Crash(d) PROVE LocksHeld'
    BY <1>7 DEF ReleaseLate, Crash, Become, Die, Mishap, session
  <1>8. ASSUME SoloOpens \/ SoloExits \/ UNCHANGED vars PROVE LocksHeld'
    BY <1>8 DEF SoloOpens, SoloExits, Mishap, session, vars
  <1>. QED BY <1>1, <1>2, <1>3, <1>4, <1>5, <1>6, <1>7, <1>8 DEF Next, DaemonStep

\* The spawn lock is let go only by its holder.
LEMMA GuardStep ==
    ASSUME Shape, GuardHeld, [Next]_vars
    PROVE  GuardHeld'
  <1>. USE DaemonAssumption DEF Shape, GuardHeld, Guarded
  <1>1. ASSUME NEW c \in Client, \/ Begin(c) \/ Connect(c) \/ QueueToSpawn(c) \/ CheckStale(c)
                                 \/ ClearStale(c) \/ ProbeLock(c) \/ ProbeDone(c)
        PROVE  GuardHeld'
    BY <1>1 DEF Begin, Connect, QueueToSpawn, CheckStale, ClearStale, ProbeLock, ProbeDone,
       Connected, Fail, DropGuard, Goto
  <1>2. ASSUME NEW c \in Client, Spawn(c) PROVE GuardHeld'
    BY <1>2 DEF Spawn, Goto
  <1>3. ASSUME NEW c \in Client, WaitUntilReady(c) PROVE GuardHeld'
    BY <1>3 DEF WaitUntilReady, Connected, Fail, DropGuard, Goto
  <1>4. ASSUME NEW c \in Client, ReadAck(c) \/ WaitForRetirement(c) PROVE GuardHeld'
    BY <1>4 DEF ReadAck, WaitForRetirement, Fail, DropGuard, Goto
  <1>5. ASSUME NEW c \in Client, HangUp(c) \/ Deadline(c) \/ Abort(c) PROVE GuardHeld'
    BY <1>5 DEF HangUp, Deadline, Abort, Fail, DropGuard, Goto
  <1>6. ASSUME NEW d \in Daemon, DaemonStep(d) \/ Idle(d) \/ ReleaseLate(d) \/ Crash(d)
        PROVE  UNCHANGED <<slock, pc, child>>
    BY <1>6 DEF DaemonStep, Acquire, Open, Bind, Accept, Answer, Join, DrainOver, Unlink,
       EngineCloses, Release, Exit, Idle, ReleaseLate, Crash, session
  <1>7. SoloOpens \/ SoloExits \/ UNCHANGED vars => UNCHANGED <<slock, pc, child>>
    BY DEF SoloOpens, SoloExits, session, vars
  <1>8. UNCHANGED <<slock, pc, child>> => GuardHeld'
    OBVIOUS
  <1>. QED
    BY <1>1, <1>2, <1>3, <1>4, <1>5, <1>6, <1>7, <1>8 DEF Next, ClientStep

-----------------------------------------------------------------------------
(***************************************************************************)
(* Starting a daemon.  As long as no session has given up on the daemon it *)
(* started, a session past its second look at the socket knows that no     *)
(* daemon is up or coming up, and one that waits knows that only its own   *)
(* child can be.                                                           *)
(***************************************************************************)
Starting == {"start", "locked", "open"}
Up == {d \in Daemon : status[d] \in Starting \cup {"serving"}}
Alone == {"clear", "unlink", "lock", "probe", "spawn"}

StartsGuarded ==
    giveups = 0 =>
        /\ \A c \in Client : pc[c] \in Alone => Up = {}
        /\ \A c \in Client : pc[c] = "ready" => Up \subseteq {child[c]}
        /\ \A d \in Daemon : status[d] \in Starting =>
               \E c \in Client : pc[c] = "ready" /\ child[c] = d
        /\ \A d \in Daemon : Listening(d) => sock = d

\* A step that leaves the sessions where they are and starts no daemon.
LEMMA StartsKept ==
    ASSUME Shape, StartsGuarded, UNCHANGED <<pc, child, giveups>>,
           \A d \in Daemon : status'[d] \in Starting => status[d] \in Starting,
           \A d \in Daemon : status'[d] = "serving" =>
               status[d] \in Starting \cup {"serving"} /\ (giveups = 0 => sock' = d)
    PROVE  StartsGuarded'
  <1>1. Up' \subseteq Up
    BY DEF Up
  <1>. QED BY <1>1 DEF StartsGuarded, Listening

\* The steps of a session keep the guard of the starts.
LEMMA StartsSession ==
    ASSUME Shape, LocksHeld, GuardHeld, StartsGuarded,
           NEW c \in Client,
           Begin(c) \/ ClientStep(c) \/ HangUp(c) \/ Deadline(c) \/ Abort(c)
    PROVE  StartsGuarded'
  <1>. SUFFICES ASSUME giveups' = 0 PROVE StartsGuarded'
    BY DEF StartsGuarded
  <1>. USE DaemonAssumption DEF Shape
  <1>0. giveups' = giveups /\ giveups = 0 /\ ~Deadline(c) /\ ~Abort(c)
    BY DEF Begin, ClientStep, Connect, QueueToSpawn, CheckStale, ClearStale, ProbeLock,
       ProbeDone, Spawn, WaitUntilReady, ReadAck, WaitForRetirement, HangUp, Deadline, Abort,
       GiveUp
  <1>1. /\ \A b \in Client : pc[b] \in Alone => Up = {}
        /\ \A b \in Client : pc[b] = "ready" => Up \subseteq {child[b]}
        /\ \A d \in Daemon : status[d] \in Starting =>
               \E b \in Client : pc[b] = "ready" /\ child[b] = d
        /\ \A d \in Daemon : Listening(d) => sock = d
    BY <1>0 DEF StartsGuarded
  <1>2. \A b \in Client : pc[b] \in Guarded => slock = b
    BY DEF GuardHeld
  <1>3. ASSUME UNCHANGED <<status, sock, child>>, pc[c] # "ready",
               NEW where \in PCs \ {"ready"}, pc' = [pc EXCEPT ![c] = where],
               where \in Alone => Up = {}
        PROVE  StartsGuarded'
    <2>1. Up' = Up
      BY <1>3 DEF Up
    <2>2. \A b \in Client : b # c => pc'[b] = pc[b]
      BY <1>3
    <2>3. pc'[c] = where
      BY <1>3
    <2>4. \A b \in Client : pc'[b] \in Alone => Up' = {}
      BY <1>1, <1>3, <2>1, <2>2, <2>3
    <2>5. \A b \in Client : pc'[b] = "ready" => Up' \subseteq {child'[b]}
      BY <1>1, <1>3, <2>1, <2>2, <2>3
    <2>6. \A d \in Daemon : status'[d] \in Starting =>
               \E b \in Client : pc'[b] = "ready" /\ child'[b] = d
      BY <1>1, <1>3, <2>2
    <2>7. \A d \in Daemon : Listening(d)' => sock' = d
      BY <1>1, <1>3 DEF Listening
    <2>. QED BY <2>4, <2>5, <2>6, <2>7 DEF StartsGuarded
  <1>4. CASE Begin(c) \/ QueueToSpawn(c) \/ ReadAck(c) \/ WaitForRetirement(c) \/ HangUp(c)
    <2>1. /\ UNCHANGED <<status, sock, child>> /\ pc[c] # "ready"
          /\ \E where \in PCs \ (Alone \cup {"ready"}) : pc' = [pc EXCEPT ![c] = where]
      BY <1>4 DEF Begin, QueueToSpawn, ReadAck, WaitForRetirement, HangUp, Fail, Goto, daemons,
         PCs, Alone
    <2>. QED BY <1>3, <2>1
  <1>5. CASE Connect(c)
    <2>1. CASE pc' = [pc EXCEPT ![c] = "clear"] /\ pc[c] = "recheck"
               /\ ~(sock \in Daemon /\ Listening(sock)) /\ UNCHANGED <<status, sock, child>>
      <3>1. Up = {}
        <4>1. \A d \in Daemon : status[d] \notin Starting
          BY <1>1, <1>2, <2>1 DEF Guarded
        <4>2. \A d \in Daemon : status[d] # "serving"
          BY <1>1, <2>1 DEF Listening
        <4>. QED BY <4>1, <4>2 DEF Up
      <3>. QED BY <1>3, <2>1, <3>1 DEF PCs
    <2>2. CASE /\ pc[c] # "ready" /\ UNCHANGED <<status, sock, child>>
               /\ pc' = [pc EXCEPT ![c] = "queue"] \/ pc' = [pc EXCEPT ![c] = "ack"]
      BY <1>3, <2>2 DEF PCs, Alone
    <2>. QED BY <1>5, <2>1, <2>2 DEF Connect, Connected, Goto, daemons
  <1>6. CASE CheckStale(c) \/ ProbeLock(c) \/ ProbeDone(c)
    <2>1. /\ pc[c] \in Alone /\ UNCHANGED <<status, sock, child>>
          /\ \E where \in Alone : pc' = [pc EXCEPT ![c] = where]
      BY <1>6 DEF CheckStale, ProbeLock, ProbeDone, Goto, daemons, Alone
    <2>2. Up = {} /\ pc[c] # "ready" /\ Alone \subseteq PCs \ {"ready"}
      BY <1>1, <2>1 DEF Alone, PCs
    <2>. QED BY <1>3, <2>1, <2>2
  <1>7. CASE ClearStale(c)
    <2>1. Up = {}
      BY <1>1, <1>7 DEF ClearStale, Alone
    <2>2. status' = status /\ child' = child
      BY <1>7 DEF ClearStale, daemons
    <2>3. \E where \in {"lock", "failed"} : pc' = [pc EXCEPT ![c] = where]
      BY <1>7 DEF ClearStale, Fail, Goto
    <2>4. pc[c] # "ready"
      BY <1>7 DEF ClearStale
    <2>5. Up' = {} /\ \A d \in Daemon : ~Listening(d)'
      BY <2>1, <2>2 DEF Up, Listening
    <2>. QED BY <1>1, <2>1, <2>2, <2>3, <2>4, <2>5 DEF StartsGuarded, Alone, Up
  <1>8. CASE Spawn(c)
    <2>1. Up = {} /\ slock = c /\ pc[c] = "spawn"
      BY <1>1, <1>2, <1>8 DEF Spawn, Alone, Guarded
    <2>2. PICK d \in Daemon : /\ status' = [status EXCEPT ![d] = "start"]
                              /\ child' = [child EXCEPT ![c] = d]
                              /\ pc' = [pc EXCEPT ![c] = "ready"] /\ sock' = sock
      BY <1>8 DEF Spawn, Goto
    <2>3. Up' = {d}
      BY <2>1, <2>2 DEF Up, Starting
    <2>4. \A b \in Client : b # c => pc'[b] \notin Guarded
      BY <1>2, <2>1, <2>2
    <2>5. pc'[c] = "ready" /\ child'[c] = d
      BY <2>2
    <2>6. \A e \in Daemon : ~Listening(e)'
      BY <2>1, <2>2 DEF Listening, Up, Starting
    <2>7. \A e \in Daemon : status'[e] \in Starting => e = d
      BY <2>3 DEF Up
    <2>. QED BY <2>3, <2>4, <2>5, <2>6, <2>7 DEF StartsGuarded, Guarded, Alone
  <1>9. CASE WaitUntilReady(c)
    <2>1. pc[c] = "ready" /\ slock = c /\ Up \subseteq {child[c]}
      BY <1>1, <1>2, <1>9 DEF WaitUntilReady, Guarded
    <2>2. status' = status /\ sock' = sock
      BY <1>9 DEF WaitUntilReady, daemons
    <2>3. \A b \in Client : b # c => pc[b] \notin Guarded
      BY <1>2, <2>1
    <2>4. \A d \in Daemon : status[d] \notin Starting
      <3>1. CASE Connected(c)
        BY <2>1, <3>1 DEF Connected, Listening, Up, Starting
      <3>2. CASE status[child[c]] = "dead"
        BY <2>1, <3>2 DEF Up, Starting
      <3>. QED BY <1>9, <3>1, <3>2 DEF WaitUntilReady
    <2>5. \E where \in {"ack", "failed", "lock"} :
             /\ pc' = [pc EXCEPT ![c] = where]
             /\ where = "lock" => status[child[c]] = "dead"
      BY <1>9 DEF WaitUntilReady, Connected, Fail, Goto
    <2>6. pc'[c] \in Alone => Up' = {}
      <3>1. pc'[c] \in Alone => status[child[c]] = "dead"
        BY <2>5 DEF Alone
      <3>2. status[child[c]] = "dead" => Up = {}
        BY <2>1 DEF Up, Starting
      <3>3. Up' = Up
        BY <2>2 DEF Up
      <3>. QED BY <3>1, <3>2, <3>3
    <2>7. \A b \in Client : b # c => pc'[b] \notin Guarded
      BY <2>3, <2>5
    <2>8. pc'[c] # "ready"
      BY <2>5
    <2>9. \A d \in Daemon : Listening(d)' => sock' = d
      BY <1>1, <2>2 DEF Listening
    <2>. QED BY <2>2, <2>4, <2>6, <2>7, <2>8, <2>9 DEF StartsGuarded, Guarded, Alone
  <1>. QED BY <1>0, <1>4, <1>5, <1>6, <1>7, <1>8, <1>9 DEF ClientStep

\* So does every step.
LEMMA StartsStep ==
    ASSUME Shape, LocksHeld, GuardHeld, StartsGuarded, [Next]_vars
    PROVE  StartsGuarded'
  <1>. USE DaemonAssumption DEF Shape
  <1>1. ASSUME NEW d \in Daemon, UNCHANGED <<pc, child, giveups, sock>>,
               NEW where \in Statuses, status' = [status EXCEPT ![d] = where],
               where \in Starting => status[d] \in Starting,
               where = "serving" => status[d] = "serving"
        PROVE  StartsGuarded'
    BY <1>1, StartsKept DEF StartsGuarded, Listening
  <1>2. ASSUME NEW d \in Daemon, Acquire(d) \/ Open(d) PROVE StartsGuarded'
    BY <1>1, <1>2 DEF Acquire, Open, Become, Die, session, Starting, Statuses
  <1>3. ASSUME NEW d \in Daemon, Bind(d) PROVE StartsGuarded'
    <2>1. /\ status[d] = "open" /\ sock' = d /\ status' = [status EXCEPT ![d] = "serving"]
          /\ UNCHANGED <<pc, child, giveups>>
      BY <1>3 DEF Bind, Become, session
    <2>2. \A e \in Daemon : e # d => status[e] # "serving"
      BY <2>1 DEF LocksHeld, Holding
    <2>. QED BY <2>1, <2>2, StartsKept DEF Starting
  <1>4. ASSUME NEW d \in Daemon, Accept(d) \/ Answer(d) \/ EngineCloses(d)
        PROVE  UNCHANGED <<status, pc, child, giveups, sock>>
    BY <1>4 DEF Accept, Answer, EngineCloses, daemons, session
  <1>5. ASSUME NEW d \in Daemon, Join(d) PROVE StartsGuarded'
    <2>1. /\ UNCHANGED <<pc, child, giveups>> /\ status[d] \in {"serving", "draining"}
          /\ \/ sock' = sock /\ \E where \in {"serving", "closing", "draining"} :
                                    /\ status' = [status EXCEPT ![d] = where]
                                    /\ where = "serving" => status[d] = "serving"
             \/ /\ status[d] = "serving"
                /\ \E where \in {"closing", "draining"} : status' = [status EXCEPT ![d] = where]
      BY <1>5 DEF Join, Become, session
    <2>2. status[d] = "serving" => \A e \in Daemon : e # d => status[e] # "serving"
      BY DEF LocksHeld, Holding
    <2>3. CASE /\ status[d] = "serving"
               /\ \E where \in {"closing", "draining"} : status' = [status EXCEPT ![d] = where]
      BY <2>1, <2>2, <2>3, StartsKept DEF Starting
    <2>4. CASE sock' = sock /\ \E where \in {"serving", "closing", "draining"} :
                                    /\ status' = [status EXCEPT ![d] = where]
                                    /\ where = "serving" => status[d] = "serving"
      BY <1>1, <2>1, <2>4 DEF Starting, Statuses
    <2>. QED BY <2>1, <2>3, <2>4
  <1>6. ASSUME NEW d \in Daemon, Unlink(d) PROVE StartsGuarded'
    <2>1. /\ UNCHANGED <<pc, child, giveups>> /\ status[d] = "idling"
          /\ status' = [status EXCEPT ![d] = "closing"]
      BY <1>6 DEF Unlink, Become, session
    <2>2. \A e \in Daemon : status[e] # "serving"
      BY <2>1 DEF LocksHeld, Holding
    <2>. QED BY <2>1, <2>2, StartsKept DEF Starting
  <1>7. ASSUME NEW d \in Daemon, \/ DrainOver(d) \/ Release(d) \/ Exit(d) \/ Idle(d)
                                 \/ ReleaseLate(d) \/ Crash(d)
        PROVE  StartsGuarded'
    <2>1. /\ UNCHANGED <<pc, child, giveups, sock>>
          /\ \E where \in {"closing", "idling", "exiting", "dead"} :
                 status' = [status EXCEPT ![d] = where]
      BY <1>7 DEF DrainOver, Release, Exit, Idle, ReleaseLate, Crash, Become, Die, session
    <2>. QED BY <1>1, <2>1 DEF Starting, Statuses
  <1>8. SoloOpens \/ SoloExits \/ UNCHANGED vars => UNCHANGED <<status, pc, child, giveups, sock>>
    BY DEF SoloOpens, SoloExits, session, vars
  <1>9. UNCHANGED <<status, pc, child, giveups, sock>> => StartsGuarded'
    BY StartsKept DEF StartsGuarded, Listening
  <1>. QED
    BY <1>2, <1>3, <1>4, <1>5, <1>6, <1>7, <1>8, <1>9, StartsSession DEF Next, DaemonStep

DaemonInv == Shape /\ LocksHeld /\ GuardHeld /\ StartsGuarded

\* The inductive invariant of the locks, the spawn lock and the starts.
LEMMA DaemonInvariant == Spec => []DaemonInv
  <1>1. Init => DaemonInv
    <2>. SUFFICES ASSUME Init PROVE DaemonInv
      OBVIOUS
    <2>1. Shape
      BY DEF Init, Shape, Ends, NoConn, Phases, Statuses, PCs, Attempt
    <2>2. LocksHeld /\ GuardHeld
      BY DaemonAssumption DEF Init, LocksHeld, GuardHeld, Holding, Opened, Guarded
    <2>3. StartsGuarded
      BY DEF Init, StartsGuarded, Starting, Alone, Listening
    <2>. QED BY <2>1, <2>2, <2>3 DEF DaemonInv
  <1>2. DaemonInv /\ [Next]_vars => DaemonInv'
    BY ShapeStep, LocksStep, GuardStep, StartsStep DEF DaemonInv
  <1>. QED BY <1>1, <1>2, PTL DEF Spec

\* While no session has given up on a daemon it started, whoever listens is
\* whom the path names: the unlink of a stale socket (client.rs) and the
\* unlinks of a retiring or idling daemon (serve.rs) never take away the
\* socket of a daemon that serves, for any number of sessions and daemons.
THEOREM ListenerReachable == Spec => []Reachable
  <1>1. DaemonInv => Reachable
    BY DEF DaemonInv, StartsGuarded, Reachable
  <1>. QED BY <1>1, DaemonInvariant, PTL

\* A burst of sessions of any size produces one daemon, and the store is open
\* only in the process that holds the data-dir lock, save for a daemon whose
\* engine outlived STORE_RELEASE_DEADLINE.
THEOREM OneDaemonAtATime == Spec => []OneDaemon
  <1>1. DaemonInv => OneDaemon
    <2>. SUFFICES ASSUME DaemonInv PROVE OneDaemon
      OBVIOUS
    <2>. USE DEF DaemonInv
    <2>1. ASSUME giveups = 0 PROVE Cardinality(Up) <= 1
      <3>1. ASSUME NEW d \in Up, NEW e \in Up PROVE d = e
        <4>1. CASE status[d] \in Starting \/ status[e] \in Starting
          <5>1. PICK c \in Client : pc[c] = "ready"
            BY <2>1, <3>1, <4>1 DEF StartsGuarded, Up
          <5>. QED BY <2>1, <3>1, <5>1 DEF StartsGuarded
        <4>2. CASE status[d] = "serving" /\ status[e] = "serving"
          BY <3>1, <4>2 DEF LocksHeld, Holding, Up
        <4>. QED BY <3>1, <4>1, <4>2 DEF Up
      <3>2. CASE Up = {}
        BY <3>2, FS_EmptySet
      <3>3. CASE Up # {}
        <4>1. PICK d \in Up : Up = {d}
          BY <3>1, <3>3
        <4>. QED BY <4>1, FS_Singleton
      <3>. QED BY <3>2, <3>3
    <2>2. Up = {d \in Daemon : status[d] \in {"start", "locked", "open", "serving"}}
      BY DEF Up, Starting
    <2>3. ASSUME elock # None
          PROVE  dlock = elock \/ (elock \in Daemon /\ mishaps > 0 /\ status[elock] = "exiting")
      BY <2>3 DEF Shape, LocksHeld, Holding, Opened
    <2>. QED BY <2>1, <2>2, <2>3 DEF OneDaemon
  <1>. QED BY <1>1, DaemonInvariant, PTL

-----------------------------------------------------------------------------
(* No start is wasted *)

\* While nothing went wrong the data-dir lock is free for the daemon a
\* session is about to start, and for one that has just started.
LockFree ==
    mishaps = 0 /\ giveups = 0 =>
        /\ \A c \in Client : pc[c] = "spawn" => dlock = None
        /\ \A d \in Daemon : status[d] = "start" => dlock = None

\* Only a daemon that was started, or a probe, takes the lock, and both are
\* behind the spawn lock.
LEMMA LockFreeStep ==
    ASSUME DaemonInv, LockFree, [Next]_vars
    PROVE  LockFree'
  <1>. SUFFICES ASSUME mishaps' = 0, giveups' = 0 PROVE LockFree'
    BY DEF LockFree
  <1>. USE DaemonAssumption DEF DaemonInv, Shape
  <1>1. mishaps = 0 /\ giveups = 0
    <2>1. ASSUME NEW c \in Client, \/ Begin(c) \/ ClientStep(c) \/ HangUp(c)
                                   \/ Deadline(c) \/ Abort(c)
          PROVE  mishaps' = mishaps /\ (giveups' = giveups \/ giveups' = giveups + 1)
      BY <2>1 DEF Begin, ClientStep, Connect, QueueToSpawn, CheckStale, ClearStale, ProbeLock,
         ProbeDone, Spawn, WaitUntilReady, ReadAck, WaitForRetirement, HangUp, Deadline, Abort,
         GiveUp
    <2>2. ASSUME NEW d \in Daemon, DaemonStep(d) \/ Idle(d) \/ ReleaseLate(d) \/ Crash(d)
          PROVE  giveups' = giveups /\ (mishaps' = mishaps \/ mishaps' = mishaps + 1)
      BY <2>2 DEF DaemonStep, Acquire, Open, Bind, Accept, Answer, Join, DrainOver, Unlink,
         EngineCloses, Release, Exit, Idle, ReleaseLate, Crash, Mishap
    <2>3. SoloOpens \/ SoloExits \/ UNCHANGED vars =>
             giveups' = giveups /\ (mishaps' = mishaps \/ mishaps' = mishaps + 1)
      BY DEF SoloOpens, SoloExits, Mishap, vars
    <2>. QED BY <2>1, <2>2, <2>3 DEF Next
  <1>2. /\ \A c \in Client : pc[c] = "spawn" => dlock = None
        /\ \A d \in Daemon : status[d] = "start" => dlock = None
    BY <1>1 DEF LockFree
  <1>3. ASSUME NEW c \in Client, pc[c] \in Guarded
        PROVE  \A b \in Client : b # c => pc[b] \notin Guarded
    BY <1>3 DEF GuardHeld
  <1>4. ASSUME NEW c \in Client, ProbeLock(c) PROVE LockFree'
    <2>1. \A d \in Daemon : status[d] # "start"
      BY <1>1, <1>4 DEF ProbeLock, StartsGuarded, Alone, Up, Starting
    <2>2. /\ \A b \in Client : b # c => pc[b] # "spawn"
          /\ status' = status /\ pc' = [pc EXCEPT ![c] = "probe"]
      BY <1>3, <1>4 DEF ProbeLock, Goto, Guarded
    <2>. QED BY <2>1, <2>2 DEF LockFree
  <1>5. ASSUME NEW c \in Client, ProbeDone(c) PROVE LockFree'
    BY <1>5 DEF ProbeDone, LockFree
  <1>6. ASSUME NEW c \in Client, Spawn(c) PROVE LockFree'
    <2>1. dlock' = None
      BY <1>2, <1>6 DEF Spawn
    <2>. QED BY <2>1 DEF LockFree
  <1>7. ASSUME NEW c \in Client, \/ Begin(c) \/ Connect(c) \/ QueueToSpawn(c) \/ CheckStale(c)
                                 \/ ClearStale(c) \/ WaitUntilReady(c) \/ ReadAck(c)
                                 \/ WaitForRetirement(c) \/ HangUp(c) \/ Deadline(c)
        PROVE  LockFree'
    <2>1. /\ UNCHANGED <<status, dlock>>
          /\ \E where \in PCs \ {"spawn"} : pc' = [pc EXCEPT ![c] = where]
      BY <1>7 DEF Begin, Connect, QueueToSpawn, CheckStale, ClearStale, WaitUntilReady,
         ReadAck, WaitForRetirement, HangUp, Deadline, Connected, Fail, Goto, daemons, PCs
    <2>. QED BY <1>2, <2>1 DEF LockFree
  <1>8. ASSUME NEW c \in Client, Abort(c) PROVE FALSE
    BY <1>1, <1>8 DEF Abort, GiveUp
  <1>9. ASSUME NEW d \in Daemon, Acquire(d) PROVE LockFree'
    <2>1. status[d] = "start" /\ pc' = pc
      BY <1>9 DEF Acquire, session
    <2>2. PICK c \in Client : pc[c] = "ready" /\ child[c] = d
      BY <1>1, <2>1 DEF StartsGuarded, Starting
    <2>3. \A b \in Client : pc[b] # "spawn"
      BY <1>3, <2>2 DEF Guarded
    <2>4. \A e \in Daemon : e # d => status[e] # "start"
      BY <1>1, <2>2 DEF StartsGuarded, Up, Starting
    <2>5. \E where \in {"locked", "dead"} : status' = [status EXCEPT ![d] = where]
      BY <1>9 DEF Acquire, Become, Die
    <2>. QED BY <2>1, <2>3, <2>4, <2>5 DEF LockFree
  <1>10. ASSUME NEW d \in Daemon, \/ Open(d) \/ Bind(d) \/ Accept(d) \/ Answer(d) \/ Join(d)
                                  \/ DrainOver(d) \/ Unlink(d) \/ EngineCloses(d)
                                  \/ Release(d) \/ Exit(d) \/ Idle(d)
         PROVE  LockFree'
    <2>1. /\ pc' = pc /\ (dlock' = dlock \/ dlock' = None)
          /\ \/ status' = status
             \/ \E where \in Statuses \ {"start"} : status' = [status EXCEPT ![d] = where]
      BY <1>10 DEF Open, Bind, Accept, Answer, Join, DrainOver, Unlink, EngineCloses, Release,
         Exit, Idle, Become, Die, daemons, session, Statuses
    <2>. QED BY <1>2, <2>1 DEF LockFree
  <1>11. ASSUME NEW d \in Daemon, ReleaseLate(d) \/ Crash(d) PROVE FALSE
    BY <1>1, <1>11 DEF ReleaseLate, Crash, Mishap
  <1>12. SoloOpens \/ SoloExits \/ UNCHANGED vars => LockFree'
    BY <1>1, <1>2 DEF SoloOpens, SoloExits, Mishap, session, vars, LockFree
  <1>. QED
    BY <1>4, <1>5, <1>6, <1>7, <1>8, <1>9, <1>10, <1>11, <1>12
       DEF Next, ClientStep, DaemonStep

\* A daemon that finds the lock or the store taken died because something
\* went wrong.
LEMMA StartEnds ==
    ASSUME DaemonInv, LockFree, [Next]_vars, NEW d \in Daemon,
           status[d] \in Starting, status'[d] = "dead"
    PROVE  mishaps' + giveups' > 0
  <1>. USE DaemonAssumption DEF DaemonInv, Shape
  <1>1. mishaps \in Nat /\ giveups \in Nat /\ mishaps' \in Nat /\ giveups' \in Nat
    BY ShapeStep
  <1>2. ASSUME NEW e \in Daemon, Acquire(e) PROVE mishaps' + giveups' > 0
    <2>1. UNCHANGED <<mishaps, giveups>> /\ e = d /\ status[d] = "start" /\ dlock # None
      BY <1>2 DEF Acquire, Become, Die, Starting
    <2>. QED BY <1>1, <2>1 DEF LockFree
  <1>3. ASSUME NEW e \in Daemon, Open(e) PROVE mishaps' + giveups' > 0
    <2>1. UNCHANGED <<mishaps, giveups>> /\ e = d /\ status[d] = "locked" /\ elock # None
      BY <1>3 DEF Open, Become, Die, Starting
    <2>2. dlock = d
      BY <2>1 DEF LocksHeld, Holding
    <2>3. mishaps > 0
      BY <2>1, <2>2 DEF LocksHeld, Holding, Opened
    <2>. QED BY <1>1, <2>1, <2>3
  <1>4. ASSUME NEW e \in Daemon, ReleaseLate(e) \/ Crash(e) PROVE mishaps' + giveups' > 0
    <2>1. mishaps' = mishaps + 1
      BY <1>4 DEF ReleaseLate, Crash, Mishap
    <2>2. \A x, y, z \in Nat : x = y + 1 => x + z > 0
      OBVIOUS
    <2>. QED BY <1>1, <2>1, <2>2
  <1>5. ASSUME NEW e \in Daemon, \/ Bind(e) \/ Accept(e) \/ Answer(e) \/ Join(e)
                                 \/ DrainOver(e) \/ Unlink(e) \/ EngineCloses(e)
                                 \/ Release(e) \/ Exit(e) \/ Idle(e)
        PROVE  FALSE
    BY <1>5 DEF Bind, Accept, Answer, Join, DrainOver, Unlink, EngineCloses, Release,
       Exit, Idle, Become, Die, Listening, daemons, Starting
  <1>6. ASSUME NEW c \in Client, \/ Begin(c) \/ ClientStep(c) \/ HangUp(c)
                                 \/ Deadline(c) \/ Abort(c)
        PROVE  FALSE
    BY <1>6 DEF Begin, ClientStep, Connect, QueueToSpawn, CheckStale, ClearStale, ProbeLock,
       ProbeDone, Spawn, WaitUntilReady, ReadAck, WaitForRetirement, HangUp, Deadline, Abort,
       daemons, Starting
  <1>7. SoloOpens \/ SoloExits \/ UNCHANGED vars => FALSE
    BY DEF SoloOpens, SoloExits, vars, Starting
  <1>. QED BY <1>2, <1>3, <1>4, <1>5, <1>6, <1>7 DEF Next, DaemonStep

\* Through any number of hand-overs no daemon that a session started dies on
\* the data-dir lock or the store's (issue #124), unless a process crashed,
\* closed late or took the store for itself, or a session gave up.
THEOREM StartsComeUp == Spec => NoStartWasted
  <1>. DEFINE Kept == \A d \in Daemon :
         status[d] \in {"start", "locked", "open"} /\ status'[d] = "dead" => mishaps' + giveups' > 0
  <1>1. Init => LockFree
    BY DEF Init, LockFree
  <1>2. DaemonInv /\ LockFree /\ [Next]_vars => LockFree'
    BY LockFreeStep
  <1>3. DaemonInv /\ LockFree /\ [Next]_vars => [Kept]_vars
    BY StartEnds DEF Starting
  <1>. QED BY <1>1, <1>2, <1>3, DaemonInvariant, PTL DEF Spec, NoStartWasted

-----------------------------------------------------------------------------
(* Who may be cut off *)

\* What each step may do to a connection that is being served.
LEMMA CutOnlyByDrain ==
    ASSUME Shape, [Next]_vars, NEW c \in Client, NEW n \in Attempt,
           conn[c][n].phase = "ok", conn'[c][n].phase = "none"
    PROVE  status[conn[c][n].to] = "draining" \/ mishaps' > mishaps
  <1>. USE DEF Shape
  <1>1. ASSUME NEW K, CutLinks(K), <<c, n>> \notin K PROVE FALSE
    BY <1>1 DEF CutLinks
  <1>2. ASSUME NEW d \in Daemon, Join(d) PROVE FALSE
    <2>1. PICK k \in LinksOf(d, {"done", "retire"}) : CutLinks({k} \cup Backlog(d)) \/ CutLinks({k})
      BY <1>2 DEF Join
    <2>2. <<c, n>> # k /\ <<c, n>> \notin Backlog(d)
      BY <2>1 DEF LinksOf, Backlog, Link
    <2>. QED BY <1>1, <2>1, <2>2
  <1>3. ASSUME NEW d \in Daemon, DrainOver(d) PROVE status[conn[c][n].to] = "draining"
    <2>1. <<c, n>> \in Sessions(d)
      BY <1>1, <1>3 DEF DrainOver
    <2>2. conn[c][n].to = d
      BY <2>1 DEF Sessions, LinksOf, Link
    <2>. QED BY <1>3, <2>2 DEF DrainOver
  <1>4. ASSUME NEW d \in Daemon, Idle(d) PROVE FALSE
    <2>1. CutLinks(Backlog(d)) /\ <<c, n>> \notin Backlog(d)
      BY <1>4 DEF Idle, Backlog, LinksOf, Link
    <2>. QED BY <1>1, <2>1
  <1>5. ASSUME NEW d \in Daemon, Crash(d) \/ ReleaseLate(d) PROVE mishaps' > mishaps
    BY <1>5 DEF Crash, ReleaseLate, Mishap
  <1>6. ASSUME NEW k \in Client \X Attempt, NEW phase, phase # "none", SetPhase(k, phase)
        PROVE  FALSE
    <2>1. k[1] \in Client /\ k[2] \in Attempt
      BY <1>6
    <2>. QED BY <1>6, <2>1 DEF SetPhase, Ends
  <1>7. ASSUME NEW d \in Daemon, Accept(d) \/ Answer(d) PROVE FALSE
    <2>1. PICK k \in Client \X Attempt : \E phase : phase # "none" /\ SetPhase(k, phase)
      BY <1>7 DEF Accept, Answer, Backlog, LinksOf, PhaseAfter
    <2>. QED BY <1>6, <2>1
  <1>8. ASSUME NEW b \in Client, Connected(b) PROVE FALSE
    BY <1>8 DEF Connected, Ends
  <1>9. ASSUME NEW b \in Client, Detach(b) PROVE FALSE
    <2>. DEFINE old == conn[b][try[b]]
                new == [old EXCEPT !.phase = IF old.phase = "ok" THEN "done" ELSE old.phase]
    <2>1. conn \in [Client -> [Attempt -> [to: Daemon \cup {None}, phase: Phases]]]
          /\ try[b] \in Attempt
      BY DEF Ends
    <2>2. conn' = [conn EXCEPT ![b] = [conn[b] EXCEPT ![try[b]] = new]]
      BY <1>9 DEF Detach
    <2>3. new.phase = IF old.phase = "ok" THEN "done" ELSE old.phase
      BY <2>1
    <2>. HIDE DEF new
    <2>4. conn'[c][n] = IF c = b /\ n = try[b] THEN new ELSE conn[c][n]
      BY <2>1, <2>2
    <2>. QED BY <2>3, <2>4
  <1>10. ASSUME NEW b \in Client, \/ Begin(b) \/ ClientStep(b) \/ HangUp(b) \/ Deadline(b)
                                  \/ Abort(b)
         PROVE  Connected(b) \/ Detach(b) \/ conn' = conn
    BY <1>10 DEF Begin, ClientStep, Connect, QueueToSpawn, CheckStale, ClearStale, ProbeLock,
       ProbeDone, Spawn, WaitUntilReady, ReadAck, WaitForRetirement, HangUp, Deadline, Abort
  <1>11. ASSUME NEW d \in Daemon, \/ Acquire(d) \/ Open(d) \/ Bind(d) \/ Unlink(d)
                                  \/ EngineCloses(d) \/ Release(d) \/ Exit(d)
         PROVE  conn' = conn
    BY <1>11 DEF Acquire, Open, Bind, Unlink, EngineCloses, Release, Exit
  <1>12. SoloOpens \/ SoloExits \/ UNCHANGED vars => conn' = conn
    BY DEF SoloOpens, SoloExits, vars
  <1>13. conn' # conn
    OBVIOUS
  <1>. QED
    BY <1>2, <1>3, <1>4, <1>5, <1>7, <1>8, <1>9, <1>10, <1>11, <1>12, <1>13
       DEF Next, DaemonStep

\* A session that is being served is cut off by a daemon only when that drains
\* for a newer release, or when its process dies: not by the idle timer, not
\* by another session's end, not by a hand-over elsewhere (serve.rs).
THEOREM ServedSessionsKept == Spec => SessionsKept
  <1>. DEFINE Kept == \A c \in Client : \A n \in Attempt :
          conn[c][n].phase = "ok" /\ conn'[c][n].phase = "none" =>
              status[conn[c][n].to] = "draining" \/ mishaps' > mishaps
  <1>1. DaemonInv /\ [Next]_vars => [Kept]_vars
    BY CutOnlyByDrain DEF DaemonInv
  <1>. QED BY <1>1, DaemonInvariant, PTL DEF Spec, SessionsKept
==============================================================================
