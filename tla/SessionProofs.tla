--------------------------- MODULE SessionProofs ---------------------------
(***************************************************************************)
(* What an editor session is given: the nudges and the list of the hooks,  *)
(* for any number of hooks under way, any arguments and any number of      *)
(* times the log goes stale; and the block of `context`, for any claims,   *)
(* any query and any budget.                                               *)
(*                                                                         *)
(* A key that nothing excuses is in one of three places: nowhere, in the   *)
(* hands of one hook that found no line of it, or in the log.  What a hook *)
(* of a session's start owes stays in the log until it lists it.  A block  *)
(* is followed through its sections: what counts as seen is on it, under a *)
(* summary that is, or was dropped, and what it used stays within the room *)
(* that the later sections left.                                           *)
(***************************************************************************)
EXTENDS HookLog, ContextBlock, CommonProofs

-----------------------------------------------------------------------------
(* The nudges *)

\* A hook's state is a record of its fields.
HookRecord(r) ==
    r = [step |-> r.step, key |-> r.key, line |-> r.line, file |-> r.file,
         compacted |-> r.compacted, due |-> r.due]

\* Hooks that found no line of the key and have not given its nudge.
Asking(hs, key) == {h \in Hook : hs[h].key = key /\ hs[h].step \in {"open", "write"}}

\* A line of the key is in the log.
InLog(lines, key) == \E i \in DOMAIN lines : lines[i].kind = "nudge" /\ lines[i].name = key

\* What a hook that is about to write holds.
HookSound(r, n, lg) ==
    /\ HookRecord(r)
    /\ r.step = "check" => r.key \in NudgeKeys
    /\ r.step \in {"open", "write"} =>
         /\ r.line \in LogLines
         /\ r.key # None => r.line = LogLine("nudge", r.key, << >>)
    /\ r.step = "write" => r.file \in Nat /\ r.file <= n /\ (r.file = n => lg # None)

Shape ==
    /\ log = None \/ log \in Seq(LogLines)
    /\ inode \in Nat
    /\ hooks = [h \in Hook |-> hooks[h]]
    /\ \A h \in Hook : HookSound(hooks[h], inode, log)
    /\ None \notin DOMAIN nudges

\* What holds of a key that nothing excuses.
Unexcused(key, hs, n, lines, given) ==
    /\ \A g, h \in Asking(hs, key) : g = h
    /\ \A h \in Asking(hs, key) : hs[h].step = "write" => hs[h].file = n
    /\ key \in DOMAIN given => /\ Asking(hs, key) = {}
                               /\ InLog(lines, key)
                               /\ given[key] = 1

HookInv ==
    /\ Shape
    /\ \A key : key # None /\ key \notin excused => Unexcused(key, hooks, inode, Entries, nudges)

-----------------------------------------------------------------------------
(* Lemmas *)

\* A hook that is not running.
LEMMA IdleHook ==
    /\ NotRunning.step = "idle" /\ NotRunning.key = None
    /\ HookRecord(NotRunning)
    /\ \A n, lg : HookSound(NotRunning, n, lg)
BY DEF HookRecord, NotRunning, HookSound

\* A hook's state with another step ...
LEMMA StepOnly ==
    ASSUME NEW r, HookRecord(r), NEW s, NEW n,
           n = [r EXCEPT !.step = s]
    PROVE  n = [step |-> s, key |-> r.key, line |-> r.line, file |-> r.file,
                compacted |-> r.compacted, due |-> r.due]
<1> QED  BY DEF HookRecord

\* ... with a step and a key ...
LEMMA StepAndKey ==
    ASSUME NEW r, HookRecord(r), NEW s, NEW x, NEW n,
           n = [r EXCEPT !.step = s, !.key = x]
    PROVE  n = [step |-> s, key |-> x, line |-> r.line, file |-> r.file,
                compacted |-> r.compacted, due |-> r.due]
<1> DEFINE q1 == [r EXCEPT !.step = s]
<1>0. n = [q1 EXCEPT !.key = x]
  OBVIOUS
<1>1. q1 = [step |-> s, key |-> r.key, line |-> r.line, file |-> r.file,
          compacted |-> r.compacted, due |-> r.due]
  BY DEF HookRecord
<1> HIDE DEF q1
<1> QED  BY <1>0, <1>1

\* ... with a step and a line ...
LEMMA StepAndLine ==
    ASSUME NEW r, HookRecord(r), NEW s, NEW x, NEW n,
           n = [r EXCEPT !.step = s, !.line = x]
    PROVE  n = [step |-> s, key |-> r.key, line |-> x, file |-> r.file,
                compacted |-> r.compacted, due |-> r.due]
<1> DEFINE q1 == [r EXCEPT !.step = s]
<1>0. n = [q1 EXCEPT !.line = x]
  OBVIOUS
<1>1. q1 = [step |-> s, key |-> r.key, line |-> r.line, file |-> r.file,
          compacted |-> r.compacted, due |-> r.due]
  BY DEF HookRecord
<1> HIDE DEF q1
<1> QED  BY <1>0, <1>1

\* ... with a step and a file ...
LEMMA StepAndFile ==
    ASSUME NEW r, HookRecord(r), NEW s, NEW x, NEW n,
           n = [r EXCEPT !.step = s, !.file = x]
    PROVE  n = [step |-> s, key |-> r.key, line |-> r.line, file |-> x,
                compacted |-> r.compacted, due |-> r.due]
<1> DEFINE q1 == [r EXCEPT !.step = s]
<1>0. n = [q1 EXCEPT !.file = x]
  OBVIOUS
<1>1. q1 = [step |-> s, key |-> r.key, line |-> r.line, file |-> r.file,
          compacted |-> r.compacted, due |-> r.due]
  BY DEF HookRecord
<1> HIDE DEF q1
<1> QED  BY <1>0, <1>1

\* ... with a step and what it should list ...
LEMMA StepAndDue ==
    ASSUME NEW r, HookRecord(r), NEW s, NEW x, NEW n,
           n = [r EXCEPT !.step = s, !.due = x]
    PROVE  n = [step |-> s, key |-> r.key, line |-> r.line, file |-> r.file,
                compacted |-> r.compacted, due |-> x]
<1> DEFINE q1 == [r EXCEPT !.step = s]
<1>0. n = [q1 EXCEPT !.due = x]
  OBVIOUS
<1>1. q1 = [step |-> s, key |-> r.key, line |-> r.line, file |-> r.file,
          compacted |-> r.compacted, due |-> r.due]
  BY DEF HookRecord
<1> HIDE DEF q1
<1> QED  BY <1>0, <1>1

\* ... with what a session's start knows ...
LEMMA StepAndStart ==
    ASSUME NEW r, HookRecord(r), NEW s, NEW x, NEW y, NEW n,
           n = [r EXCEPT !.step = s, !.compacted = x, !.due = y]
    PROVE  n = [step |-> s, key |-> r.key, line |-> r.line, file |-> r.file,
                compacted |-> x, due |-> y]
<1> DEFINE q1 == [r EXCEPT !.step = s]
           q2 == [q1 EXCEPT !.compacted = x]
<1>0. n = [q2 EXCEPT !.due = y]
  OBVIOUS
<1>1. q1 = [step |-> s, key |-> r.key, line |-> r.line, file |-> r.file,
          compacted |-> r.compacted, due |-> r.due]
  BY DEF HookRecord
<1> HIDE DEF q1
<1>2. q2 = [step |-> s, key |-> r.key, line |-> r.line, file |-> r.file,
          compacted |-> x, due |-> r.due]
  BY <1>1 DEF HookRecord
<1> HIDE DEF q2
<1> QED  BY <1>0, <1>2

\* ... and with what it should list alone.
LEMMA DueOnly ==
    ASSUME NEW r, HookRecord(r), NEW x, NEW n,
           n = [r EXCEPT !.due = x]
    PROVE  n = [step |-> r.step, key |-> r.key, line |-> r.line, file |-> r.file,
                compacted |-> r.compacted, due |-> x]
<1> QED  BY DEF HookRecord

\* A file that is not there has no lines.
LEMMA EntriesType == Shape => Entries \in Seq(LogLines)
BY EmptySeq DEF Shape, Entries

\* The state of a key that no hook asks about anew, and that stays in the log.
LEMMA KeyKept ==
    ASSUME NEW key, NEW hs, NEW hs2, NEW n, NEW lines, NEW more, NEW given,
           Unexcused(key, hs, n, lines, given),
           Asking(hs2, key) \subseteq Asking(hs, key),
           \A h \in Asking(hs2, key) : hs2[h].step = "write" => hs2[h].file = n,
           InLog(lines, key) => InLog(more, key)
    PROVE  Unexcused(key, hs2, n, more, given)
BY DEF Unexcused

\* One hook moves on, with no nudge in its hands.
LEMMA HookMoves ==
    ASSUME HookInv, NEW h \in Hook, NEW new, hooks' = [hooks EXCEPT ![h] = new],
           HookSound(new, inode, log), new.step \notin {"open", "write"} \/ new.key = None,
           log' = log, inode' = inode, nudges' = nudges, excused \subseteq excused'
    PROVE  HookInv'
<1>1. /\ hooks' = [g \in Hook |-> hooks'[g]] /\ hooks'[h] = new
      /\ \A g \in Hook : g # h => hooks'[g] = hooks[g]
  BY DEF HookInv, Shape
<1>2. Shape'
  BY <1>1 DEF HookInv, Shape
<1>3. ASSUME NEW key, key # None, key \notin excused'
      PROVE  Unexcused(key, hooks', inode', Entries', nudges')
  <2>1. Unexcused(key, hooks, inode, Entries, nudges)
    BY <1>3 DEF HookInv
  <2>2. \A g \in Asking(hooks', key) : g \in Asking(hooks, key) /\ hooks'[g] = hooks[g]
    BY <1>1, <1>3 DEF Asking
  <2>3. Entries' = Entries
    BY DEF Entries
  <2>4. Asking(hooks', key) \subseteq Asking(hooks, key)
    BY <2>2
  <2>5. \A g \in Asking(hooks', key) : hooks'[g].step = "write" => hooks'[g].file = inode
    BY <2>1, <2>2 DEF Unexcused
  <2>6. Unexcused(key, hooks', inode, Entries, nudges)
    BY <2>1, <2>4, <2>5, KeyKept
  <2> QED  BY <2>3, <2>6
<1> QED  BY <1>2, <1>3 DEF HookInv

-----------------------------------------------------------------------------
(* The steps *)

\* A hook that starts asks first, or has a line that is no nudge.
LEMMA StartStep ==
    ASSUME HookInv, NEW h \in Hook,
           \/ PushOrDecision(h) \/ ToolUsed(h) \/ Stop(h) \/ UserPromptSubmit(h)
           \/ SessionStart(h)
    PROVE  HookInv'
<1>1. ASSUME NEW state, StartHook(h, state), HookRecord(state),
             \/ state.step = "check" /\ state.key \in NudgeKeys
             \/ state.step = "open" /\ state.key = None /\ state.line \in LogLines
             \/ state.step \in {"stop", "prune"}
      PROVE  HookInv'
  <2>1. HookSound(state, inode, log)
    BY <1>1 DEF HookSound
  <2>2. /\ hooks' = [hooks EXCEPT ![h] = state]
        /\ UNCHANGED <<log, inode, nudges>> /\ excused' = excused
    BY <1>1 DEF StartHook
  <2> QED  BY <1>1, <2>1, <2>2, HookMoves
<1>2. CASE PushOrDecision(h)
  <2>1. PICK key \in Seams : StartHook(h, [NotRunning EXCEPT !.step = "check", !.key = key])
    BY <1>2 DEF PushOrDecision
  <2> DEFINE state == [NotRunning EXCEPT !.step = "check", !.key = key]
  <2>3. StartHook(h, state)
    BY <2>1
  <2>4. state = [NotRunning EXCEPT !.step = "check", !.key = key]
    OBVIOUS
  <2> HIDE DEF state
  <2>4r. state = [step |-> "check", key |-> key, line |-> NotRunning.line,
                 file |-> NotRunning.file, compacted |-> NotRunning.compacted, due |-> NotRunning.due]
    BY <2>4, IdleHook, StepAndKey
  <2>2. HookRecord(state) /\ state.step = "check" /\ state.key \in NudgeKeys
    BY <2>4r, IdleHook DEF HookRecord, NudgeKeys
  <2> QED  BY <1>1, <2>2, <2>3
<1>3. CASE ToolUsed(h)
  <2>1. PICK line \in ToolLines : StartHook(h, [NotRunning EXCEPT !.step = "open", !.line = line])
    BY <1>3 DEF ToolUsed
  <2> DEFINE state == [NotRunning EXCEPT !.step = "open", !.line = line]
  <2>3. StartHook(h, state)
    BY <2>1
  <2>4. state = [NotRunning EXCEPT !.step = "open", !.line = line]
    OBVIOUS
  <2> HIDE DEF state
  <2>4r. state = [step |-> "open", key |-> NotRunning.key, line |-> line,
                 file |-> NotRunning.file, compacted |-> NotRunning.compacted, due |-> NotRunning.due]
    BY <2>4, IdleHook, StepAndLine
  <2>2. HookRecord(state) /\ state.step = "open" /\ state.key = None /\ state.line \in LogLines
    BY <2>4r, IdleHook DEF HookRecord, LogLines
  <2> QED  BY <1>1, <2>2, <2>3
<1>4. CASE Stop(h)
  <2> DEFINE state == [NotRunning EXCEPT !.step = "stop"]
  <2>2. StartHook(h, state)
    BY <1>4 DEF Stop
  <2>3. state = [NotRunning EXCEPT !.step = "stop"]
    OBVIOUS
  <2> HIDE DEF state
  <2>3r. state = [step |-> "stop", key |-> NotRunning.key, line |-> NotRunning.line,
                 file |-> NotRunning.file, compacted |-> NotRunning.compacted, due |-> NotRunning.due]
    BY <2>3, IdleHook, StepOnly
  <2>1. HookRecord(state) /\ state.step = "stop"
    BY <2>3r, IdleHook DEF HookRecord
  <2> QED  BY <1>1, <2>1, <2>2
<1>5. CASE UserPromptSubmit(h)
  <2>1. PICK tokens \in Tokens, transcript \in Transcript :
           StartHook(h, [NotRunning EXCEPT !.step = "check",
                                           !.key = <<"context", Level(tokens), transcript>>])
    BY <1>5 DEF UserPromptSubmit
  <2> DEFINE key == <<"context", Level(tokens), transcript>>
             state == [NotRunning EXCEPT !.step = "check", !.key = key]
  <2>2. key \in NudgeKeys
    BY DEF NudgeKeys
  <2>3. StartHook(h, state)
    BY <2>1
  <2> HIDE DEF key
  <2>5. state = [NotRunning EXCEPT !.step = "check", !.key = key]
    OBVIOUS
  <2> HIDE DEF state
  <2>5r. state = [step |-> "check", key |-> key, line |-> NotRunning.line,
                 file |-> NotRunning.file, compacted |-> NotRunning.compacted, due |-> NotRunning.due]
    BY <2>5, IdleHook, StepAndKey
  <2>4. HookRecord(state) /\ state.step = "check" /\ state.key = key
    BY <2>5r, IdleHook DEF HookRecord
  <2> QED  BY <1>1, <2>2, <2>3, <2>4
<1>6. CASE SessionStart(h)
  <2>1. PICK compacted \in BOOLEAN :
           StartHook(h, [NotRunning EXCEPT !.step = "prune", !.compacted = compacted,
                                           !.due = IF stale THEN {} ELSE RecalledIds])
    BY <1>6 DEF SessionStart
  <2> DEFINE due == IF stale THEN {} ELSE RecalledIds
             state == [NotRunning EXCEPT !.step = "prune", !.compacted = compacted, !.due = due]
  <2>2. StartHook(h, state)
    BY <2>1
  <2> HIDE DEF due
  <2>4. state = [NotRunning EXCEPT !.step = "prune", !.compacted = compacted, !.due = due]
    OBVIOUS
  <2> HIDE DEF state
  <2>4r. state = [step |-> "prune", key |-> NotRunning.key, line |-> NotRunning.line,
                 file |-> NotRunning.file, compacted |-> compacted, due |-> due]
    BY <2>4, IdleHook, StepAndStart
  <2>3. HookRecord(state) /\ state.step = "prune"
    BY <2>4r, IdleHook DEF HookRecord
  <2> QED  BY <1>1, <2>2, <2>3
<1> QED  BY <1>2, <1>3, <1>4, <1>5, <1>6

\* stop and the hooks of a session's start.
LEMMA QuietStep ==
    ASSUME HookInv, NEW h \in Hook,
           StopAsks(h) \/ StopRecalls(h) \/ Prune(h) \/ ListRecalled(h)
    PROVE  HookInv'
<1>1. CASE StopAsks(h)
  <2> DEFINE ask == [NotRunning EXCEPT !.step = "recalled"]
             new == IF Wrote THEN NotRunning ELSE ask
  <2>a. ask = [NotRunning EXCEPT !.step = "recalled"]
    OBVIOUS
  <2>ar. ask = [step |-> "recalled", key |-> NotRunning.key, line |-> NotRunning.line,
               file |-> NotRunning.file, compacted |-> NotRunning.compacted, due |-> NotRunning.due]
    <3> HIDE DEF ask
    <3> QED  BY <2>a, IdleHook, StepOnly
  <2>0. HookRecord(ask) /\ ask.step = "recalled"
    <3> HIDE DEF ask
    <3> QED  BY <2>ar, IdleHook DEF HookRecord
  <2>1. HookSound(ask, inode, log)
    <3> HIDE DEF ask
    <3> QED  BY <2>0 DEF HookSound
  <2>2. new = NotRunning \/ new = ask
    OBVIOUS
  <2>3. /\ hooks' = [hooks EXCEPT ![h] = new]
        /\ UNCHANGED <<log, inode, nudges>> /\ excused' = excused
    BY <1>1 DEF StopAsks
  <2> HIDE DEF new, ask
  <2>4. HookSound(new, inode, log) /\ new.step \notin {"open", "write"}
    BY <2>0, <2>1, <2>2, IdleHook
  <2> QED  BY <2>3, <2>4, HookMoves
<1>4. CASE StopRecalls(h)
  <2> DEFINE ask == [NotRunning EXCEPT !.step = "check", !.key = <<"stop">>]
             new == IF Recalled(Entries) = << >> THEN NotRunning ELSE ask
  <2>a. ask = [NotRunning EXCEPT !.step = "check", !.key = <<"stop">>]
    OBVIOUS
  <2>ar. ask = [step |-> "check", key |-> <<"stop">>, line |-> NotRunning.line,
               file |-> NotRunning.file, compacted |-> NotRunning.compacted, due |-> NotRunning.due]
    <3> HIDE DEF ask
    <3> QED  BY <2>a, IdleHook, StepAndKey
  <2>0. HookRecord(ask) /\ ask.step = "check" /\ ask.key = <<"stop">>
    <3> HIDE DEF ask
    <3> QED  BY <2>ar, IdleHook DEF HookRecord
  <2>1. HookSound(ask, inode, log) /\ ask.step = "check"
    <3> HIDE DEF ask
    <3> QED  BY <2>0 DEF HookSound, NudgeKeys
  <2>2. new = NotRunning \/ new = ask
    OBVIOUS
  <2>3. /\ hooks' = [hooks EXCEPT ![h] = new]
        /\ UNCHANGED <<log, inode, nudges>> /\ excused' = excused
    BY <1>4 DEF StopRecalls
  <2> HIDE DEF new, ask
  <2>4. HookSound(new, inode, log) /\ new.step \notin {"open", "write"}
    BY <2>1, <2>2, IdleHook
  <2> QED  BY <2>3, <2>4, HookMoves
<1>2. CASE Prune(h)
  <2> DEFINE step == IF log # None /\ stale THEN "remove" ELSE "list"
             new == [hooks[h] EXCEPT !.step = step]
  <2>0. HookRecord(hooks[h]) /\ hooks = [g \in Hook |-> hooks[g]]
    BY DEF HookInv, Shape, HookSound
  <2>1. /\ hooks' = [hooks EXCEPT ![h].step = step]
        /\ UNCHANGED <<log, inode, nudges>> /\ excused' = excused
    BY <1>2 DEF Prune
  <2>2. step \in {"remove", "list"}
    OBVIOUS
  <2> HIDE DEF step
  <2>3. hooks' = [hooks EXCEPT ![h] = new]
    BY <2>0, <2>1
  <2>6. new = [hooks[h] EXCEPT !.step = step]
    OBVIOUS
  <2> HIDE DEF new
  <2>6r. new = [step |-> step, key |-> hooks[h].key, line |-> hooks[h].line,
               file |-> hooks[h].file, compacted |-> hooks[h].compacted, due |-> hooks[h].due]
    BY <2>6, <2>0, StepOnly
  <2>4. HookRecord(new) /\ new.step = step
    BY <2>6r DEF HookRecord
  <2>5. HookSound(new, inode, log) /\ new.step \notin {"open", "write"}
    BY <2>2, <2>4 DEF HookSound
  <2> QED  BY <2>1, <2>3, <2>5, HookMoves
<1>3. CASE ListRecalled(h)
  <2>1. /\ hooks' = [hooks EXCEPT ![h] = NotRunning]
        /\ UNCHANGED <<log, inode, nudges>> /\ excused' = excused
    BY <1>3 DEF ListRecalled
  <2> QED  BY <2>1, IdleHook, HookMoves
<1> QED  BY <1>1, <1>2, <1>3, <1>4

\* first_time: a key that is in the log is left; one that another hook has in
\* its hands is excused.
LEMMA FirstTimeStep ==
    ASSUME HookInv, NEW h \in Hook, FirstTime(h)
    PROVE  HookInv'
<1> DEFINE k == hooks[h].key
           racing == {g \in Hook \ {h} : hooks[g].key = k /\ hooks[g].step \in {"open", "write"}}
           line == LogLine("nudge", k, << >>)
           new == [hooks[h] EXCEPT !.step = "open", !.line = line]
<1>1. /\ hooks[h].step = "check" /\ UNCHANGED <<log, inode, nudges>>
      /\ excused' = IF racing # {} THEN excused \cup {k} ELSE excused
      /\ hooks' = [hooks EXCEPT ![h] = IF Recorded("nudge", k) THEN NotRunning ELSE new]
  BY DEF FirstTime
<1>2. CASE Recorded("nudge", k)
  <2>1. hooks' = [hooks EXCEPT ![h] = NotRunning] /\ excused \subseteq excused'
    BY <1>1, <1>2
  <2> QED  BY <1>1, <2>1, IdleHook, HookMoves
<1>3. CASE ~Recorded("nudge", k)
  <2>0. HookSound(hooks[h], inode, log) /\ HookRecord(hooks[h]) /\ k \in NudgeKeys
    BY <1>1 DEF HookInv, Shape, HookSound
  <2>l. line \in LogLines
    BY <2>0 DEF LogLines
  <2>a. new = [hooks[h] EXCEPT !.step = "open", !.line = line]
    OBVIOUS
  <2>m. hooks' = [hooks EXCEPT ![h] = new]
    BY <1>1, <1>3
  <2> HIDE DEF new, line
  <2>ar. new = [step |-> "open", key |-> hooks[h].key, line |-> line,
               file |-> hooks[h].file, compacted |-> hooks[h].compacted, due |-> hooks[h].due]
    BY <2>a, <2>0, StepAndLine
  <2>1. HookRecord(new) /\ new.step = "open" /\ new.key = k /\ new.line = line
    BY <2>ar DEF HookRecord
  <2>2. HookSound(new, inode, log)
    BY <2>l, <2>1 DEF HookSound, line
  <2>3. /\ hooks' = [g \in Hook |-> hooks'[g]] /\ hooks'[h] = new
        /\ \A g \in Hook : g # h => hooks'[g] = hooks[g]
    BY <2>m DEF HookInv, Shape
  <2>4. Shape'
    BY <1>1, <2>2, <2>3 DEF HookInv, Shape
  <2>5. ASSUME NEW key, key # None, key \notin excused'
        PROVE  Unexcused(key, hooks', inode', Entries', nudges')
    <3>1. key \notin excused /\ Entries' = Entries
      BY <1>1, <2>5 DEF Entries
    <3>2. Unexcused(key, hooks, inode, Entries, nudges)
      BY <2>5, <3>1 DEF HookInv
    <3>3. CASE key # k
      <4>1. \A g \in Asking(hooks', key) : g \in Asking(hooks, key) /\ hooks'[g] = hooks[g]
        BY <2>1, <2>3, <3>3 DEF Asking
      <4>2. Asking(hooks', key) \subseteq Asking(hooks, key)
        BY <4>1
      <4>3. \A g \in Asking(hooks', key) : hooks'[g].step = "write" => hooks'[g].file = inode
        BY <3>2, <4>1 DEF Unexcused
      <4>4. Unexcused(key, hooks', inode, Entries, nudges)
        BY <3>2, <4>2, <4>3, KeyKept
      <4> QED  BY <1>1, <3>1, <4>4
    <3>4. CASE key = k
      <4>1. racing = {}
        BY <1>1, <2>5, <3>4
      <4>2. \A g \in Asking(hooks', key) : g = h
        BY <2>3, <3>4, <4>1 DEF Asking
      <4>3. ~InLog(Entries, key)
        BY <1>3, <3>4 DEF InLog, Recorded
      <4>4. key \notin DOMAIN nudges
        BY <3>2, <4>3 DEF Unexcused
      <4>5. hooks'[h].step # "write"
        BY <2>1, <2>3
      <4> QED  BY <1>1, <4>2, <4>4, <4>5 DEF Unexcused
    <3> QED  BY <3>3, <3>4
  <2> QED  BY <2>4, <2>5 DEF HookInv
<1> QED  BY <1>2, <1>3

\* The file the line goes to is the log as it is now.
LEMMA OpenLogStep ==
    ASSUME HookInv, NEW h \in Hook, OpenLog(h)
    PROVE  HookInv'
<1> DEFINE new == [hooks[h] EXCEPT !.step = "write", !.file = inode]
<1>1. /\ hooks[h].step = "open" /\ log' = Entries /\ UNCHANGED <<inode, nudges, excused>>
      /\ hooks' = [hooks EXCEPT ![h].step = "write", ![h].file = inode]
  BY DEF OpenLog
<1>t. /\ HookSound(hooks[h], inode, log) /\ HookRecord(hooks[h]) /\ inode \in Nat
      /\ hooks = [g \in Hook |-> hooks[g]]
  BY DEF HookInv, Shape, HookSound
<1>2. hooks' = [hooks EXCEPT ![h] = new]
  BY <1>t, <1>1
<1>n. new = [hooks[h] EXCEPT !.step = "write", !.file = inode]
  OBVIOUS
<1> HIDE DEF new
<1>nr. new = [step |-> "write", key |-> hooks[h].key, line |-> hooks[h].line,
             file |-> inode, compacted |-> hooks[h].compacted, due |-> hooks[h].due]
  BY <1>n, <1>t, StepAndFile
<1>3. /\ HookRecord(new) /\ new.step = "write" /\ new.file = inode
      /\ new.key = hooks[h].key /\ new.line = hooks[h].line
  BY <1>nr DEF HookRecord
<1>4. log' \in Seq(LogLines) /\ log' # None
  BY <1>1, EntriesType, HookAssumption DEF HookInv
<1>5. Entries' = Entries
  BY <1>1, <1>4 DEF Entries
<1>6. HookSound(new, inode, log')
  BY <1>t, <1>1, <1>3, <1>4 DEF HookSound
<1>7. /\ hooks' = [g \in Hook |-> hooks'[g]] /\ hooks'[h] = new
      /\ \A g \in Hook : g # h => hooks'[g] = hooks[g]
  BY <1>t, <1>2
<1>8. ASSUME NEW g \in Hook
      PROVE  HookSound(hooks'[g], inode, log')
  <2>1. CASE g = h
    BY <1>6, <1>7, <2>1
  <2>2. CASE g # h
    <3>1. HookSound(hooks[g], inode, log)
      BY DEF HookInv, Shape
    <3> QED  BY <1>4, <1>7, <2>2, <3>1 DEF HookSound
  <2> QED  BY <2>1, <2>2
<1>9. Shape'
  BY <1>1, <1>4, <1>7, <1>8 DEF HookInv, Shape
<1>10. ASSUME NEW key, key # None, key \notin excused'
       PROVE  Unexcused(key, hooks', inode', Entries', nudges')
  <2>1. Unexcused(key, hooks, inode, Entries, nudges)
    BY <1>1, <1>10 DEF HookInv
  <2>2. Asking(hooks', key) \subseteq Asking(hooks, key)
    BY <1>1, <1>3, <1>7 DEF Asking
  <2>3. \A g \in Asking(hooks', key) : hooks'[g].step = "write" => hooks'[g].file = inode
    BY <1>3, <1>7, <2>1, <2>2 DEF Unexcused, Asking
  <2>4. Unexcused(key, hooks', inode, Entries, nudges)
    BY <2>1, <2>2, <2>3, KeyKept
  <2> QED  BY <1>1, <1>5, <2>4
<1> QED  BY <1>9, <1>10 DEF HookInv

\* A line that is appended keeps the others.
LEMMA AppendKeeps ==
    ASSUME NEW lines \in Seq(LogLines), NEW line \in LogLines
    PROVE  /\ Append(lines, line) \in Seq(LogLines)
           /\ \A key : InLog(lines, key) => InLog(Append(lines, line), key)
           /\ \A key : line = LogLine("nudge", key, << >>) => InLog(Append(lines, line), key)
<1> DEFINE more == Append(lines, line)
<1>1. /\ more \in Seq(LogLines) /\ Len(lines) \in Nat
      /\ DOMAIN lines = 1..Len(lines) /\ DOMAIN more = 1..(Len(lines) + 1)
      /\ \A i \in 1..Len(lines) : more[i] = lines[i]
      /\ more[Len(lines) + 1] = line
  BY LenProperties, AppendProperties
<1> HIDE DEF more
<1>2. DOMAIN lines \subseteq DOMAIN more /\ Len(lines) + 1 \in DOMAIN more
      /\ \A i \in DOMAIN lines : more[i] = lines[i]
  BY <1>1
<1>3. ASSUME NEW key, InLog(lines, key)
      PROVE  InLog(more, key)
  BY <1>2, <1>3 DEF InLog
<1>4. ASSUME NEW key, line = LogLine("nudge", key, << >>)
      PROVE  InLog(more, key)
  <2>1. line.kind = "nudge" /\ line.name = key
    BY <1>4 DEF LogLine
  <2> QED  BY <1>1, <1>2, <2>1 DEF InLog
<1>5. more \in Seq(LogLines)
  BY <1>1
<1> QED  BY <1>3, <1>4, <1>5 DEF more

\* One more nudge of a key.
LEMMA GivenOnce ==
    ASSUME NEW key
    PROVE  /\ DOMAIN Given(key) = DOMAIN nudges \cup {key}
           /\ key \notin DOMAIN nudges => Given(key)[key] = 1
           /\ \A x \in DOMAIN nudges : x # key /\ nudges[x] = 1 => Given(key)[x] = 1
BY DEF Given

\* A nudge that is given leaves the other keys as they were.
LEMMA OtherKept ==
    ASSUME NEW key, NEW k, key # k, NEW hs2, NEW more,
           Unexcused(key, hooks, inode, Entries, nudges),
           Asking(hs2, key) \subseteq Asking(hooks, key),
           \A h \in Asking(hs2, key) : hs2[h].step = "write" => hs2[h].file = inode,
           InLog(Entries, key) => InLog(more, key)
    PROVE  Unexcused(key, hs2, inode, more, Given(k))
<1>1. Unexcused(key, hs2, inode, more, nudges)
  BY KeyKept
<1>2. key \in DOMAIN Given(k) => key \in DOMAIN nudges
  BY GivenOnce
<1>3. ASSUME key \in DOMAIN Given(k)
      PROVE  Given(k)[key] = 1
  BY <1>1, <1>2, <1>3, GivenOnce DEF Unexcused
<1> QED  BY <1>1, <1>2, <1>3 DEF Unexcused

\* A hook that ends has nothing in its hands.
LEMMA HookEnds ==
    ASSUME Shape, NEW h \in Hook, hooks' = [hooks EXCEPT ![h] = NotRunning], NEW key, key # None,
           Unexcused(key, hooks, inode, Entries, nudges)
    PROVE  /\ Asking(hooks', key) \subseteq Asking(hooks, key) \ {h}
           /\ \A g \in Asking(hooks', key) : hooks'[g].step = "write" => hooks'[g].file = inode
<1>1. hooks'[h] = NotRunning /\ \A g \in Hook : g # h => hooks'[g] = hooks[g]
  BY DEF Shape
<1>2. \A g \in Asking(hooks', key) : g \in Asking(hooks, key) /\ g # h /\ hooks'[g] = hooks[g]
  BY <1>1, IdleHook DEF Asking
<1> QED  BY <1>2 DEF Unexcused

\* append writes the line, and the nudge is given: the hook was the only one
\* that asked, and the file it opened is the log.
LEMMA WriteLineStep ==
    ASSUME HookInv, NEW h \in Hook, WriteLine(h)
    PROVE  HookInv'
<1> DEFINE k == hooks[h].key
           line == hooks[h].line
           there == hooks[h].file = inode /\ log # None
<1>1. /\ hooks[h].step = "write" /\ inode' = inode /\ excused' = excused
      /\ there => log' = Append(log, line)
      /\ ~there => log' = log
      /\ hooks' = [hooks EXCEPT ![h] = NotRunning]
      /\ nudges' = IF k = None THEN nudges ELSE Given(k)
  BY DEF WriteLine
<1>2. /\ Shape /\ HookSound(hooks[h], inode, log) /\ line \in LogLines
      /\ k # None => line = LogLine("nudge", k, << >>)
  BY <1>1 DEF HookInv, Shape, HookSound
<1>3. there => /\ log \in Seq(LogLines) /\ Entries = log
               /\ log' \in Seq(LogLines) /\ log' # None /\ Entries' = log'
  <2>1. None \notin Seq(LogLines)
    BY HookAssumption
  <2> QED  BY <1>1, <1>2, <2>1, AppendKeeps DEF Shape, Entries
<1>4. ~there => Entries' = Entries
  BY <1>1 DEF Entries
<1>5. /\ log' = None \/ log' \in Seq(LogLines)
      /\ log # None => log' # None
  BY <1>1, <1>2, <1>3 DEF Shape
<1> HIDE DEF there, line, k
<1>6. \A key : InLog(Entries, key) => InLog(Entries', key)
  <2>1. CASE there
    <3>1. /\ log \in Seq(LogLines) /\ line \in LogLines
          /\ Entries = log /\ Entries' = Append(log, line)
      BY <1>1, <1>2, <1>3, <2>1
    <3> QED  BY <3>1, AppendKeeps
  <2>2. CASE ~there
    BY <1>4, <2>2
  <2> QED  BY <2>1, <2>2
<1>7. Shape'
  <2>1. /\ hooks' = [g \in Hook |-> hooks'[g]] /\ hooks'[h] = NotRunning
        /\ \A g \in Hook : g # h => hooks'[g] = hooks[g]
    BY <1>1, <1>2 DEF Shape
  <2>2. ASSUME NEW g \in Hook
        PROVE  HookSound(hooks'[g], inode', log')
    <3>1. CASE g = h
      BY <2>1, <3>1, IdleHook
    <3>2. CASE g # h
      <4>1. HookSound(hooks[g], inode, log)
        BY <1>2 DEF Shape
      <4> QED  BY <1>1, <1>5, <2>1, <3>2, <4>1 DEF HookSound
    <3> QED  BY <3>1, <3>2
  <2>3. None \notin DOMAIN nudges'
    <3>1. CASE k = None
      BY <1>1, <1>2, <3>1 DEF Shape
    <3>2. CASE k # None
      BY <1>1, <1>2, <3>2, GivenOnce DEF Shape
    <3> QED  BY <3>1, <3>2
  <2> QED  BY <1>1, <1>2, <1>5, <2>1, <2>2, <2>3 DEF Shape
<1>8. ASSUME NEW key, key # None, key \notin excused'
      PROVE  Unexcused(key, hooks', inode', Entries', nudges')
  <2>1. Unexcused(key, hooks, inode, Entries, nudges)
    BY <1>1, <1>8 DEF HookInv
  <2>2. /\ Asking(hooks', key) \subseteq Asking(hooks, key) \ {h}
        /\ \A g \in Asking(hooks', key) : hooks'[g].step = "write" => hooks'[g].file = inode
    BY <1>1, <1>2, <1>8, <2>1, HookEnds
  <2>3. Asking(hooks', key) \subseteq Asking(hooks, key)
    BY <2>2
  <2>4. CASE k = None
    <3>1. Unexcused(key, hooks', inode, Entries', nudges)
      BY <1>6, <2>1, <2>2, <2>3, KeyKept
    <3> QED  BY <1>1, <2>4, <3>1
  <2>5. CASE k # None /\ key # k
    <3>1. Unexcused(key, hooks', inode, Entries', Given(k))
      BY <1>6, <2>1, <2>2, <2>3, <2>5, OtherKept
    <3> QED  BY <1>1, <2>5, <3>1
  <2>6. CASE key = k
    <3>1. h \in Asking(hooks, key)
      BY <1>1, <2>6 DEF Asking, k
    <3>2. Asking(hooks', key) = {}
      BY <2>1, <2>2, <3>1 DEF Unexcused
    <3>3. key \notin DOMAIN nudges
      BY <2>1, <3>1 DEF Unexcused
    <3>4. there
      <4>1. hooks[h].file = inode
        BY <1>1, <2>1, <3>1 DEF Unexcused
      <4> QED  BY <1>1, <1>2, <4>1 DEF HookSound, there
    <3>5. InLog(Entries', key)
      BY <1>1, <1>2, <1>3, <1>8, <2>6, <3>4, AppendKeeps
    <3>6. nudges' = Given(key) /\ Given(key)[key] = 1
      BY <1>1, <1>8, <2>6, <3>3, GivenOnce
    <3> QED  BY <3>2, <3>5, <3>6 DEF Unexcused
  <2> QED  BY <2>4, <2>5, <2>6
<1> QED  BY <1>7, <1>8 DEF HookInv

\* append fails: its key is excused from here on.
LEMMA AppendFailsStep ==
    ASSUME HookInv, NEW h \in Hook, AppendFails(h)
    PROVE  HookInv'
<1> DEFINE k == hooks[h].key
<1>1. /\ k # None /\ nudges' = Given(k) /\ excused' = excused \cup {k}
      /\ hooks' = [hooks EXCEPT ![h] = NotRunning] /\ log' = log /\ inode' = inode
  BY DEF AppendFails
<1>2. Shape /\ Entries' = Entries
  BY <1>1 DEF HookInv, Entries
<1> HIDE DEF k
<1>3. Shape'
  <2>1. /\ hooks' = [g \in Hook |-> hooks'[g]] /\ hooks'[h] = NotRunning
        /\ \A g \in Hook : g # h => hooks'[g] = hooks[g]
    BY <1>1, <1>2 DEF Shape
  <2>2. \A g \in Hook : HookSound(hooks'[g], inode', log')
    BY <1>1, <1>2, <2>1, IdleHook DEF Shape
  <2>3. None \notin DOMAIN nudges'
    BY <1>1, <1>2, GivenOnce DEF Shape
  <2> QED  BY <1>1, <1>2, <2>1, <2>2, <2>3 DEF Shape
<1>4. ASSUME NEW key, key # None, key \notin excused'
      PROVE  Unexcused(key, hooks', inode', Entries', nudges')
  <2>1. Unexcused(key, hooks, inode, Entries, nudges) /\ key # k
    BY <1>1, <1>4 DEF HookInv
  <2>2. /\ Asking(hooks', key) \subseteq Asking(hooks, key)
        /\ \A g \in Asking(hooks', key) : hooks'[g].step = "write" => hooks'[g].file = inode
    BY <1>1, <1>2, <1>4, <2>1, HookEnds
  <2>3. Unexcused(key, hooks', inode, Entries, Given(k))
    BY <2>1, <2>2, OtherKept
  <2> QED  BY <1>1, <1>2, <2>3
<1> QED  BY <1>3, <1>4 DEF HookInv

\* prune removes the log: every nudge given or in hand is excused.
LEMMA RemoveLogStep ==
    ASSUME HookInv, NEW h \in Hook, RemoveLog(h)
    PROVE  HookInv'
<1> DEFINE New(g) == IF g = h THEN [hooks[h] EXCEPT !.step = "list", !.due = {}]
                     ELSE [hooks[g] EXCEPT !.due = {}]
<1>1. /\ log' = None /\ inode' = inode + 1 /\ nudges' = nudges
      /\ excused' = DOMAIN nudges \cup excused \cup ({hooks[g].key : g \in Hook} \ {None})
      /\ hooks' = [g \in Hook |-> New(g)]
  BY DEF RemoveLog
<1>2. inode \in Nat /\ None \notin DOMAIN nudges
  BY DEF HookInv, Shape
<1>3. ASSUME NEW g \in Hook
      PROVE  /\ HookRecord(New(g)) /\ New(g).key = hooks[g].key
             /\ HookSound(New(g), inode + 1, None)
  <2> DEFINE new == New(g)
  <2>1. HookSound(hooks[g], inode, log) /\ HookRecord(hooks[g])
    BY DEF HookInv, Shape, HookSound
  <2>2. CASE g = h
    <3>1. new = [hooks[g] EXCEPT !.step = "list", !.due = {}]
      BY <2>2
    <3> HIDE DEF new
    <3>2. new = [step |-> "list", key |-> hooks[g].key, line |-> hooks[g].line,
                 file |-> hooks[g].file, compacted |-> hooks[g].compacted, due |-> {}]
      BY <2>1, <3>1, StepAndDue
    <3>3. HookRecord(new) /\ new.key = hooks[g].key /\ new.step = "list"
      BY <3>2 DEF HookRecord
    <3>4. HookSound(new, inode + 1, None)
      BY <3>3 DEF HookSound
    <3> QED  BY <3>3, <3>4 DEF new
  <2>3. CASE g # h
    <3>1. new = [hooks[g] EXCEPT !.due = {}]
      BY <2>3
    <3> HIDE DEF new
    <3>2. new = [step |-> hooks[g].step, key |-> hooks[g].key, line |-> hooks[g].line,
                 file |-> hooks[g].file, compacted |-> hooks[g].compacted, due |-> {}]
      BY <2>1, <3>1, DueOnly
    <3>3. /\ HookRecord(new) /\ new.key = hooks[g].key /\ new.step = hooks[g].step
          /\ new.line = hooks[g].line /\ new.file = hooks[g].file
      BY <3>2 DEF HookRecord
    <3>4. new.step = "write" => new.file \in Nat /\ new.file <= inode + 1 /\ new.file # inode + 1
      BY <1>2, <2>1, <3>3 DEF HookSound
    <3>5. HookSound(new, inode + 1, None)
      BY <2>1, <3>3, <3>4 DEF HookSound
    <3> QED  BY <3>3, <3>5 DEF new
  <2> QED  BY <2>2, <2>3
<1> HIDE DEF New
<1>4. /\ hooks' = [g \in Hook |-> hooks'[g]]
      /\ \A g \in Hook : hooks'[g].key = hooks[g].key /\ HookSound(hooks'[g], inode', log')
  BY <1>1, <1>3
<1>5. Shape'
  BY <1>1, <1>2, <1>4 DEF Shape
<1>6. ASSUME NEW key, key # None, key \notin excused'
      PROVE  Unexcused(key, hooks', inode', Entries', nudges')
  <2>1. key \notin DOMAIN nudges'
    BY <1>1, <1>6
  <2>2. Asking(hooks', key) = {}
    BY <1>1, <1>4, <1>6 DEF Asking
  <2> QED  BY <2>1, <2>2 DEF Unexcused
<1> QED  BY <1>5, <1>6 DEF HookInv

-----------------------------------------------------------------------------
(* The session *)

\* A session starts without a log.
LEMMA HookStart == HookInit => HookInv
<1> SUFFICES ASSUME HookInit
             PROVE  HookInv
  OBVIOUS
<1>1. /\ log = None /\ inode = 1 /\ DOMAIN nudges = {}
      /\ hooks = [h \in Hook |-> NotRunning]
  BY DEF HookInit
<1>2. /\ hooks = [h \in Hook |-> hooks[h]]
      /\ \A h \in Hook : HookSound(hooks[h], inode, log)
  BY <1>1, IdleHook
<1>3. Shape
  BY <1>1, <1>2 DEF Shape
<1>4. ASSUME NEW key, key # None
      PROVE  Unexcused(key, hooks, inode, Entries, nudges)
  <2>1. Asking(hooks, key) = {}
    BY <1>1, <1>4, IdleHook DEF Asking
  <2> QED  BY <1>1, <2>1 DEF Unexcused
<1> QED  BY <1>3, <1>4 DEF HookInv

\* Every step of a hook, and every week that passes, keeps the invariant.
LEMMA HookStep == HookInv /\ [HookNext]_hookVars => HookInv'
<1> SUFFICES ASSUME HookInv, [HookNext]_hookVars
             PROVE  HookInv'
  OBVIOUS
<1>1. ASSUME log' = log, inode' = inode, hooks' = hooks, nudges' = nudges, excused' = excused
      PROVE  HookInv'
  <2>1. Entries' = Entries
    BY <1>1 DEF Entries
  <2>2. Shape'
    BY <1>1 DEF HookInv, Shape
  <2> QED  BY <1>1, <2>1, <2>2 DEF HookInv
<1>2. CASE Age
  BY <1>1, <1>2 DEF Age
<1>3. CASE UNCHANGED hookVars
  BY <1>1, <1>3 DEF hookVars
<1>4. ASSUME NEW h \in Hook,
             \/ PushOrDecision(h) \/ ToolUsed(h) \/ Stop(h) \/ StopAsks(h) \/ StopRecalls(h)
             \/ UserPromptSubmit(h) \/ SessionStart(h) \/ FirstTime(h) \/ OpenLog(h) \/ WriteLine(h) \/ AppendFails(h)
             \/ Prune(h) \/ RemoveLog(h) \/ ListRecalled(h)
      PROVE  HookInv'
  BY <1>4, StartStep, QuietStep, FirstTimeStep, OpenLogStep, WriteLineStep, AppendFailsStep,
     RemoveLogStep
<1> QED  BY <1>2, <1>3, <1>4 DEF HookNext

(***************************************************************************)
(* However many hooks of a session run at once, and however their reads,   *)
(* opens and writes of the log interleave, a nudge is repeated only when   *)
(* two of them asked for it at the same time, its line could not be        *)
(* written or the log was removed under it.                                *)
(***************************************************************************)
THEOREM NudgesGivenOnce == HookSpec => []NudgedOnce
<1>1. HookInv => NudgedOnce
  BY DEF HookInv, Shape, Unexcused, NudgedOnce
<1> QED  BY <1>1, HookStart, HookStep, PTL DEF HookSpec

-----------------------------------------------------------------------------
(* What recalled returns *)

\* What pushing ids to a list of distinct ids gives: theirs and its, each once.
LEMMA PushedIds ==
    ASSUME NEW X, NEW out \in Seq(X), IsInjective(out), NEW ids \in Seq(X)
    PROVE  /\ Pushed(out, ids) \in Seq(X) /\ IsInjective(Pushed(out, ids))
           /\ ToSet(out) \subseteq ToSet(Pushed(out, ids))
           /\ ToSet(ids) \subseteq ToSet(Pushed(out, ids))
<1> DEFINE n == Len(ids)
           next(acc, j) == IF Contains(acc, ids[j]) THEN acc ELSE Append(acc, ids[j])
           F(f) == [j \in 0..n |-> IF j = 0 THEN out ELSE next(f[j - 1], j)]
           upto == CHOOSE f : f = F(f)
<1>1. n \in Nat /\ DOMAIN ids = 1..n /\ \A j \in 1..n : ids[j] \in X
  BY LenProperties, ElementOfSeq
<1>2. Pushed(out, ids) = upto[n]
  BY DEF Pushed
<1> HIDE DEF n
<1>3. \A acc \in Seq(X), j \in 1..n :
        /\ next(acc, j) \in Seq(X) /\ (IsInjective(acc) => IsInjective(next(acc, j)))
        /\ ToSet(acc) \subseteq ToSet(next(acc, j)) /\ ids[j] \in ToSet(next(acc, j))
  <2> TAKE acc \in Seq(X), j \in 1..n
  <2>1. Len(acc) \in Nat /\ DOMAIN acc = 1..Len(acc) /\ ids[j] \in X
    BY <1>1, LenProperties
  <2>2. CASE Contains(acc, ids[j])
    <3>1. ids[j] \in ToSet(acc)
      BY <2>1, <2>2 DEF Contains, ToSet
    <3> QED  BY <2>2, <3>1
  <2>3. CASE ~Contains(acc, ids[j])
    <3> DEFINE x == ids[j]
               more == Append(acc, x)
    <3>1. next(acc, j) = more
      BY <2>3
    <3>2. \A i \in 1..Len(acc) : acc[i] # x
      BY <2>3 DEF Contains
    <3> HIDE DEF x
    <3>3. /\ more \in Seq(X) /\ DOMAIN more = 1..(Len(acc) + 1) /\ more[Len(acc) + 1] = x
          /\ \A i \in 1..Len(acc) : more[i] = acc[i]
      BY <2>1, AppendProperties, LenProperties DEF x
    <3> HIDE DEF more
    <3>4. ToSet(acc) \subseteq ToSet(more) /\ x \in ToSet(more)
      <4>1. Len(acc) + 1 \in DOMAIN more /\ \A i \in DOMAIN acc : i \in DOMAIN more /\ more[i] = acc[i]
        BY <2>1, <3>3
      <4> QED  BY <3>3, <4>1 DEF ToSet
    <3>5. IsInjective(acc) => IsInjective(more)
      BY <2>1, <3>2, <3>3 DEF IsInjective
    <3> HIDE DEF next
    <3> QED  BY <3>1, <3>3, <3>4, <3>5 DEF x
  <2> QED  BY <2>2, <2>3
<1> HIDE DEF next
<1>4. \E f : f = F(f)
  <2> DEFINE S == Seq(X)
             g == [j \in 1..n |-> [acc \in S |-> next(acc, j)]]
  <2>1. g \in [1..n -> [S -> S]] /\ out \in S
    BY <1>3
  <2> HIDE DEF S, g
  <2>6. PICK f : Runs(f, n, S, out, g)
    BY <1>1, <2>1, Iterated
  <2>2. f \in [0..n -> S] /\ f[0] = out /\ \A j \in 1..n : f[j] = g[j][f[j - 1]]
    BY <2>6 DEF Runs
  <2>3. \A j \in 1..n : f[j] = next(f[j - 1], j)
    <3> TAKE j \in 1..n
    <3>1. f[j - 1] \in S
      BY <1>1, <2>2
    <3> QED  BY <2>2, <3>1 DEF g
  <2>4. \A j \in 0..n : f[j] = IF j = 0 THEN out ELSE next(f[j - 1], j)
    BY <1>1, <2>2, <2>3
  <2>5. f = F(f)
    BY <2>2, <2>4
  <2> QED  BY <2>5
<1>5. upto = F(upto)
  <2> HIDE DEF F
  <2> QED  BY <1>4
<1> HIDE DEF upto
<1>6. upto[0] = out /\ \A j \in 1..n : upto[j] = next(upto[j - 1], j)
  BY <1>1, <1>5
<1> DEFINE Good(j) == /\ upto[j] \in Seq(X) /\ IsInjective(upto[j])
                      /\ ToSet(out) \subseteq ToSet(upto[j])
                      /\ \A i \in 1..j : ids[i] \in ToSet(upto[j])
           Bad == {j \in 0..n : ~Good(j)}
<1>7. ASSUME Bad # {} PROVE FALSE
  <2>1. PICK j \in Bad : \A m \in Bad : ~(m < j)
    <3>1. Bad \in SUBSET Nat
      OBVIOUS
    <3> HIDE DEF Bad
    <3> QED  BY <1>7, <3>1, LeastIndex
  <2>2. j # 0
    BY <1>6, <2>1
  <2>3. j - 1 \in 0..n /\ j \in 1..n /\ Good(j - 1)
    BY <1>1, <2>1, <2>2
  <2> DEFINE acc == upto[j - 1]
  <2>4. acc \in Seq(X) /\ IsInjective(acc) /\ ToSet(out) \subseteq ToSet(acc)
        /\ (\A i \in 1..(j - 1) : ids[i] \in ToSet(acc)) /\ upto[j] = next(acc, j)
    BY <1>6, <2>3
  <2> HIDE DEF acc
  <2>5. upto[j] \in Seq(X) /\ IsInjective(upto[j])
        /\ ToSet(acc) \subseteq ToSet(upto[j]) /\ ids[j] \in ToSet(upto[j])
    BY <1>3, <2>3, <2>4
  <2>6. \A i \in 1..j : ids[i] \in ToSet(upto[j])
    <3> TAKE i \in 1..j
    <3>1. i \in 1..(j - 1) \/ i = j
      BY <2>3
    <3> QED  BY <2>4, <2>5, <3>1
  <2>7. Good(j)
    BY <2>4, <2>5, <2>6
  <2> QED  BY <2>1, <2>7
<1>8. Good(n)
  BY <1>1, <1>7
<1>9. ToSet(ids) \subseteq ToSet(upto[n])
  BY <1>1, <1>8 DEF ToSet
<1> QED  BY <1>2, <1>8, <1>9

\* The lines of a log: only those of a recall have ids.
LEMMA LineIds ==
    \A line \in LogLines : line.ids \in Seq(ClaimId) /\ (line.kind # "recall" => line.ids = << >>)
<1>1. ASSUME NEW id \in ClaimId
      PROVE  LogLine("recall", None, <<id>>).ids \in Seq(ClaimId)
  <2> DEFINE one == <<id>>
  <2>1. one \in Seq(ClaimId)
    OBVIOUS
  <2> HIDE DEF one
  <2> QED  BY <2>1 DEF LogLine, one
<1>2. \A id : LogLine("recall", None, <<id>>).kind = "recall"
  BY DEF LogLine
<1>3. \A kind, name : LogLine(kind, name, << >>).ids = << >>
  BY DEF LogLine
<1>4. << >> \in Seq(ClaimId)
  BY EmptySeq
<1> QED  BY <1>1, <1>2, <1>3, <1>4 DEF LogLines, ToolLines

\* recalled returns every id of the log, each once.
LEMMA RecalledAll ==
    ASSUME NEW lines \in Seq(LogLines)
    PROVE  /\ Recalled(lines) \in Seq(ClaimId) /\ IsInjective(Recalled(lines))
           /\ \A i \in DOMAIN lines : ToSet(lines[i].ids) \subseteq ToSet(Recalled(lines))
<1> DEFINE n == Len(lines)
           line(i) == lines[n + 1 - i]
           next(acc, i) == IF line(i).kind = "recall" THEN Pushed(acc, line(i).ids) ELSE acc
           F(f) == [i \in 0..n |-> IF i = 0 THEN << >> ELSE next(f[i - 1], i)]
           newest == CHOOSE f : f = F(f)
           X == ClaimId
           S == {acc \in Seq(X) : IsInjective(acc)}
<1>1. n \in Nat /\ DOMAIN lines = 1..n /\ \A i \in 1..n : lines[i] \in LogLines
  BY LenProperties, ElementOfSeq
<1>2. Recalled(lines) = newest[n]
  BY DEF Recalled
<1> HIDE DEF n
<1>3. \A acc \in S, i \in 1..n :
        /\ next(acc, i) \in S /\ ToSet(acc) \subseteq ToSet(next(acc, i))
        /\ ToSet(line(i).ids) \subseteq ToSet(next(acc, i))
  <2> TAKE acc \in S, i \in 1..n
  <2> DEFINE ids == line(i).ids
  <2>1. line(i) \in LogLines
    <3>1. n + 1 - i \in 1..n
      BY <1>1
    <3> QED  BY <1>1, <3>1
  <2>2. ids \in Seq(X) /\ (line(i).kind # "recall" => ToSet(ids) = {})
    <3>1. line(i).ids \in Seq(ClaimId) /\ (line(i).kind # "recall" => line(i).ids = << >>)
      BY <2>1, LineIds
    <3>2. ToSet(<< >>) = {}
      BY DEF ToSet
    <3> HIDE DEF line
    <3> QED  BY <3>1, <3>2
  <2>3. acc \in Seq(X) /\ IsInjective(acc)
    OBVIOUS
  <2>4. next(acc, i) = IF line(i).kind = "recall" THEN Pushed(acc, ids) ELSE acc
    OBVIOUS
  <2> HIDE DEF line, ids, next, X
  <2>5. CASE line(i).kind = "recall"
    <3>1. /\ Pushed(acc, ids) \in Seq(X) /\ IsInjective(Pushed(acc, ids))
          /\ ToSet(acc) \subseteq ToSet(Pushed(acc, ids)) /\ ToSet(ids) \subseteq ToSet(Pushed(acc, ids))
      BY <2>2, <2>3, PushedIds
    <3> QED  BY <2>4, <2>5, <3>1 DEF ids
  <2>6. CASE line(i).kind # "recall"
    BY <2>2, <2>3, <2>4, <2>6 DEF ids
  <2> QED  BY <2>5, <2>6
<1>4. << >> \in S
  BY EmptySeq DEF IsInjective
<1> HIDE DEF next, S, line
<1>5. \E f : f = F(f)
  <2> DEFINE g == [i \in 1..n |-> [acc \in S |-> next(acc, i)]]
             base == << >>
  <2>1. g \in [1..n -> [S -> S]] /\ base \in S
    BY <1>3, <1>4
  <2> HIDE DEF g
  <2>2. PICK f : Runs(f, n, S, base, g)
    BY <1>1, <2>1, Iterated
  <2>3. f \in [0..n -> S] /\ f[0] = base /\ \A i \in 1..n : f[i] = g[i][f[i - 1]]
    BY <2>2 DEF Runs
  <2>4. \A i \in 1..n : f[i] = next(f[i - 1], i)
    <3> TAKE i \in 1..n
    <3>1. f[i - 1] \in S
      BY <1>1, <2>3
    <3> QED  BY <2>3, <3>1 DEF g
  <2>5. \A i \in 0..n : f[i] = IF i = 0 THEN base ELSE next(f[i - 1], i)
    BY <1>1, <2>3, <2>4
  <2>6. f = F(f)
    BY <2>3, <2>5
  <2> QED  BY <2>6
<1>6. newest = F(newest)
  <2> HIDE DEF F
  <2> QED  BY <1>5
<1> HIDE DEF newest
<1>7. newest[0] = << >> /\ \A i \in 1..n : newest[i] = next(newest[i - 1], i)
  BY <1>1, <1>6
<1> DEFINE Good(i) == newest[i] \in S /\ \A j \in 1..i : ToSet(line(j).ids) \subseteq ToSet(newest[i])
           Bad == {i \in 0..n : ~Good(i)}
<1>8. ASSUME Bad # {} PROVE FALSE
  <2>1. PICK i \in Bad : \A m \in Bad : ~(m < i)
    <3>1. Bad \in SUBSET Nat
      OBVIOUS
    <3> HIDE DEF Bad
    <3> QED  BY <1>8, <3>1, LeastIndex
  <2>2. i # 0
    BY <1>4, <1>7, <2>1
  <2>a. i \in 0..n
    BY <2>1
  <2>b. i - 1 \in 0..n /\ i \in 1..n /\ i - 1 < i
    BY <1>1, <2>2, <2>a
  <2>c. i - 1 \notin Bad
    BY <2>1, <2>b
  <2>3. i - 1 \in 0..n /\ i \in 1..n /\ Good(i - 1)
    <3> HIDE DEF Good
    <3> QED  BY <2>b, <2>c
  <2> DEFINE acc == newest[i - 1]
  <2>4. acc \in S /\ (\A j \in 1..(i - 1) : ToSet(line(j).ids) \subseteq ToSet(acc)) /\ newest[i] = next(acc, i)
    BY <1>7, <2>3
  <2> HIDE DEF acc
  <2>5. newest[i] \in S /\ ToSet(acc) \subseteq ToSet(newest[i]) /\ ToSet(line(i).ids) \subseteq ToSet(newest[i])
    BY <1>3, <2>3, <2>4
  <2>6. \A j \in 1..i : ToSet(line(j).ids) \subseteq ToSet(newest[i])
    <3> TAKE j \in 1..i
    <3>1. j \in 1..(i - 1) \/ j = i
      BY <2>3
    <3> QED  BY <2>4, <2>5, <3>1
  <2>7. Good(i)
    BY <2>5, <2>6
  <2> QED  BY <2>1, <2>7
<1>9. Good(n)
  BY <1>1, <1>8
<1>10. ASSUME NEW i \in DOMAIN lines PROVE ToSet(lines[i].ids) \subseteq ToSet(newest[n])
  <2>1. n + 1 - i \in 1..n /\ line(n + 1 - i) = lines[i]
    BY <1>1 DEF line
  <2> QED  BY <1>9, <2>1
<1> QED  BY <1>2, <1>9, <1>10 DEF S

-----------------------------------------------------------------------------
(* What a compaction lists *)

\* A list of distinct ids that is cut short has as many as the cap allows.
LEMMA CutShort ==
    ASSUME NEW s \in Seq(ClaimId), IsInjective(s)
    PROVE  /\ IsInjective(FirstOf(s, CompactCap))
           /\ Len(FirstOf(s, CompactCap)) = CompactCap \/ FirstOf(s, CompactCap) = s
<1>1. Len(s) \in Nat /\ DOMAIN s = 1..Len(s) /\ \A i \in 1..Len(s) : s[i] \in ClaimId
  BY LenProperties, ElementOfSeq
<1>2. CompactCap \in Nat
  BY HookAssumption
<1>3. CASE Len(s) < CompactCap
  <2>1. FirstOf(s, CompactCap) = SubSeq(s, 1, Len(s))
    BY <1>3 DEF FirstOf, Smaller
  <2>2. FirstOf(s, CompactCap) = s
    BY <2>1, SubSeqFull
  <2> QED  BY <2>2
<1>4. CASE ~(Len(s) < CompactCap)
  <2> DEFINE cut == SubSeq(s, 1, CompactCap)
  <2>1. FirstOf(s, CompactCap) = cut
    BY <1>4 DEF FirstOf, Smaller
  <2>2. \A i \in 1..CompactCap : i \in DOMAIN s /\ s[i] \in ClaimId
    BY <1>1, <1>2, <1>4
  <2>3. /\ cut \in Seq(ClaimId)
        /\ Len(cut) = IF 1 <= CompactCap THEN CompactCap - 1 + 1 ELSE 0
        /\ \A i \in 1..(CompactCap - 1 + 1) : cut[i] = s[1 + i - 1]
    <3>1. 1 \in Int /\ CompactCap \in Int /\ \A i \in 1..CompactCap : s[i] \in ClaimId
      BY <1>2, <2>2
    <3> QED  BY <3>1, SubSeqProperties
  <2> HIDE DEF cut
  <2>4. Len(cut) = CompactCap /\ \A i \in 1..CompactCap : cut[i] = s[i]
    BY <1>2, <2>3
  <2>5. DOMAIN cut = 1..CompactCap
    BY <2>3, <2>4, LenProperties
  <2>6. IsInjective(cut)
    BY <2>2, <2>4, <2>5 DEF IsInjective
  <2> QED  BY <2>1, <2>4, <2>6
<1> QED  BY <1>3, <1>4

\* What a hook of the session's start should list was recalled, and still is
\* in the log.
Owed == \A h \in Hook : hooks[h].due \subseteq RecalledIds

ListInv == HookInv /\ Owed /\ CompactionListsRecalled

\* The ids of a log that only grows stay in it.
LEMMA IdsGrow ==
    ASSUME NEW lines \in Seq(LogLines), NEW line \in LogLines,
           Entries = lines, Entries' = Append(lines, line)
    PROVE  RecalledIds \subseteq RecalledIds'
<1> DEFINE more == Append(lines, line)
<1>1. /\ DOMAIN lines = 1..Len(lines) /\ DOMAIN more = 1..(Len(lines) + 1) /\ Len(lines) \in Nat
      /\ \A i \in 1..Len(lines) : more[i] = lines[i]
  BY LenProperties, AppendProperties
<1>2. Entries' = more
  OBVIOUS
<1> HIDE DEF more
<1>3. \A i \in DOMAIN lines : i \in DOMAIN more /\ more[i] = lines[i]
  BY <1>1
<1> QED  BY <1>2, <1>3 DEF RecalledIds

\* A hook that is not running owes nothing.
LEMMA NotRunningOwes == NotRunning.due = {}
BY DEF NotRunning

\* One hook moves on, and owes no more than the log holds.
LEMMA OwedKept ==
    ASSUME HookInv, Owed, NEW h \in Hook, NEW new, hooks' = [hooks EXCEPT ![h] = new],
           RecalledIds \subseteq RecalledIds', new.due \subseteq RecalledIds'
    PROVE  Owed'
<1>1. hooks'[h] = new /\ \A g \in Hook : g # h => hooks'[g] = hooks[g]
  BY DEF HookInv, Shape
<1>2. ASSUME NEW g \in Hook PROVE hooks'[g].due \subseteq RecalledIds'
  BY <1>1 DEF Owed
<1> QED  BY <1>2 DEF Owed

\* A hook that starts owes what the log holds, or nothing.
LEMMA StartOwes ==
    ASSUME HookInv, Owed, NEW h \in Hook,
           \/ PushOrDecision(h) \/ ToolUsed(h) \/ Stop(h) \/ UserPromptSubmit(h)
           \/ SessionStart(h)
    PROVE  Owed' /\ lists' = lists
<1>1. ASSUME NEW state, StartHook(h, state), state.due \subseteq RecalledIds
      PROVE  Owed' /\ lists' = lists
  <2>1. /\ hooks' = [hooks EXCEPT ![h] = state] /\ log' = log /\ lists' = lists
    BY <1>1 DEF StartHook
  <2>2. RecalledIds' = RecalledIds
    BY <2>1 DEF RecalledIds, Entries
  <2> QED  BY <1>1, <2>1, <2>2, OwedKept
<1>2. CASE PushOrDecision(h)
  <2>1. PICK key \in Seams : StartHook(h, [NotRunning EXCEPT !.step = "check", !.key = key])
    BY <1>2 DEF PushOrDecision
  <2> DEFINE state == [NotRunning EXCEPT !.step = "check", !.key = key]
  <2>2. StartHook(h, state) /\ state = [NotRunning EXCEPT !.step = "check", !.key = key]
    BY <2>1
  <2> HIDE DEF state
  <2>3. state = [step |-> "check", key |-> key, line |-> NotRunning.line,
                 file |-> NotRunning.file, compacted |-> NotRunning.compacted, due |-> NotRunning.due]
    BY <2>2, IdleHook, StepAndKey
  <2>4. state.due = {}
    BY <2>3, NotRunningOwes
  <2> QED  BY <1>1, <2>2, <2>4
<1>3. CASE ToolUsed(h)
  <2>1. PICK line \in ToolLines : StartHook(h, [NotRunning EXCEPT !.step = "open", !.line = line])
    BY <1>3 DEF ToolUsed
  <2> DEFINE state == [NotRunning EXCEPT !.step = "open", !.line = line]
  <2>2. StartHook(h, state) /\ state = [NotRunning EXCEPT !.step = "open", !.line = line]
    BY <2>1
  <2> HIDE DEF state
  <2>3. state = [step |-> "open", key |-> NotRunning.key, line |-> line,
                 file |-> NotRunning.file, compacted |-> NotRunning.compacted, due |-> NotRunning.due]
    BY <2>2, IdleHook, StepAndLine
  <2>4. state.due = {}
    BY <2>3, NotRunningOwes
  <2> QED  BY <1>1, <2>2, <2>4
<1>4. CASE Stop(h)
  <2> DEFINE state == [NotRunning EXCEPT !.step = "stop"]
  <2>2. StartHook(h, state) /\ state = [NotRunning EXCEPT !.step = "stop"]
    BY <1>4 DEF Stop
  <2> HIDE DEF state
  <2>3. state.due = {}
    BY <2>2, IdleHook, NotRunningOwes, StepOnly
  <2> QED  BY <1>1, <2>2, <2>3
<1>5. CASE UserPromptSubmit(h)
  <2>1. PICK tokens \in Tokens, transcript \in Transcript :
           StartHook(h, [NotRunning EXCEPT !.step = "check",
                                           !.key = <<"context", Level(tokens), transcript>>])
    BY <1>5 DEF UserPromptSubmit
  <2> DEFINE key == <<"context", Level(tokens), transcript>>
             state == [NotRunning EXCEPT !.step = "check", !.key = key]
  <2> HIDE DEF key
  <2>2. StartHook(h, state) /\ state = [NotRunning EXCEPT !.step = "check", !.key = key]
    BY <2>1 DEF key
  <2> HIDE DEF state
  <2>3. state = [step |-> "check", key |-> key, line |-> NotRunning.line,
                 file |-> NotRunning.file, compacted |-> NotRunning.compacted, due |-> NotRunning.due]
    BY <2>2, IdleHook, StepAndKey
  <2>4. state.due = {}
    BY <2>3, NotRunningOwes
  <2> QED  BY <1>1, <2>2, <2>4
<1>6. CASE SessionStart(h)
  <2>1. PICK compacted \in BOOLEAN :
           StartHook(h, [NotRunning EXCEPT !.step = "prune", !.compacted = compacted,
                                           !.due = IF stale THEN {} ELSE RecalledIds])
    BY <1>6 DEF SessionStart
  <2> DEFINE due == IF stale THEN {} ELSE RecalledIds
             state == [NotRunning EXCEPT !.step = "prune", !.compacted = compacted, !.due = due]
  <2>2. due \subseteq RecalledIds
    OBVIOUS
  <2>3. StartHook(h, state)
    BY <2>1
  <2> HIDE DEF due
  <2>4. state = [NotRunning EXCEPT !.step = "prune", !.compacted = compacted, !.due = due]
    OBVIOUS
  <2> HIDE DEF state
  <2>5. state = [step |-> "prune", key |-> NotRunning.key, line |-> NotRunning.line,
                 file |-> NotRunning.file, compacted |-> compacted, due |-> due]
    BY <2>4, IdleHook, StepAndStart
  <2>6. state.due = due
    BY <2>5
  <2> QED  BY <1>1, <2>2, <2>3, <2>6
<1> QED  BY <1>2, <1>3, <1>4, <1>5, <1>6

\* A hook that goes on owes what it did, and one that ends owes nothing.
LEMMA StepOwes ==
    ASSUME HookInv, Owed, NEW h \in Hook,
           StopAsks(h) \/ StopRecalls(h) \/ FirstTime(h) \/ Prune(h) \/ AppendFails(h)
    PROVE  Owed' /\ lists' = lists
<1>1. RecalledIds' = RecalledIds /\ lists' = lists
  <2>1. log' = log /\ lists' = lists
    BY DEF StopAsks, StopRecalls, FirstTime, Prune, AppendFails
  <2> QED  BY <2>1 DEF RecalledIds, Entries
<1>2. /\ HookRecord(hooks[h]) /\ hooks = [g \in Hook |-> hooks[g]]
      /\ hooks[h].due \subseteq RecalledIds
  BY DEF HookInv, Shape, HookSound, Owed
<1>3. ASSUME hooks' = [hooks EXCEPT ![h] = NotRunning]
      PROVE  Owed'
  BY <1>1, <1>3, NotRunningOwes, OwedKept
<1>4. CASE StopAsks(h)
  <2> DEFINE ask == [NotRunning EXCEPT !.step = "recalled"]
  <2>1. ask = [NotRunning EXCEPT !.step = "recalled"]
    OBVIOUS
  <2>2. hooks' = [hooks EXCEPT ![h] = NotRunning] \/ hooks' = [hooks EXCEPT ![h] = ask]
    BY <1>4 DEF StopAsks
  <2> HIDE DEF ask
  <2>3. ask = [step |-> "recalled", key |-> NotRunning.key, line |-> NotRunning.line,
               file |-> NotRunning.file, compacted |-> NotRunning.compacted, due |-> NotRunning.due]
    BY <2>1, IdleHook, StepOnly
  <2>4. ask.due = {}
    BY <2>3, NotRunningOwes
  <2>5. CASE hooks' = [hooks EXCEPT ![h] = NotRunning]
    BY <1>1, <1>3, <2>5
  <2>6. CASE hooks' = [hooks EXCEPT ![h] = ask]
    BY <1>1, <2>4, <2>6, OwedKept
  <2> QED  BY <2>2, <2>5, <2>6
<1>8. CASE StopRecalls(h)
  <2> DEFINE ask == [NotRunning EXCEPT !.step = "check", !.key = <<"stop">>]
  <2>1. ask = [NotRunning EXCEPT !.step = "check", !.key = <<"stop">>]
    OBVIOUS
  <2>2. hooks' = [hooks EXCEPT ![h] = NotRunning] \/ hooks' = [hooks EXCEPT ![h] = ask]
    BY <1>8 DEF StopRecalls
  <2> HIDE DEF ask
  <2>3. ask = [step |-> "check", key |-> <<"stop">>, line |-> NotRunning.line,
               file |-> NotRunning.file, compacted |-> NotRunning.compacted, due |-> NotRunning.due]
    BY <2>1, IdleHook, StepAndKey
  <2>4. ask.due = {}
    BY <2>3, NotRunningOwes
  <2>5. CASE hooks' = [hooks EXCEPT ![h] = NotRunning]
    BY <1>1, <1>3, <2>5
  <2>6. CASE hooks' = [hooks EXCEPT ![h] = ask]
    BY <1>1, <2>4, <2>6, OwedKept
  <2> QED  BY <2>2, <2>5, <2>6
<1>5. CASE FirstTime(h)
  <2> DEFINE line == LogLine("nudge", hooks[h].key, << >>)
             new == [hooks[h] EXCEPT !.step = "open", !.line = line]
  <2>1. hooks' = [hooks EXCEPT ![h] = IF Recorded("nudge", hooks[h].key) THEN NotRunning ELSE new]
    BY <1>5 DEF FirstTime
  <2>2. hooks' = [hooks EXCEPT ![h] = NotRunning] \/ hooks' = [hooks EXCEPT ![h] = new]
    BY <2>1
  <2>3. new = [hooks[h] EXCEPT !.step = "open", !.line = line]
    OBVIOUS
  <2> HIDE DEF new, line
  <2>4. new = [step |-> "open", key |-> hooks[h].key, line |-> line,
               file |-> hooks[h].file, compacted |-> hooks[h].compacted, due |-> hooks[h].due]
    BY <1>2, <2>3, StepAndLine
  <2>5. new.due = hooks[h].due
    BY <2>4
  <2>6. CASE hooks' = [hooks EXCEPT ![h] = NotRunning]
    BY <1>1, <1>3, <2>6
  <2>7. CASE hooks' = [hooks EXCEPT ![h] = new]
    BY <1>1, <1>2, <2>5, <2>7, OwedKept
  <2> QED  BY <2>2, <2>6, <2>7
<1>6. CASE Prune(h)
  <2> DEFINE step == IF log # None /\ stale THEN "remove" ELSE "list"
             new == [hooks[h] EXCEPT !.step = step]
  <2>1. hooks' = [hooks EXCEPT ![h].step = step]
    BY <1>6 DEF Prune
  <2> HIDE DEF step
  <2>2. hooks' = [hooks EXCEPT ![h] = new]
    BY <1>2, <2>1
  <2>3. new = [hooks[h] EXCEPT !.step = step]
    OBVIOUS
  <2> HIDE DEF new
  <2>4. new = [step |-> step, key |-> hooks[h].key, line |-> hooks[h].line,
               file |-> hooks[h].file, compacted |-> hooks[h].compacted, due |-> hooks[h].due]
    BY <1>2, <2>3, StepOnly
  <2>5. new.due = hooks[h].due
    BY <2>4
  <2> QED  BY <1>1, <1>2, <2>2, <2>5, OwedKept
<1>7. CASE AppendFails(h)
  <2>1. hooks' = [hooks EXCEPT ![h] = NotRunning]
    BY <1>7 DEF AppendFails
  <2> QED  BY <1>1, <1>3, <2>1
<1> QED  BY <1>4, <1>5, <1>6, <1>7, <1>8

\* Opening the log keeps its lines, and writing to it adds one.
LEMMA AppendOwes ==
    ASSUME HookInv, Owed, NEW h \in Hook, OpenLog(h) \/ WriteLine(h)
    PROVE  Owed' /\ lists' = lists
<1>1. /\ Shape /\ HookSound(hooks[h], inode, log) /\ HookRecord(hooks[h])
      /\ hooks = [g \in Hook |-> hooks[g]] /\ hooks[h].due \subseteq RecalledIds
  BY DEF HookInv, Shape, HookSound, Owed
<1>n. None \notin Seq(LogLines)
  BY HookAssumption
<1>2. CASE OpenLog(h)
  <2> DEFINE new == [hooks[h] EXCEPT !.step = "write", !.file = inode]
  <2>1. /\ log' = Entries /\ lists' = lists
        /\ hooks' = [hooks EXCEPT ![h].step = "write", ![h].file = inode]
    BY <1>2 DEF OpenLog
  <2>2. hooks' = [hooks EXCEPT ![h] = new]
    BY <1>1, <2>1
  <2>3. new = [hooks[h] EXCEPT !.step = "write", !.file = inode]
    OBVIOUS
  <2> HIDE DEF new
  <2>4. new = [step |-> "write", key |-> hooks[h].key, line |-> hooks[h].line,
               file |-> inode, compacted |-> hooks[h].compacted, due |-> hooks[h].due]
    BY <1>1, <2>3, StepAndFile
  <2>5. new.due = hooks[h].due
    BY <2>4
  <2>6. log' \in Seq(LogLines) /\ log' # None
    BY <1>1, <1>n, <2>1, EntriesType
  <2>7. RecalledIds' = RecalledIds
    <3>1. Entries' = Entries
      BY <2>1, <2>6 DEF Entries
    <3> QED  BY <3>1 DEF RecalledIds
  <2> QED  BY <1>1, <2>1, <2>2, <2>5, <2>7, OwedKept
<1>3. CASE WriteLine(h)
  <2> DEFINE line == hooks[h].line
             there == hooks[h].file = inode /\ log # None
  <2>1. /\ hooks[h].step = "write" /\ lists' = lists
        /\ there => log' = Append(log, line)
        /\ ~there => log' = log
        /\ hooks' = [hooks EXCEPT ![h] = NotRunning]
    BY <1>3 DEF WriteLine
  <2>2. line \in LogLines
    BY <1>1, <2>1 DEF HookSound
  <2>3. RecalledIds \subseteq RecalledIds'
    <3>1. CASE there
      <4>1. log \in Seq(LogLines) /\ Entries = log
        BY <1>1, <3>1 DEF Shape, Entries
      <4> HIDE DEF line, there
      <4>2. Append(log, line) \in Seq(LogLines)
        BY <2>2, <4>1, AppendKeeps
      <4>3. log' # None
        BY <1>n, <2>1, <3>1, <4>2
      <4>4. Entries' = Append(log, line)
        BY <2>1, <3>1, <4>3 DEF Entries
      <4> QED  BY <2>2, <4>1, <4>4, IdsGrow
    <3>2. CASE ~there
      BY <2>1, <3>2 DEF RecalledIds, Entries
    <3> QED  BY <3>1, <3>2
  <2> QED  BY <2>1, <2>3, NotRunningOwes, OwedKept
<1> QED  BY <1>2, <1>3

\* With the log, what every hook owes is gone.
LEMMA RemoveOwes ==
    ASSUME HookInv, NEW h \in Hook, RemoveLog(h)
    PROVE  Owed' /\ lists' = lists
<1>1. /\ lists' = lists
      /\ hooks' = [g \in Hook |-> IF g = h THEN [hooks[h] EXCEPT !.step = "list", !.due = {}]
                                  ELSE [hooks[g] EXCEPT !.due = {}]]
  BY DEF RemoveLog
<1>2. ASSUME NEW g \in Hook PROVE hooks'[g].due = {}
  <2>1. HookRecord(hooks[g])
    BY DEF HookInv, Shape, HookSound
  <2>2. CASE g = h
    <3>1. hooks'[g] = [hooks[g] EXCEPT !.step = "list", !.due = {}]
      BY <1>1, <2>2
    <3>2. hooks'[g] = [step |-> "list", key |-> hooks[g].key, line |-> hooks[g].line,
                       file |-> hooks[g].file, compacted |-> hooks[g].compacted, due |-> {}]
      BY <2>1, <3>1, StepAndDue
    <3> QED  BY <3>2
  <2>3. CASE g # h
    <3>1. hooks'[g] = [hooks[g] EXCEPT !.due = {}]
      BY <1>1, <2>3
    <3>2. hooks'[g] = [step |-> hooks[g].step, key |-> hooks[g].key, line |-> hooks[g].line,
                       file |-> hooks[g].file, compacted |-> hooks[g].compacted, due |-> {}]
      BY <2>1, <3>1, DueOnly
    <3> QED  BY <3>2
  <2> QED  BY <2>2, <2>3
<1> QED  BY <1>1, <1>2 DEF Owed

\* The list of a compaction has what the hook owes, or is cut short.
LEMMA ListOwes ==
    ASSUME ListInv, NEW h \in Hook, ListRecalled(h)
    PROVE  Owed' /\ CompactionListsRecalled'
<1> DEFINE all == Recalled(Entries)
           given == FirstOf(all, CompactCap)
           due == hooks[h].due
<1>1. /\ hooks' = [hooks EXCEPT ![h] = NotRunning] /\ log' = log
      /\ lists' = IF ~hooks[h].compacted THEN lists ELSE [given |-> given, due |-> due]
  BY DEF ListRecalled
<1>2. Owed'
  <2>1. RecalledIds' = RecalledIds
    BY <1>1 DEF RecalledIds, Entries
  <2> QED  BY <1>1, <2>1, NotRunningOwes, OwedKept DEF ListInv
<1>3. Entries \in Seq(LogLines)
  BY EntriesType DEF ListInv, HookInv
<1>4. /\ all \in Seq(ClaimId) /\ IsInjective(all)
      /\ \A i \in DOMAIN Entries : ToSet(Entries[i].ids) \subseteq ToSet(all)
  BY <1>3, RecalledAll
<1>5. due \subseteq ToSet(all)
  <2>1. due \subseteq RecalledIds
    BY DEF ListInv, Owed
  <2>2. RecalledIds \subseteq ToSet(all)
    <3> HIDE DEF all
    <3> QED  BY <1>4 DEF RecalledIds
  <2> QED  BY <2>1, <2>2
<1>6. IsInjective(given) /\ (Len(given) = CompactCap \/ given = all)
  BY <1>4, CutShort
<1> HIDE DEF all, given, due
<1>7. CompactionListsRecalled'
  <2>1. CASE ~hooks[h].compacted
    BY <1>1, <2>1 DEF ListInv, CompactionListsRecalled
  <2>2. CASE hooks[h].compacted
    <3>1. lists'.given = given /\ lists'.due = due
      BY <1>1, <2>2
    <3> QED  BY <1>5, <1>6, <3>1 DEF CompactionListsRecalled
  <2> QED  BY <2>1, <2>2
<1> QED  BY <1>2, <1>7

\* A session starts with nothing to list.
LEMMA ListStart == HookInit => ListInv
<1> SUFFICES ASSUME HookInit
             PROVE  ListInv
  OBVIOUS
<1>1. /\ hooks = [h \in Hook |-> NotRunning]
      /\ lists = [given |-> << >>, due |-> {}]
  BY DEF HookInit
<1>2. Owed
  BY <1>1, NotRunningOwes DEF Owed
<1>3. CompactionListsRecalled
  BY <1>1 DEF CompactionListsRecalled, IsInjective
<1> QED  BY <1>2, <1>3, HookStart DEF ListInv

\* Every step keeps what is owed and the list that was given.
LEMMA ListStep == ListInv /\ [HookNext]_hookVars => ListInv'
<1> SUFFICES ASSUME ListInv, [HookNext]_hookVars
             PROVE  ListInv'
  OBVIOUS
<1>1. HookInv' /\ HookInv /\ Owed
  BY HookStep DEF ListInv
<1>2. ASSUME lists' = lists
      PROVE  CompactionListsRecalled'
  BY <1>2 DEF ListInv, CompactionListsRecalled
<1>3. ASSUME log' = log, hooks' = hooks, lists' = lists
      PROVE  ListInv'
  <2>1. Owed'
    BY <1>1, <1>3 DEF Owed, RecalledIds, Entries
  <2> QED  BY <1>1, <1>2, <1>3, <2>1 DEF ListInv
<1>4. CASE Age
  BY <1>3, <1>4 DEF Age
<1>5. CASE UNCHANGED hookVars
  BY <1>3, <1>5 DEF hookVars
<1>6. ASSUME NEW h \in Hook, ListRecalled(h)
      PROVE  ListInv'
  BY <1>1, <1>6, ListOwes DEF ListInv
<1>7. ASSUME NEW h \in Hook,
             \/ PushOrDecision(h) \/ ToolUsed(h) \/ Stop(h) \/ StopAsks(h) \/ StopRecalls(h)
             \/ UserPromptSubmit(h) \/ SessionStart(h) \/ FirstTime(h) \/ OpenLog(h) \/ WriteLine(h) \/ AppendFails(h)
             \/ Prune(h) \/ RemoveLog(h)
      PROVE  ListInv'
  <2>1. Owed' /\ lists' = lists
    BY <1>1, <1>7, StartOwes, StepOwes, AppendOwes, RemoveOwes
  <2> QED  BY <1>1, <1>2, <2>1 DEF ListInv
<1> QED  BY <1>4, <1>5, <1>6, <1>7 DEF HookNext

(***************************************************************************)
(* However the hooks of a session interleave, and whatever prune removes   *)
(* under them, a compaction's note lists each id once, and every id that   *)
(* the session had recalled when the hook started and that no prune has    *)
(* thrown away since, as far as the cap goes.                              *)
(***************************************************************************)
THEOREM CompactionsListRecalled == HookSpec => []CompactionListsRecalled
<1>1. ListInv => CompactionListsRecalled
  BY DEF ListInv
<1> QED  BY <1>1, ListStart, ListStep, PTL DEF HookSpec

-----------------------------------------------------------------------------
(* The context block *)

\* Every id there may be, of a claim or under a summary.
ClaimIds == {c.id : c \in RankedClaims}
Marks == UNION {{c.id} \cup c.covers : c \in RankedClaims}

\* A block being filled.
Filling == [shown : Seq(ClaimIds), used : Nat, dropped : Nat, seen : SUBSET Marks, header : Nat]
On(acc) == ToSet(acc.shown)

\* What an entry may do to the block: it is passed over, dropped, or put on it.
PassedOver(acc, new, entry) == entry.id \in acc.seen /\ new = acc
Dropped(acc, new, entry, room) ==
    /\ acc.used + acc.header + entry.chars > room
    /\ new.shown = acc.shown /\ new.used = acc.used /\ new.header = acc.header
    /\ new.dropped = acc.dropped + 1 /\ new.seen = acc.seen \cup {entry.id}
PutOn(acc, new, entry, room) ==
    /\ acc.used + acc.header + entry.chars <= room
    /\ On(new) = On(acc) \cup {entry.id}
    /\ new.used = acc.used + acc.header + entry.chars /\ new.header = 0
    /\ new.dropped = acc.dropped
    /\ acc.seen \cup {entry.id} \subseteq new.seen
    /\ new.seen \subseteq acc.seen \cup {entry.id} \cup entry.covers
Placed(acc, new, entry, room) ==
    \/ PassedOver(acc, new, entry)
    \/ Dropped(acc, new, entry, room)
    \/ PutOn(acc, new, entry, room)

\* The lengths of the fixed text and the caps are numbers.
LEMMA ContextLengths ==
    /\ TitleChars \in Nat /\ HeaderChars \in Nat /\ TrimmedChars \in Nat /\ NothingChars \in Nat
    /\ LessonsReserveChars \in Nat /\ RelevantK \in Nat /\ RelevantUnaimedK \in Nat /\ LessonsK \in Nat
    /\ Budgets \subseteq Nat
    /\ \A claim \in RankedClaims : claim.chars \in Nat
<1>1. /\ {TitleChars, HeaderChars, TrimmedChars, NothingChars, LessonsReserveChars} \subseteq Nat
      /\ {RelevantK, RelevantUnaimedK, LessonsK} \subseteq Nat /\ Budgets \subseteq Nat
      /\ \A claim \in RankedClaims : claim.chars \in Nat
  BY ContextAssumption
<1> QED  BY <1>1

\* A sequence with one more element.
LEMMA OneMore ==
    \A X : \A s \in Seq(X), x \in X :
        Append(s, x) \in Seq(X) /\ ToSet(Append(s, x)) = ToSet(s) \cup {x}
<1> SUFFICES ASSUME NEW X, NEW s \in Seq(X), NEW x \in X
             PROVE  Append(s, x) \in Seq(X) /\ ToSet(Append(s, x)) = ToSet(s) \cup {x}
  OBVIOUS
<1> DEFINE more == Append(s, x)
<1>1. /\ more \in Seq(X) /\ Len(s) \in Nat
      /\ DOMAIN s = 1..Len(s) /\ DOMAIN more = 1..(Len(s) + 1)
      /\ \A i \in 1..Len(s) : more[i] = s[i]
      /\ more[Len(s) + 1] = x
  BY LenProperties, AppendProperties
<1> HIDE DEF more
<1>2. /\ DOMAIN more = DOMAIN s \cup {Len(s) + 1} /\ Len(s) + 1 \notin DOMAIN s
      /\ \A i \in DOMAIN s : more[i] = s[i]
  BY <1>1
<1>3. ToSet(more) = ToSet(s) \cup {x}
  BY <1>1, <1>2 DEF ToSet
<1> QED  BY <1>1, <1>3 DEF more

\* A block's record with one more dropped ...
LEMMA OneDropped ==
    ASSUME NEW acc \in Filling, NEW mark, NEW new,
           new = [acc EXCEPT !.dropped = @ + 1, !.seen = @ \cup {mark}]
    PROVE  new = [shown |-> acc.shown, used |-> acc.used, dropped |-> acc.dropped + 1,
                  seen |-> acc.seen \cup {mark}, header |-> acc.header]
BY DEF Filling

\* ... and with one more shown.
LEMMA OneShown ==
    ASSUME NEW acc \in Filling, NEW id, NEW cost, NEW marks, NEW new,
           new = [acc EXCEPT !.shown = Append(@, id), !.used = @ + cost, !.header = 0,
                             !.seen = @ \cup {id} \cup marks]
    PROVE  new = [shown |-> Append(acc.shown, id), used |-> acc.used + cost, dropped |-> acc.dropped,
                  seen |-> acc.seen \cup {id} \cup marks, header |-> 0]
BY DEF Filling

\* Placing an entry is one of the three, and gives a block being filled.
LEMMA PlaceStep ==
    \A acc \in Filling, entry \in RankedClaims, room \in Nat : \A rollUp :
        /\ Place(acc, entry, room, rollUp) \in Filling
        /\ Placed(acc, Place(acc, entry, room, rollUp), entry, room)
<1> SUFFICES ASSUME NEW acc \in Filling, NEW entry \in RankedClaims, NEW room \in Nat, NEW rollUp
             PROVE  /\ Place(acc, entry, room, rollUp) \in Filling
                    /\ Placed(acc, Place(acc, entry, room, rollUp), entry, room)
  OBVIOUS
<1> DEFINE cost == acc.header + entry.chars
           id == entry.id
           marks == IF rollUp THEN entry.covers ELSE {}
           refused == [acc EXCEPT !.dropped = @ + 1, !.seen = @ \cup {id}]
           shown == [acc EXCEPT !.shown = Append(@, id), !.used = @ + cost, !.header = 0,
                                !.seen = @ \cup {id} \cup marks]
           new == Place(acc, entry, room, rollUp)
<1>1. /\ acc.shown \in Seq(ClaimIds) /\ acc.used \in Nat /\ acc.dropped \in Nat /\ acc.header \in Nat
      /\ acc.seen \subseteq Marks
  BY DEF Filling
<1>2. entry.chars \in Nat /\ cost \in Nat /\ cost = acc.header + entry.chars
  BY <1>1, ContextLengths
<1>3. id \in ClaimIds /\ id \in Marks /\ entry.covers \subseteq Marks /\ marks \subseteq entry.covers
  BY DEF ClaimIds, Marks
<1>4. /\ id \in acc.seen => new = acc
      /\ id \notin acc.seen /\ acc.used + cost > room => new = refused
      /\ id \notin acc.seen /\ ~(acc.used + cost > room) => new = shown
  BY DEF Place
<1>5. refused = [shown |-> acc.shown, used |-> acc.used, dropped |-> acc.dropped + 1,
                 seen |-> acc.seen \cup {id}, header |-> acc.header]
  <2>1. refused = [acc EXCEPT !.dropped = @ + 1, !.seen = @ \cup {id}]
    OBVIOUS
  <2> HIDE DEF refused, id
  <2> QED  BY <2>1, OneDropped
<1>6. shown = [shown |-> Append(acc.shown, id), used |-> acc.used + cost, dropped |-> acc.dropped,
               seen |-> acc.seen \cup {id} \cup marks, header |-> 0]
  <2>1. shown = [acc EXCEPT !.shown = Append(@, id), !.used = @ + cost, !.header = 0,
                            !.seen = @ \cup {id} \cup marks]
    OBVIOUS
  <2> HIDE DEF shown, id, cost, marks
  <2> QED  BY <2>1, OneShown
<1>7. id = entry.id
  OBVIOUS
<1> HIDE DEF new, refused, shown, cost, marks, id
<1>8. CASE id \in acc.seen
  BY <1>4, <1>7, <1>8 DEF Placed, PassedOver, new
<1>9. CASE id \notin acc.seen /\ acc.used + cost > room
  <2>1. new = refused
    BY <1>4, <1>9
  <2>2. new \in Filling
    BY <1>1, <1>3, <1>5, <2>1 DEF Filling
  <2>3. Dropped(acc, new, entry, room)
    BY <1>1, <1>2, <1>5, <1>7, <1>9, <2>1 DEF Dropped
  <2> QED  BY <2>2, <2>3 DEF Placed, new
<1>10. CASE id \notin acc.seen /\ ~(acc.used + cost > room)
  <2>1. new = shown
    BY <1>4, <1>10
  <2>2. /\ Append(acc.shown, id) \in Seq(ClaimIds)
        /\ ToSet(Append(acc.shown, id)) = ToSet(acc.shown) \cup {id}
    BY <1>1, <1>3, OneMore
  <2>3. acc.used + cost \in Nat /\ acc.seen \cup {id} \cup marks \subseteq Marks /\ 0 \in Nat
    BY <1>1, <1>2, <1>3
  <2>4. new \in Filling
    BY <1>1, <1>6, <2>1, <2>2, <2>3 DEF Filling
  <2>5. /\ new.shown = Append(acc.shown, id) /\ new.used = acc.used + cost
        /\ new.dropped = acc.dropped /\ new.header = 0
        /\ new.seen = acc.seen \cup {id} \cup marks
    BY <1>6, <2>1
  <2>6. On(new) = On(acc) \cup {id}
    BY <2>2, <2>5 DEF On
  <2>7. PutOn(acc, new, entry, room)
    BY <1>1, <1>2, <1>3, <1>7, <1>10, <2>5, <2>6 DEF PutOn
  <2> QED  BY <2>4, <2>7 DEF Placed, new
<1> QED  BY <1>8, <1>9, <1>10
-----------------------------------------------------------------------------
(* Filling a section *)

\* The block as it is filled, entry by entry.
Fills(f, acc, entries, room, rollUp) ==
    /\ f \in [0..Len(entries) -> Filling]
    /\ f[0] = [acc EXCEPT !.header = HeaderChars]
    /\ \A i \in 1..Len(entries) : /\ f[i] = Place(f[i - 1], entries[i], room, rollUp)
                                  /\ Placed(f[i - 1], f[i], entries[i], room)

\* Filling a section is placing its entries one after the other.
LEMMA FillRuns ==
    \A acc \in Filling : \A n, budget, rollUp :
        sections[n].entries \in Seq(RankedClaims) /\ Room(n, budget) \in Nat
        => \E f : /\ Fills(f, acc, sections[n].entries, Room(n, budget), rollUp)
                  /\ FillSection(acc, n, budget, rollUp) = f[Len(sections[n].entries)]
<1> SUFFICES ASSUME NEW acc \in Filling, NEW n, NEW budget, NEW rollUp,
                    sections[n].entries \in Seq(RankedClaims), Room(n, budget) \in Nat
             PROVE  \E f : /\ Fills(f, acc, sections[n].entries, Room(n, budget), rollUp)
                           /\ FillSection(acc, n, budget, rollUp) = f[Len(sections[n].entries)]
  OBVIOUS
<1> DEFINE entries == sections[n].entries
           room == Room(n, budget)
           last == Len(entries)
           base == [acc EXCEPT !.header = HeaderChars]
           F(f) == [i \in 0..last |-> IF i = 0 THEN base ELSE Place(f[i - 1], entries[i], room, rollUp)]
           upto == CHOOSE f : f = F(f)
<1>1. last \in Nat /\ DOMAIN entries = 1..last /\ \A i \in 1..last : entries[i] \in RankedClaims
  BY LenProperties, ElementOfSeq
<1>2. FillSection(acc, n, budget, rollUp) = upto[last]
  BY DEF FillSection
<1>3. room \in Nat
  OBVIOUS
<1>4. base \in Filling
  BY ContextLengths DEF Filling
<1> HIDE DEF last, room, base
<1>5. \E f : f = F(f)
  <2> DEFINE g == [i \in 1..last |-> [a \in Filling |-> Place(a, entries[i], room, rollUp)]]
  <2>0. \A i \in 1..last, a \in Filling : Place(a, entries[i], room, rollUp) \in Filling
    BY <1>1, <1>3, PlaceStep
  <2>1. g \in [1..last -> [Filling -> Filling]]
    BY <2>0
  <2> HIDE DEF g
  <2>2. PICK f : Runs(f, last, Filling, base, g)
    BY <1>1, <1>4, <2>1, Iterated
  <2>3. f \in [0..last -> Filling] /\ f[0] = base /\ \A i \in 1..last : f[i] = g[i][f[i - 1]]
    BY <2>2 DEF Runs
  <2>4. \A i \in 1..last : f[i] = Place(f[i - 1], entries[i], room, rollUp)
    <3> TAKE i \in 1..last
    <3>1. f[i - 1] \in Filling
      BY <1>1, <2>3
    <3> QED  BY <2>3, <3>1 DEF g
  <2>5. \A i \in 0..last : f[i] = IF i = 0 THEN base ELSE Place(f[i - 1], entries[i], room, rollUp)
    BY <1>1, <2>3, <2>4
  <2>6. f = F(f)
    BY <2>3, <2>5
  <2> QED  BY <2>6
<1>6. upto = F(upto)
  <2> HIDE DEF F
  <2> QED  BY <1>5
<1> HIDE DEF upto
<1>7. /\ upto[0] = base
      /\ \A i \in 1..last : upto[i] = Place(upto[i - 1], entries[i], room, rollUp)
  BY <1>1, <1>6
<1> DEFINE Bad == {i \in 0..last : upto[i] \notin Filling}
<1>8. ASSUME Bad # {} PROVE FALSE
  <2>1. PICK i \in Bad : \A m \in Bad : ~(m < i)
    <3>1. Bad \in SUBSET Nat
      OBVIOUS
    <3> HIDE DEF Bad
    <3> QED  BY <1>8, <3>1, LeastIndex
  <2>2. i \in 0..last /\ i # 0
    BY <1>4, <1>7, <2>1
  <2>3. i - 1 \in 0..last /\ i \in 1..last /\ i - 1 < i
    BY <1>1, <2>2
  <2>4. upto[i - 1] \in Filling
    BY <2>1, <2>3
  <2>5. upto[i] \in Filling
    BY <1>1, <1>3, <1>7, <2>3, <2>4, PlaceStep
  <2> QED  BY <2>1, <2>5
<1>9. \A i \in 0..last : upto[i] \in Filling
  BY <1>8
<1>10. upto \in [0..last -> Filling]
  BY <1>6, <1>9
<1>11. \A i \in 1..last : Placed(upto[i - 1], upto[i], entries[i], room)
  <2> TAKE i \in 1..last
  <2>1. i - 1 \in 0..last
    BY <1>1
  <2>2. upto[i - 1] \in Filling /\ entries[i] \in RankedClaims
    BY <1>1, <1>9, <2>1
  <2> QED  BY <1>3, <1>7, <2>2, PlaceStep
<1>12. Fills(upto, acc, entries, room, rollUp)
  BY <1>7, <1>10, <1>11 DEF Fills, last, base
<1> QED  BY <1>2, <1>12 DEF last, room
\* What is on a block or dropped from it stays so, and counts.
Grows(acc, new) ==
    /\ On(acc) \subseteq On(new) /\ acc.seen \subseteq new.seen
    /\ acc.used <= new.used /\ acc.dropped <= new.dropped

\* Under a summary that is on the block.
Covered(acc, id) ==
    \E n \in DOMAIN sections : \E s \in EntriesOf(n) : s.id \in On(acc) /\ id \in s.covers

\* What counts as seen is on the block, under a summary that is, or in refused.
Justified(acc, refused) ==
    \A id \in acc.seen : id \in On(acc) \/ Covered(acc, id) \/ id \in refused

IdsOf(n) == {e.id : e \in EntriesOf(n)}

\* A block with n's entries placed, and before.
Filled(acc, new, n, room) ==
    /\ new \in Filling /\ Grows(acc, new)
    /\ new.used <= Larger(acc.used, room)
    /\ IdsOf(n) \subseteq new.seen
    /\ \A refused : /\ Justified(acc, refused)
                    /\ IdsOf(n) \subseteq refused \/ new.dropped = acc.dropped
                    => Justified(new, refused)

\* One entry more.
LEMMA PlaceKeeps ==
    \A n \in DOMAIN sections, acc \in Filling, new \in Filling, room \in Nat : \A entry :
        entry \in EntriesOf(n) /\ entry.chars \in Nat /\ Placed(acc, new, entry, room) =>
            /\ Grows(acc, new) /\ new.used <= Larger(acc.used, room) /\ entry.id \in new.seen
            /\ \A refused : /\ Justified(acc, refused)
                            /\ entry.id \in refused \/ new.dropped = acc.dropped
                            => Justified(new, refused)
<1> SUFFICES ASSUME NEW n \in DOMAIN sections, NEW acc \in Filling, NEW new \in Filling,
                    NEW entry \in EntriesOf(n), NEW room \in Nat,
                    entry.chars \in Nat, Placed(acc, new, entry, room)
             PROVE  /\ Grows(acc, new) /\ new.used <= Larger(acc.used, room) /\ entry.id \in new.seen
                    /\ \A refused : /\ Justified(acc, refused)
                                    /\ entry.id \in refused \/ new.dropped = acc.dropped
                                    => Justified(new, refused)
  BY Zenon
<1>1. acc.used \in Nat /\ acc.header \in Nat /\ acc.dropped \in Nat
  BY DEF Filling
<1>2. CASE PassedOver(acc, new, entry)
  BY <1>1, <1>2 DEF PassedOver, Grows, Larger
<1>3. CASE Dropped(acc, new, entry, room)
  <2>1. On(new) = On(acc) /\ new.seen = acc.seen \cup {entry.id} /\ new.used = acc.used
        /\ new.dropped = acc.dropped + 1
    BY <1>3 DEF Dropped, On
  <2>2. Grows(acc, new) /\ new.used <= Larger(acc.used, room) /\ entry.id \in new.seen
    BY <1>1, <2>1 DEF Grows, Larger
  <2>3. new.dropped # acc.dropped
    BY <1>1, <2>1
  <2>4. ASSUME NEW refused, Justified(acc, refused), entry.id \in refused
        PROVE  Justified(new, refused)
    BY <2>1, <2>4 DEF Justified, Covered
  <2> QED  BY <2>2, <2>3, <2>4
<1>4. CASE PutOn(acc, new, entry, room)
  <2>1. /\ On(new) = On(acc) \cup {entry.id} /\ acc.seen \cup {entry.id} \subseteq new.seen
        /\ new.seen \subseteq acc.seen \cup {entry.id} \cup entry.covers
    BY <1>4 DEF PutOn
  <2>2. Grows(acc, new) /\ new.used <= Larger(acc.used, room) /\ entry.id \in new.seen
    BY <1>1, <1>4, <2>1 DEF Grows, Larger, PutOn
  <2>3. ASSUME NEW refused, Justified(acc, refused)
        PROVE  Justified(new, refused)
    <3>1. \A id : Covered(acc, id) => Covered(new, id)
      BY <2>1 DEF Covered
    <3>2. \A id \in entry.covers : Covered(new, id)
      BY <2>1 DEF Covered
    <3> QED  BY <2>1, <2>3, <3>1, <3>2 DEF Justified
  <2> QED  BY <2>2, <2>3
<1> QED  BY <1>2, <1>3, <1>4 DEF Placed

\* A heading that is charged anew changes nothing else.
LEMMA Headed ==
    \A acc \in Filling : LET base == [acc EXCEPT !.header = HeaderChars]
                         IN  /\ base \in Filling /\ base.header = HeaderChars
                             /\ base.shown = acc.shown /\ base.used = acc.used
                             /\ base.dropped = acc.dropped /\ base.seen = acc.seen
BY ContextLengths DEF Filling

\* A section.
LEMMA SectionFilled ==
    \A n \in DOMAIN sections, acc \in Filling, room \in Nat : \A rollUp, f :
        sections[n].entries \in Seq(RankedClaims) /\ Fills(f, acc, sections[n].entries, room, rollUp)
        => Filled(acc, f[Len(sections[n].entries)], n, room)
<1> SUFFICES ASSUME NEW n \in DOMAIN sections, NEW acc \in Filling, NEW room \in Nat, NEW rollUp, NEW f,
                    sections[n].entries \in Seq(RankedClaims),
                    Fills(f, acc, sections[n].entries, room, rollUp)
             PROVE  Filled(acc, f[Len(sections[n].entries)], n, room)
  OBVIOUS
<1> DEFINE entries == sections[n].entries
           last == Len(entries)
           So(i) == /\ Grows(acc, f[i]) /\ f[i].used <= Larger(acc.used, room)
                    /\ \A j \in 1..i : entries[j].id \in f[i].seen
                    /\ \A refused : /\ Justified(acc, refused)
                                    /\ IdsOf(n) \subseteq refused \/ f[i].dropped = acc.dropped
                                    => Justified(f[i], refused)
           Bad == {i \in 0..last : ~So(i)}
<1>1. /\ last \in Nat /\ DOMAIN entries = 1..last /\ \A i \in 1..last : entries[i] \in RankedClaims
      /\ \A i \in 1..last : entries[i].chars \in Nat
  BY LenProperties, ElementOfSeq, ContextLengths
<1>2. \A i \in 1..last : entries[i] \in EntriesOf(n) /\ entries[i].id \in IdsOf(n)
  BY <1>1 DEF EntriesOf, ToSet, IdsOf
<1>3. /\ f \in [0..last -> Filling] /\ f[0] = [acc EXCEPT !.header = HeaderChars]
      /\ \A i \in 1..last : Placed(f[i - 1], f[i], entries[i], room)
  BY DEF Fills
<1>5. EntriesOf(n) = {entries[i] : i \in 1..last}
  BY <1>1 DEF EntriesOf, ToSet
<1> HIDE DEF last, entries
<1>4. So(0)
  <2>1. /\ f[0].shown = acc.shown /\ f[0].used = acc.used
        /\ f[0].dropped = acc.dropped /\ f[0].seen = acc.seen
    BY <1>3, Headed
  <2>2. On(f[0]) = On(acc)
    BY <2>1 DEF On
  <2>3. Grows(acc, f[0]) /\ f[0].used <= Larger(acc.used, room)
    BY <2>1, <2>2 DEF Grows, Larger, Filling
  <2>4. \A refused : Justified(acc, refused) => Justified(f[0], refused)
    BY <2>1, <2>2 DEF Justified, Covered
  <2> QED  BY <2>3, <2>4
<1>6. ASSUME NEW i \in 1..last, So(i - 1) PROVE So(i)
  <2> DEFINE a == f[i - 1]
             b == f[i]
             e == entries[i]
  <2>1. i - 1 \in 0..last /\ i \in 0..last
    BY <1>1
  <2>2. a \in Filling /\ b \in Filling /\ e \in EntriesOf(n) /\ e.id \in IdsOf(n) /\ e.chars \in Nat
        /\ Placed(a, b, e, room)
    BY <1>1, <1>2, <1>3, <2>1
  <2>3. /\ Grows(a, b) /\ b.used <= Larger(a.used, room) /\ e.id \in b.seen
        /\ \A refused : /\ Justified(a, refused)
                        /\ e.id \in refused \/ b.dropped = a.dropped
                        => Justified(b, refused)
    <3> HIDE DEF a, b, e
    <3>1. n \in DOMAIN sections /\ room \in Nat
      OBVIOUS
    <3>2. \A x \in Filling, y \in Filling : \A z :
             z \in EntriesOf(n) /\ z.chars \in Nat /\ Placed(x, y, z, room) =>
            /\ Grows(x, y) /\ y.used <= Larger(x.used, room) /\ z.id \in y.seen
            /\ \A refused : /\ Justified(x, refused)
                            /\ z.id \in refused \/ y.dropped = x.dropped
                            => Justified(y, refused)
      BY <3>1, PlaceKeeps
    <3> QED  BY <2>2, <3>2
  <2>4. /\ Grows(acc, a) /\ a.used <= Larger(acc.used, room)
        /\ \A j \in 1..(i - 1) : entries[j].id \in a.seen
        /\ \A refused : /\ Justified(acc, refused)
                        /\ IdsOf(n) \subseteq refused \/ a.dropped = acc.dropped
                        => Justified(a, refused)
    BY <1>6
  <2> HIDE DEF a, b
  <2>5. /\ a.used \in Nat /\ b.used \in Nat /\ acc.used \in Nat
        /\ a.dropped \in Nat /\ b.dropped \in Nat /\ acc.dropped \in Nat
    BY <2>2 DEF Filling
  <2>6. Grows(acc, b) /\ b.used <= Larger(acc.used, room)
    BY <2>3, <2>4, <2>5 DEF Grows, Larger
  <2>7. \A j \in 1..i : entries[j].id \in b.seen
    <3> TAKE j \in 1..i
    <3>1. j \in 1..(i - 1) \/ j = i
      BY <1>1
    <3> QED  BY <2>3, <2>4, <3>1 DEF Grows
  <2>8. ASSUME NEW refused, Justified(acc, refused),
               IdsOf(n) \subseteq refused \/ b.dropped = acc.dropped
        PROVE  Justified(b, refused)
    <3>1. b.dropped = acc.dropped => a.dropped = acc.dropped /\ b.dropped = a.dropped
      BY <2>3, <2>4, <2>5 DEF Grows
    <3>2. Justified(a, refused)
      BY <2>4, <2>8, <3>1
    <3> QED  BY <2>2, <2>3, <2>8, <3>1, <3>2
  <2> QED  BY <2>6, <2>7, <2>8 DEF b
<1>7. ASSUME Bad # {} PROVE FALSE
  <2>1. PICK i \in Bad : \A m \in Bad : ~(m < i)
    <3>1. Bad \in SUBSET Nat
      BY <1>1
    <3> HIDE DEF Bad
    <3> QED  BY <1>7, <3>1, LeastIndex
  <2>2. i \in 0..last /\ ~So(i)
    BY <2>1
  <2> HIDE DEF So
  <2>3. i # 0
    BY <1>4, <2>2
  <2>4. i - 1 \in 0..last /\ i \in 1..last /\ i - 1 < i
    BY <1>1, <2>2, <2>3
  <2>5. i - 1 \notin Bad
    BY <2>1, <2>4
  <2>6. So(i - 1)
    BY <2>4, <2>5
  <2> QED  BY <1>6, <2>2, <2>4, <2>6
<1>8. So(last)
  <2> HIDE DEF So
  <2>1. last \in 0..last
    BY <1>1
  <2> QED  BY <1>7, <2>1
<1>9. f[last] \in Filling
  BY <1>1, <1>3
<1>10. IdsOf(n) \subseteq f[last].seen
  BY <1>5, <1>8 DEF IdsOf
<1> QED  BY <1>8, <1>9, <1>10 DEF Filled, last, entries
-----------------------------------------------------------------------------
(* What sections cost *)

\* The sums of the first lengths.
Sums(u, lengths) ==
    /\ u \in [0..Len(lengths) -> Nat] /\ u[0] = 0
    /\ \A i \in 1..Len(lengths) : u[i] = u[i - 1] + lengths[i]
    /\ \A i \in 0..Len(lengths) : u[i] <= u[Len(lengths)]

\* A total is the last of the sums.
LEMMA TotalSums ==
    \A lengths \in Seq(Nat) : \E u : Sums(u, lengths) /\ Total(lengths) = u[Len(lengths)]
<1> SUFFICES ASSUME NEW lengths \in Seq(Nat)
             PROVE  \E u : Sums(u, lengths) /\ Total(lengths) = u[Len(lengths)]
  OBVIOUS
<1> DEFINE n == Len(lengths)
           F(f) == [i \in 0..n |-> IF i = 0 THEN 0 ELSE f[i - 1] + lengths[i]]
           u == CHOOSE f : f = F(f)
<1>1. n \in Nat /\ DOMAIN lengths = 1..n /\ \A i \in 1..n : lengths[i] \in Nat
  BY LenProperties, ElementOfSeq
<1>2. Total(lengths) = u[n]
  BY DEF Total
<1> HIDE DEF n
<1>3. \E f : f = F(f)
  <2> DEFINE g == [i \in 1..n |-> [x \in Nat |-> x + lengths[i]]]
  <2>1. g \in [1..n -> [Nat -> Nat]] /\ 0 \in Nat
    BY <1>1
  <2> HIDE DEF g
  <2>2. PICK f : Runs(f, n, Nat, 0, g)
    BY <1>1, <2>1, Iterated
  <2>3. f \in [0..n -> Nat] /\ f[0] = 0 /\ \A i \in 1..n : f[i] = g[i][f[i - 1]]
    BY <2>2 DEF Runs
  <2>4. \A i \in 1..n : f[i] = f[i - 1] + lengths[i]
    <3> TAKE i \in 1..n
    <3>1. f[i - 1] \in Nat
      BY <1>1, <2>3
    <3> QED  BY <2>3, <3>1 DEF g
  <2>5. \A i \in 0..n : f[i] = IF i = 0 THEN 0 ELSE f[i - 1] + lengths[i]
    BY <1>1, <2>3, <2>4
  <2>6. f = F(f)
    BY <2>3, <2>5
  <2> QED  BY <2>6
<1>4. u = F(u)
  <2> HIDE DEF F
  <2> QED  BY <1>3
<1> HIDE DEF u
<1>5. u[0] = 0 /\ \A i \in 1..n : u[i] = u[i - 1] + lengths[i]
  BY <1>1, <1>4
<1> DEFINE So(i) == u[i] \in Nat /\ \A j \in 0..i : u[j] \in Nat /\ u[j] <= u[i]
           Bad == {i \in 0..n : ~So(i)}
<1>6. So(0)
  BY <1>5
<1>7. ASSUME NEW i \in 1..n, So(i - 1) PROVE So(i)
  <2>1. u[i] = u[i - 1] + lengths[i] /\ u[i - 1] \in Nat /\ lengths[i] \in Nat
    BY <1>1, <1>5, <1>7
  <2>2. ASSUME NEW j \in 0..i PROVE u[j] \in Nat /\ u[j] <= u[i]
    <3>1. j \in 0..(i - 1) \/ j = i
      BY <1>1
    <3>2. CASE j = i
      BY <2>1, <3>2
    <3>3. CASE j \in 0..(i - 1)
      <4>1. u[j] \in Nat /\ u[j] <= u[i - 1]
        BY <1>7, <3>3
      <4> QED  BY <2>1, <4>1
    <3> QED  BY <3>1, <3>2, <3>3
  <2> QED  BY <2>1, <2>2
<1>8. ASSUME Bad # {} PROVE FALSE
  <2>1. PICK i \in Bad : \A m \in Bad : ~(m < i)
    <3>1. Bad \in SUBSET Nat
      BY <1>1
    <3> HIDE DEF Bad
    <3> QED  BY <1>8, <3>1, LeastIndex
  <2>2. i \in 0..n /\ ~So(i)
    BY <2>1
  <2> HIDE DEF So
  <2>3. i # 0
    BY <1>6, <2>2
  <2>4. i - 1 \in 0..n /\ i \in 1..n /\ i - 1 < i
    BY <1>1, <2>2, <2>3
  <2>5. i - 1 \notin Bad
    BY <2>1, <2>4
  <2>6. So(i - 1)
    BY <2>4, <2>5
  <2> QED  BY <1>7, <2>2, <2>4, <2>6
<1>9. \A i \in 0..n : So(i)
  BY <1>8
<1>10. u \in [0..n -> Nat] /\ \A i \in 0..n : u[i] <= u[n]
  <2>1. n \in 0..n
    BY <1>1
  <2>2. \A i \in 0..n : u[i] \in Nat
    BY <1>9
  <2>3. u \in [0..n -> Nat]
    BY <1>4, <2>2
  <2> QED  BY <1>9, <2>1, <2>3
<1> QED  BY <1>2, <1>5, <1>10 DEF Sums, n
\* The lengths of some claims.
LEMMA LengthsSeq ==
    \A entries \in Seq(RankedClaims) :
        /\ Lengths(entries) \in Seq(Nat) /\ Len(Lengths(entries)) = Len(entries)
        /\ \A i \in 1..Len(entries) : Lengths(entries)[i] = entries[i].chars
<1> SUFFICES ASSUME NEW entries \in Seq(RankedClaims)
             PROVE  /\ Lengths(entries) \in Seq(Nat) /\ Len(Lengths(entries)) = Len(entries)
                    /\ \A i \in 1..Len(entries) : Lengths(entries)[i] = entries[i].chars
  OBVIOUS
<1> DEFINE n == Len(entries)
           lengths == Lengths(entries)
<1>1. /\ n \in Nat /\ DOMAIN entries = 1..n
      /\ \A i \in 1..n : entries[i].chars \in Nat
  BY LenProperties, ElementOfSeq, ContextLengths
<1>2. lengths = [i \in 1..n |-> entries[i].chars]
  BY <1>1 DEF Lengths
<1> HIDE DEF lengths, n
<1>3. lengths \in Seq(Nat) /\ Len(lengths) = n
  <2>1. lengths \in [1..n -> Nat]
    BY <1>1, <1>2
  <2>2. lengths \in Seq(Nat)
    BY <1>1, <2>1, SeqDef
  <2>3. DOMAIN lengths = 1..n
    BY <1>2
  <2> QED  BY <1>1, <2>2, <2>3, LenProperties
<1>4. \A i \in 1..n : lengths[i] = entries[i].chars
  BY <1>2
<1> QED  BY <1>3, <1>4 DEF lengths, n

\* What was on the block when part of a section was filled is there in the end.
LEMMA FillGrows ==
    \A acc \in Filling, room \in Nat, entries \in Seq(RankedClaims) : \A rollUp, f :
        Fills(f, acc, entries, room, rollUp)
        => \A i \in 0..Len(entries) : On(f[i]) \subseteq On(f[Len(entries)])
<1> SUFFICES ASSUME NEW acc \in Filling, NEW room \in Nat, NEW entries \in Seq(RankedClaims),
                    NEW rollUp, NEW f, Fills(f, acc, entries, room, rollUp)
             PROVE  \A i \in 0..Len(entries) : On(f[i]) \subseteq On(f[Len(entries)])
  OBVIOUS
<1> DEFINE n == Len(entries)
           So(i) == \A j \in 0..i : On(f[j]) \subseteq On(f[i])
           Bad == {i \in 0..n : ~So(i)}
<1>1. n \in Nat /\ \A i \in 1..n : Placed(f[i - 1], f[i], entries[i], room)
  BY LenProperties DEF Fills
<1> HIDE DEF n
<1>2. ASSUME NEW i \in 1..n, So(i - 1) PROVE So(i)
  <2>1. On(f[i - 1]) \subseteq On(f[i])
    <3>1. Placed(f[i - 1], f[i], entries[i], room)
      BY <1>1
    <3>2. \A a, b, e : Placed(a, b, e, room) => On(a) \subseteq On(b)
      BY DEF Placed, PassedOver, Dropped, PutOn, On
    <3> QED  BY <3>1, <3>2
  <2>2. ASSUME NEW j \in 0..i PROVE On(f[j]) \subseteq On(f[i])
    <3>1. j \in 0..(i - 1) \/ j = i
      BY <1>1
    <3> QED  BY <1>2, <2>1, <3>1
  <2> QED  BY <2>2
<1>3. ASSUME Bad # {} PROVE FALSE
  <2>1. PICK i \in Bad : \A m \in Bad : ~(m < i)
    <3>1. Bad \in SUBSET Nat
      BY <1>1
    <3> HIDE DEF Bad
    <3> QED  BY <1>3, <3>1, LeastIndex
  <2>2. i \in 0..n /\ ~So(i)
    BY <2>1
  <2>3. i # 0
    BY <2>2
  <2> HIDE DEF So
  <2>4. i - 1 \in 0..n /\ i \in 1..n /\ i - 1 < i
    BY <1>1, <2>2, <2>3
  <2>5. i - 1 \notin Bad
    BY <2>1, <2>4
  <2>6. So(i - 1)
    BY <2>4, <2>5
  <2> QED  BY <1>2, <2>2, <2>4, <2>6
<1>4. n \in 0..n
  BY <1>1
<1>5. So(n)
  <2> HIDE DEF So
  <2> QED  BY <1>3, <1>4
<1> QED  BY <1>5 DEF n

\* What an entry costs: nothing, or its length and the heading's.
LEMMA PlaceCosts ==
    \A a \in Filling, room \in Nat, e \in RankedClaims : \A b :
        Placed(a, b, e, room) =>
            \/ b.used = a.used /\ b.header = a.header
            \/ b.used = a.used + a.header + e.chars /\ b.header = 0 /\ e.id \in On(b)
BY DEF Placed, PassedOver, Dropped, PutOn

\* Adding an entry's length to what was used and what is still to come.
LEMMA Adding ==
    \A used, header, chars, before, heading, sum, more, room, total \in Nat :
        used + header <= before + heading + sum /\ more = sum + chars =>
            /\ used + header <= before + heading + more
            /\ (used + header + chars) + 0 <= before + heading + more
            /\ more <= total /\ before + heading + total <= room => ~(used + header + chars > room)
OBVIOUS

\* The heading of a section that shows something.
HeadingOver(entries, shown) ==
    IF \E i \in 1..Len(entries) : entries[i].id \in shown THEN HeaderChars ELSE 0

\* A section takes no more than what it shows and its heading.
LEMMA SectionCost ==
    \A acc \in Filling, room \in Nat, entries \in Seq(RankedClaims), lengths \in Seq(Nat) :
        \A rollUp, f, shown :
            /\ Fills(f, acc, entries, room, rollUp)
            /\ On(f[Len(entries)]) \subseteq shown /\ Len(lengths) = Len(entries)
            /\ \A i \in 1..Len(entries) : entries[i].id \in shown => lengths[i] = entries[i].chars
            => f[Len(entries)].used <= acc.used + Total(lengths) + HeadingOver(entries, shown)
<1> TAKE acc \in Filling, room \in Nat, entries \in Seq(RankedClaims), lengths \in Seq(Nat)
<1> TAKE rollUp, f, shown
<1> HAVE /\ Fills(f, acc, entries, room, rollUp)
         /\ On(f[Len(entries)]) \subseteq shown /\ Len(lengths) = Len(entries)
         /\ \A i \in 1..Len(entries) : entries[i].id \in shown => lengths[i] = entries[i].chars
<1> DEFINE n == Len(entries)
           some == \E i \in 1..n : entries[i].id \in shown
<1>1. PICK u : Sums(u, lengths) /\ Total(lengths) = u[n]
  BY TotalSums
<1>2. /\ n \in Nat /\ \A i \in 1..n : entries[i] \in RankedClaims /\ entries[i].chars \in Nat
      /\ \A i \in 1..n : lengths[i] \in Nat
  BY LenProperties, ElementOfSeq, ContextLengths
<1>3. /\ f \in [0..n -> Filling] /\ f[0] = [acc EXCEPT !.header = HeaderChars]
      /\ \A i \in 1..n : Placed(f[i - 1], f[i], entries[i], room)
  BY DEF Fills
<1>4. \A i \in 0..n : On(f[i]) \subseteq shown
  BY FillGrows
<1>5. /\ u \in [0..n -> Nat] /\ u[0] = 0
      /\ \A i \in 1..n : u[i] = u[i - 1] + lengths[i]
  BY <1>1 DEF Sums
<1>6. \A i \in 1..n : entries[i].id \in shown => lengths[i] = entries[i].chars
  OBVIOUS
<1>7. HeaderChars \in Nat /\ acc.used \in Nat
  BY ContextLengths DEF Filling
<1> HIDE DEF n, some
<1> DEFINE So(i) == /\ f[i].used + f[i].header <= acc.used + HeaderChars + u[i]
                    /\ \/ f[i].header = HeaderChars /\ f[i].used <= acc.used + u[i]
                       \/ some
           Bad == {i \in 0..n : ~So(i)}
<1>8. So(0)
  BY <1>3, <1>5, <1>7, Headed
<1>9. ASSUME NEW i \in 1..n, So(i - 1) PROVE So(i)
  <2> DEFINE a == f[i - 1]
             b == f[i]
             e == entries[i]
  <2>1. i - 1 \in 0..n /\ i \in 0..n
    BY <1>2
  <2>2. /\ a \in Filling /\ b \in Filling /\ e \in RankedClaims /\ e.chars \in Nat
        /\ Placed(a, b, e, room) /\ On(b) \subseteq shown
        /\ lengths[i] \in Nat /\ u[i - 1] \in Nat /\ u[i] = u[i - 1] + lengths[i]
        /\ e.id \in shown => lengths[i] = e.chars /\ some
    BY <1>2, <1>3, <1>4, <1>5, <1>6, <2>1 DEF some
  <2>3. /\ a.used + a.header <= acc.used + HeaderChars + u[i - 1]
        /\ \/ a.header = HeaderChars /\ a.used <= acc.used + u[i - 1]
           \/ some
    BY <1>9
  <2> HIDE DEF a, b, e
  <2>4. a.used \in Nat /\ a.header \in Nat /\ b.used \in Nat /\ b.header \in Nat
    BY <2>2 DEF Filling
  <2>5. \/ b.used = a.used /\ b.header = a.header
        \/ b.used = a.used + a.header + e.chars /\ b.header = 0 /\ e.id \in On(b)
    BY <2>2, PlaceCosts
  <2>8. /\ u[i] \in Nat /\ u[i - 1] <= u[i]
        /\ a.used + a.header <= acc.used + HeaderChars + u[i]
    <3> DEFINE x == u[i - 1]
               y == lengths[i]
    <3>1. x \in Nat /\ y \in Nat /\ u[i] = x + y /\ a.used + a.header <= acc.used + HeaderChars + x
      BY <2>2, <2>3
    <3>2. x <= x + y /\ x + y \in Nat
      BY <3>1
    <3>3. u[i] \in Nat
      BY <3>1, <3>2
    <3> HIDE DEF x, y
    <3>4. a.used + a.header <= acc.used + HeaderChars + u[i]
      BY <1>7, <2>4, <3>1, <3>3, Adding
    <3> QED  BY <3>1, <3>2, <3>3, <3>4 DEF x
  <2>6. CASE b.used = a.used /\ b.header = a.header
    <3>1. b.used + b.header <= acc.used + HeaderChars + u[i]
      BY <2>6, <2>8
    <3>2. CASE some
      BY <3>1, <3>2 DEF b
    <3>3. CASE a.header = HeaderChars /\ a.used <= acc.used + u[i - 1]
      <4>1. a.used <= acc.used + u[i]
        <5> DEFINE x == u[i - 1]
                   y == u[i]
        <5>1. x \in Nat /\ y \in Nat /\ x <= y /\ a.used <= acc.used + x
          BY <2>2, <2>8, <3>3
        <5> HIDE DEF x, y
        <5>2. a.used <= acc.used + y
          BY <1>7, <2>4, <5>1
        <5> QED  BY <5>2 DEF y
      <4> QED  BY <2>6, <3>1, <3>3, <4>1 DEF b
    <3> QED  BY <2>3, <3>2, <3>3
  <2>7. CASE b.used = a.used + a.header + e.chars /\ b.header = 0 /\ e.id \in On(b)
    <3>1. e.id \in shown
      BY <2>2, <2>7
    <3>2. some /\ u[i] = u[i - 1] + e.chars
      BY <2>2, <3>1
    <3>3. (a.used + a.header + e.chars) + 0 <= acc.used + HeaderChars + u[i]
      <4> DEFINE x == u[i - 1]
                 y == u[i]
                 c == e.chars
      <4>1. x \in Nat /\ y \in Nat /\ c \in Nat /\ y = x + c
            /\ a.used + a.header <= acc.used + HeaderChars + x
        BY <2>2, <2>3, <2>8, <3>2
      <4> HIDE DEF x, y, c
      <4>2. (a.used + a.header + c) + 0 <= acc.used + HeaderChars + y
        BY <1>7, <2>4, <4>1, Adding
      <4> QED  BY <4>2 DEF y, c
    <3> QED  BY <2>7, <3>2, <3>3 DEF b
  <2> QED  BY <2>5, <2>6, <2>7
<1>10. ASSUME Bad # {} PROVE FALSE
  <2>1. PICK i \in Bad : \A m \in Bad : ~(m < i)
    <3>1. Bad \in SUBSET Nat
      BY <1>2
    <3> HIDE DEF Bad
    <3> QED  BY <1>10, <3>1, LeastIndex
  <2>2. i \in 0..n /\ ~So(i)
    BY <2>1
  <2> HIDE DEF So
  <2>3. i # 0
    BY <1>8, <2>2
  <2>4. i - 1 \in 0..n /\ i \in 1..n /\ i - 1 < i
    BY <1>2, <2>2, <2>3
  <2>5. i - 1 \notin Bad
    BY <2>1, <2>4
  <2>6. So(i - 1)
    BY <2>4, <2>5
  <2> QED  BY <1>9, <2>2, <2>4, <2>6
<1>11. n \in 0..n
  BY <1>2
<1>12. So(n)
  <2> HIDE DEF So
  <2> QED  BY <1>10, <1>11
<1>13. f[n].used \in Nat /\ f[n].header \in Nat /\ u[n] \in Nat
  BY <1>3, <1>5, <1>11 DEF Filling
<1>14. f[n].used <= acc.used + u[n] + IF some THEN HeaderChars ELSE 0
  <2> DEFINE used == f[n].used
             header == f[n].header
             before == acc.used
             sum == u[n]
  <2>1. /\ used + header <= before + HeaderChars + sum
        /\ \/ header = HeaderChars /\ used <= before + sum
           \/ some
    BY <1>12
  <2>2. used \in Nat /\ header \in Nat /\ sum \in Nat /\ before \in Nat /\ HeaderChars \in Nat
    BY <1>7, <1>13
  <2> HIDE DEF used, header, before, sum
  <2>3. used <= before + sum + IF some THEN HeaderChars ELSE 0
    <3>1. CASE some
      BY <2>1, <2>2, <3>1
    <3>2. CASE ~some
      BY <2>1, <2>2, <3>2
    <3> QED  BY <3>1, <3>2
  <2> QED  BY <2>3 DEF used, before, sum
<1> QED  BY <1>1, <1>14 DEF n, some, HeadingOver

\* A section that all of it has room for drops nothing.
LEMMA SectionFits ==
    \A acc \in Filling, room \in Nat, entries \in Seq(RankedClaims) : \A rollUp, f :
        /\ Fills(f, acc, entries, room, rollUp)
        /\ acc.used + HeaderChars + Total(Lengths(entries)) <= room
        => f[Len(entries)].dropped = acc.dropped
<1> SUFFICES ASSUME NEW acc \in Filling, NEW room \in Nat, NEW entries \in Seq(RankedClaims),
                    NEW rollUp, NEW f, Fills(f, acc, entries, room, rollUp),
                    acc.used + HeaderChars + Total(Lengths(entries)) <= room
             PROVE  f[Len(entries)].dropped = acc.dropped
  OBVIOUS
<1> DEFINE n == Len(entries)
           lengths == Lengths(entries)
<1>1. /\ n \in Nat /\ DOMAIN entries = 1..n
      /\ \A i \in 1..n : entries[i] \in RankedClaims /\ entries[i].chars \in Nat
  BY LenProperties, ElementOfSeq, ContextLengths
<1>2. lengths \in Seq(Nat) /\ Len(lengths) = n /\ \A i \in 1..n : lengths[i] = entries[i].chars
  BY <1>1, LengthsSeq
<1>3. PICK u : Sums(u, lengths) /\ Total(lengths) = u[n]
  BY <1>2, TotalSums
<1>4. /\ f \in [0..n -> Filling] /\ f[0] = [acc EXCEPT !.header = HeaderChars]
      /\ \A i \in 1..n : Placed(f[i - 1], f[i], entries[i], room)
  BY DEF Fills
<1>5. /\ u \in [0..n -> Nat] /\ u[0] = 0
      /\ \A i \in 1..n : u[i] = u[i - 1] + entries[i].chars
      /\ \A i \in 0..n : u[i] <= u[n]
  BY <1>2, <1>3 DEF Sums
<1>6. HeaderChars \in Nat /\ acc.used \in Nat /\ acc.used + HeaderChars + u[n] <= room
  BY <1>3, ContextLengths DEF Filling
<1> HIDE DEF n, lengths
<1> DEFINE So(i) == /\ f[i].used + f[i].header <= acc.used + HeaderChars + u[i]
                    /\ f[i].dropped = acc.dropped
           Bad == {i \in 0..n : ~So(i)}
<1>8. So(0)
  BY <1>4, <1>5, <1>6, Headed
<1>9. ASSUME NEW i \in 1..n, So(i - 1) PROVE So(i)
  <2> DEFINE a == f[i - 1]
             b == f[i]
             e == entries[i]
  <2>1. i - 1 \in 0..n /\ i \in 0..n /\ n \in 0..n
    BY <1>1
  <2>2. /\ a \in Filling /\ b \in Filling /\ e \in RankedClaims /\ e.chars \in Nat
        /\ Placed(a, b, e, room)
        /\ u[i - 1] \in Nat /\ u[i] = u[i - 1] + e.chars /\ u[i] <= u[n] /\ u[n] \in Nat
    BY <1>1, <1>4, <1>5, <2>1
  <2>3. a.used + a.header <= acc.used + HeaderChars + u[i - 1] /\ a.dropped = acc.dropped
    BY <1>9
  <2> HIDE DEF a, b, e
  <2>4. a.used \in Nat /\ a.header \in Nat /\ b.used \in Nat /\ b.header \in Nat
    BY <2>2 DEF Filling
  <2>9. /\ ~(a.used + a.header + e.chars > room)
        /\ a.used + a.header <= acc.used + HeaderChars + u[i]
        /\ (a.used + a.header + e.chars) + 0 <= acc.used + HeaderChars + u[i]
    <3> DEFINE x == u[i - 1]
               y == u[i]
               t == u[n]
               c == e.chars
    <3>1. /\ x \in Nat /\ y \in Nat /\ c \in Nat /\ t \in Nat /\ y = x + c /\ y <= t
          /\ a.used + a.header <= acc.used + HeaderChars + x
          /\ acc.used + HeaderChars + t <= room
      BY <1>6, <2>2, <2>3
    <3> HIDE DEF x, y, c, t
    <3>2. /\ ~(a.used + a.header + c > room)
          /\ a.used + a.header <= acc.used + HeaderChars + y
          /\ (a.used + a.header + c) + 0 <= acc.used + HeaderChars + y
      BY <1>6, <2>4, <3>1, Adding
    <3> QED  BY <3>2 DEF y, c
  <2>5. ~(a.used + a.header + e.chars > room)
    BY <2>9
  <2>6. PassedOver(a, b, e) \/ PutOn(a, b, e, room)
    BY <2>2, <2>5 DEF Placed, Dropped
  <2>7. CASE PassedOver(a, b, e)
    <3>1. b = a
      BY <2>7 DEF PassedOver
    <3>2. b.used + b.header <= acc.used + HeaderChars + u[i] /\ b.dropped = acc.dropped
      BY <2>3, <2>9, <3>1
    <3> QED  BY <3>2 DEF b
  <2>8. CASE PutOn(a, b, e, room)
    <3>1. b.used = a.used + a.header + e.chars /\ b.header = 0 /\ b.dropped = a.dropped
      BY <2>8 DEF PutOn
    <3>2. b.used + b.header <= acc.used + HeaderChars + u[i] /\ b.dropped = acc.dropped
      BY <2>3, <2>9, <3>1
    <3> QED  BY <3>2 DEF b
  <2> QED  BY <2>6, <2>7, <2>8
<1>10. ASSUME Bad # {} PROVE FALSE
  <2>1. PICK i \in Bad : \A m \in Bad : ~(m < i)
    <3>1. Bad \in SUBSET Nat
      BY <1>1
    <3> HIDE DEF Bad
    <3> QED  BY <1>10, <3>1, LeastIndex
  <2>2. i \in 0..n /\ ~So(i)
    BY <2>1
  <2> HIDE DEF So
  <2>3. i # 0
    BY <1>8, <2>2
  <2>4. i - 1 \in 0..n /\ i \in 1..n /\ i - 1 < i
    BY <1>1, <2>2, <2>3
  <2>5. i - 1 \notin Bad
    BY <2>1, <2>4
  <2>6. So(i - 1)
    BY <2>4, <2>5
  <2> QED  BY <1>9, <2>2, <2>4, <2>6
<1>11. n \in 0..n
  BY <1>1
<1>12. So(n)
  <2> HIDE DEF So
  <2> QED  BY <1>10, <1>11
<1> QED  BY <1>12 DEF n
-----------------------------------------------------------------------------
(* The sections *)

\* The live claims of some kinds.
OfKinds(kinds) == {m \in ToSet(memories) : m.kind \in kinds}

\* The live claims, each under its own id.
Ranking ==
    /\ memories \in Seq(RankedClaims)
    /\ \A i, j \in DOMAIN memories : memories[i].id = memories[j].id => i = j

\* lookup_section lists claims of the kinds it asks for.
LEMMA LookupSeq ==
    \A kinds, tag : Ranking => Lookup(kinds, tag) \in Seq(OfKinds(kinds))
<1> SUFFICES ASSUME NEW kinds, NEW tag, Ranking
             PROVE  Lookup(kinds, tag) \in Seq(OfKinds(kinds))
  OBVIOUS
<1> DEFINE places == {i \in DOMAIN memories :
                        memories[i].kind \in kinds /\ (tag = None \/ tag \in memories[i].tags)}
           Y == {memories[i] : i \in DOMAIN memories \cap places}
<1>1. Y \subseteq OfKinds(kinds)
  BY DEF OfKinds, ToSet
<1>2. Lookup(kinds, tag) = Picked(memories, places)
  BY DEF Lookup
<1> HIDE DEF places
<1>3. Picked(memories, places) \in Seq(Y)
  BY PickedSeq DEF Ranking
<1> HIDE DEF Y
<1> QED  BY <1>1, <1>2, <1>3, SeqMonotonic

\* Taking turns by tag keeps to the claims there are.
LEMMA CapByTagSeq ==
    \A X : \A records \in Seq(X) : \A cap : CapByTag(records, cap) \in Seq(X)
<1>1. ASSUME NEW X, NEW records \in Seq(X), NEW places
      PROVE  Picked(records, places) \in Seq(X)
  <2> DEFINE Y == {records[i] : i \in DOMAIN records \cap places}
  <2>1. Y \subseteq X
    BY LenProperties, ElementOfSeq
  <2>2. Picked(records, places) \in Seq(Y)
    BY PickedSeq
  <2> HIDE DEF Y
  <2> QED  BY <2>1, <2>2, SeqMonotonic
<1>2. ASSUME NEW X, NEW s \in Seq(X), NEW t \in Seq(X)
      PROVE  s \o t \in Seq(X)
  BY <1>2, ConcatProperties
<1> QED  BY <1>1, <1>2 DEF CapByTag

\* What a search finds is live.
LEMMA SearchSeq ==
    \A X : \A ids \in Seq(X) : Ranking => SearchSection(ids) \in Seq(ToSet(memories))
<1> SUFFICES ASSUME NEW X, NEW ids \in Seq(X), Ranking
             PROVE  SearchSection(ids) \in Seq(ToSet(memories))
  OBVIOUS
<1> DEFINE at(id) == {i \in DOMAIN memories : memories[i].id = id}
           places == {j \in DOMAIN ids : at(ids[j]) # {}}
           live == Picked(ids, places)
           found == [j \in DOMAIN live |-> memories[CHOOSE i \in at(live[j]) : TRUE]]
           Y == {ids[j] : j \in DOMAIN ids \cap places}
           n == Len(live)
<1>1. SearchSection(ids) = FirstOf(found, RelevantK)
  BY DEF SearchSection
<1>2. \A y \in Y : at(y) # {}
  OBVIOUS
<1>3. live \in Seq(Y)
  <2> HIDE DEF places
  <2> QED  BY PickedSeq
<1>4. n \in Nat /\ DOMAIN live = 1..n /\ \A j \in 1..n : live[j] \in Y
  <2> HIDE DEF live, Y
  <2> QED  BY <1>3, LenProperties, ElementOfSeq
<1> HIDE DEF live, Y, n
<1>5. \A j \in DOMAIN live : memories[CHOOSE i \in at(live[j]) : TRUE] \in ToSet(memories)
  <2> TAKE j \in DOMAIN live
  <2>1. at(live[j]) # {} /\ at(live[j]) \subseteq DOMAIN memories
    BY <1>2, <1>4
  <2> DEFINE i == CHOOSE i \in at(live[j]) : TRUE
  <2> HIDE DEF at
  <2>2. i \in at(live[j])
    BY <2>1
  <2> HIDE DEF i
  <2>3. memories[i] \in ToSet(memories)
    BY <2>1, <2>2 DEF ToSet
  <2> QED  BY <2>3 DEF i
<1>6. found \in [1..n -> ToSet(memories)]
  <2> HIDE DEF at
  <2> QED  BY <1>4, <1>5
<1> HIDE DEF found
<1>7. found \in Seq(ToSet(memories))
  BY <1>4, <1>6, SeqDef
<1> QED  BY <1>1, <1>7, FirstOfSeq, ContextLengths
\* What the four queries answer.
SoundSections(ss) ==
    /\ Len(ss) = 4 /\ DOMAIN ss = 1..4
    /\ ss[1].entries \in Seq(OfKinds({"instruction"})) /\ ss[1].reserve = 0
    /\ ss[2].entries \in Seq(OfKinds({"fact"})) /\ ss[2].reserve = 0
    /\ ss[3].entries \in Seq(ToSet(memories)) /\ ss[3].reserve = 0
    /\ ss[4].entries \in Seq(OfKinds({"lesson"})) /\ ss[4].reserve \in Nat

\* The sections as run reads them.
LEMMA SectionsRead ==
    \A query \in Queries, budget \in Nat : Ranking => SoundSections(Sections(query, budget))
<1> SUFFICES ASSUME NEW query \in Queries, NEW budget \in Nat, Ranking
             PROVE  SoundSections(Sections(query, budget))
  OBVIOUS
<1> DEFINE relevant == IF query # None THEN SearchSection(query)
                       ELSE FirstOf(Lookup({"fact", "summary"}, None), RelevantUnaimedK)
           lessons == FirstOf(CapByTag(Lookup({"lesson"}, None), LessonsPerTag), LessonsK)
           instructions == Lookup({"instruction"}, None)
           profile == Lookup({"fact"}, "identity")
           ss == Sections(query, budget)
<1>1. instructions \in Seq(OfKinds({"instruction"})) /\ profile \in Seq(OfKinds({"fact"}))
  BY LookupSeq
<1>2. relevant \in Seq(ToSet(memories))
  <2>1. CASE query # None
    <3>1. query \in Seq(FoundIds)
      <4>1. \A q \in Queries : q = None \/ q \in Seq(FoundIds)
        BY ContextAssumption
      <4> QED  BY <2>1, <4>1
    <3>2. SearchSection(query) \in Seq(ToSet(memories))
      BY <3>1, SearchSeq
    <3> QED  BY <2>1, <3>2
  <2>2. CASE query = None
    <3> DEFINE kinds == {"fact", "summary"}
               s == Lookup(kinds, None)
    <3>1. OfKinds(kinds) \subseteq ToSet(memories)
      BY DEF OfKinds
    <3>2. s \in Seq(OfKinds(kinds))
      <4> HIDE DEF kinds
      <4> QED  BY LookupSeq
    <3> HIDE DEF s
    <3>3. FirstOf(s, RelevantUnaimedK) \in Seq(OfKinds(kinds))
      <4> HIDE DEF kinds
      <4> QED  BY <3>2, FirstOfSeq, ContextLengths
    <3> HIDE DEF kinds
    <3>4. FirstOf(s, RelevantUnaimedK) \in Seq(ToSet(memories))
      BY <3>1, <3>3, SeqMonotonic
    <3> QED  BY <2>2, <3>4 DEF s, kinds
  <2> QED  BY <2>1, <2>2
<1>3. lessons \in Seq(OfKinds({"lesson"}))
  <2> DEFINE s == Lookup({"lesson"}, None)
             Y == OfKinds({"lesson"})
  <2>1. s \in Seq(Y)
    BY LookupSeq
  <2> HIDE DEF s, Y
  <2>2. CapByTag(s, LessonsPerTag) \in Seq(Y)
    BY <2>1, CapByTagSeq
  <2>3. FirstOf(CapByTag(s, LessonsPerTag), LessonsK) \in Seq(Y)
    BY <2>2, FirstOfSeq, ContextLengths
  <2> QED  BY <2>3 DEF s, Y
<1>4. LessonsReserve(budget) \in Nat
  BY ContextLengths DEF LessonsReserve, Smaller
<1>5. ss = << [entries |-> instructions, reserve |-> 0], [entries |-> profile, reserve |-> 0],
              [entries |-> relevant, reserve |-> 0],
              [entries |-> lessons, reserve |-> LessonsReserve(budget)] >>
  BY DEF Sections
<1> HIDE DEF instructions, profile, relevant, lessons
<1>6. /\ Len(ss) = 4 /\ DOMAIN ss = 1..4
      /\ ss[1] = [entries |-> instructions, reserve |-> 0] /\ ss[2] = [entries |-> profile, reserve |-> 0]
      /\ ss[3] = [entries |-> relevant, reserve |-> 0]
      /\ ss[4] = [entries |-> lessons, reserve |-> LessonsReserve(budget)]
  BY <1>5
<1> HIDE DEF ss
<1>7. /\ ss[1].entries = instructions /\ ss[1].reserve = 0
      /\ ss[2].entries = profile /\ ss[2].reserve = 0
      /\ ss[3].entries = relevant /\ ss[3].reserve = 0
      /\ ss[4].entries = lessons /\ ss[4].reserve = LessonsReserve(budget)
  BY <1>6
<1> QED  BY <1>1, <1>2, <1>3, <1>4, <1>6, <1>7 DEF SoundSections, ss

\* What the proofs below use of the sections.
LEMMA SectionFacts ==
    Ranking /\ SoundSections(sections) =>
        /\ Len(sections) = 4 /\ DOMAIN sections = 1..4
        /\ \A n \in 1..4 : /\ sections[n].entries \in Seq(RankedClaims)
                            /\ EntriesOf(n) \subseteq ToSet(memories)
                            /\ Held(sections[n]) \in Nat
        /\ \A n \in 1..3 : Held(sections[n]) = 0
<1> SUFFICES ASSUME Ranking, SoundSections(sections)
             PROVE  /\ Len(sections) = 4 /\ DOMAIN sections = 1..4
                    /\ \A n \in 1..4 : /\ sections[n].entries \in Seq(RankedClaims)
                                        /\ EntriesOf(n) \subseteq ToSet(memories)
                                        /\ Held(sections[n]) \in Nat
                    /\ \A n \in 1..3 : Held(sections[n]) = 0
  OBVIOUS
<1>1. Len(sections) = 4 /\ DOMAIN sections = 1..4
  BY DEF SoundSections
<1>2. \A kinds : OfKinds(kinds) \subseteq ToSet(memories)
  BY DEF OfKinds
<1>3. ASSUME NEW s, NEW Y, s \in Seq(Y), Y \subseteq ToSet(memories)
      PROVE  s \in Seq(ToSet(memories))
  BY <1>3, SeqMonotonic
<1>4. ASSUME NEW n \in 1..4
      PROVE  sections[n].entries \in Seq(ToSet(memories)) /\ sections[n].reserve \in Nat
  <2>1. n = 1 \/ n = 2 \/ n = 3 \/ n = 4
    OBVIOUS
  <2> QED  BY <1>2, <1>3, <2>1 DEF SoundSections
<1>5. ToSet(memories) \subseteq RankedClaims
  <2>1. Len(memories) \in Nat /\ DOMAIN memories = 1..Len(memories)
        /\ \A i \in 1..Len(memories) : memories[i] \in RankedClaims
    BY LenProperties, ElementOfSeq DEF Ranking
  <2> QED  BY <2>1 DEF ToSet
<1>6. ASSUME NEW n \in 1..4
      PROVE  /\ sections[n].entries \in Seq(RankedClaims)
             /\ EntriesOf(n) \subseteq ToSet(memories)
             /\ Held(sections[n]) \in Nat
  <2> DEFINE entries == sections[n].entries
  <2>1. entries \in Seq(ToSet(memories)) /\ sections[n].reserve \in Nat
    BY <1>4
  <2> HIDE DEF entries
  <2>2. entries \in Seq(RankedClaims)
    BY <1>5, <2>1, SeqMonotonic
  <2>3. ToSet(entries) \subseteq ToSet(memories)
    <3>1. Len(entries) \in Nat /\ DOMAIN entries = 1..Len(entries)
          /\ \A i \in 1..Len(entries) : entries[i] \in ToSet(memories)
      BY <2>1, LenProperties, ElementOfSeq
    <3>2. \A i \in DOMAIN entries : entries[i] \in ToSet(memories)
      BY <3>1
    <3>3. ToSet(entries) = {entries[i] : i \in DOMAIN entries}
      BY DEF ToSet
    <3> QED  BY <3>2, <3>3
  <2>4. HeaderChars + Total(Lengths(entries)) \in Nat
    <3> DEFINE lengths == Lengths(entries)
    <3>1. lengths \in Seq(Nat)
      BY <2>2, LengthsSeq
    <3> HIDE DEF lengths
    <3>2. PICK u : Sums(u, lengths) /\ Total(lengths) = u[Len(lengths)]
      BY <3>1, TotalSums
    <3>3. Total(lengths) \in Nat
      <4>1. Len(lengths) \in 0..Len(lengths)
        BY <3>1, LenProperties
      <4> QED  BY <3>2, <4>1 DEF Sums
    <3> QED  BY <3>3, ContextLengths DEF lengths
  <2>5. Held(sections[n]) \in Nat
    BY <2>1, <2>4 DEF Held, Smaller, entries
  <2> QED  BY <2>2, <2>3, <2>5 DEF EntriesOf, entries
<1>7. ASSUME NEW n \in 1..3 PROVE Held(sections[n]) = 0
  <2>1. sections[n].reserve = 0
    BY DEF SoundSections
  <2> QED  BY <2>1 DEF Held
<1> QED  BY <1>1, <1>6, <1>7

\* The room the sections have: only Lessons holds some back, from Profile and
\* Relevant.
LEMMA Rooms ==
    Ranking /\ SoundSections(sections) =>
        \A budget \in Nat :
            /\ \A n \in 1..4 : Room(n, budget) \in Nat /\ Room(n, budget) <= budget
            /\ Room(4, budget) = budget
            /\ \A n \in 2..3 : Held(sections[4]) <= budget
                               => Room(n, budget) = budget - Held(sections[4])
<1> SUFFICES ASSUME Ranking, SoundSections(sections), NEW budget \in Nat
             PROVE  /\ \A n \in 1..4 : Room(n, budget) \in Nat /\ Room(n, budget) <= budget
                    /\ Room(4, budget) = budget
                    /\ \A n \in 2..3 : Held(sections[4]) <= budget
                                       => Room(n, budget) = budget - Held(sections[4])
  OBVIOUS
<1>1. /\ Len(sections) = 4 /\ Held(sections[3]) = 0 /\ Held(sections[4]) \in Nat
      /\ \A n \in 1..4 : Held(sections[n]) \in Nat
  BY SectionFacts
<1>2. ASSUME NEW n \in 2..4
      PROVE  Total([i \in 1..(Len(sections) - n) |-> Held(sections[n + i])]) =
               IF n = 4 THEN 0 ELSE Held(sections[4])
  <2> DEFINE m == Len(sections) - n
             after == [i \in 1..m |-> Held(sections[n + i])]
  <2>1. m \in Nat /\ m = 4 - n /\ \A i \in 1..m : n + i \in 1..4
    BY <1>1
  <2>2. after \in [1..m -> Nat]
    BY <1>1, <2>1
  <2>3. \A i \in 1..m : after[i] = Held(sections[n + i])
    OBVIOUS
  <2> HIDE DEF after, m
  <2>4. after \in Seq(Nat) /\ Len(after) = m
    <3>1. after \in Seq(Nat)
      BY <2>1, <2>2, SeqDef
    <3>2. DOMAIN after = 1..m
      BY <2>2
    <3> QED  BY <2>1, <3>1, <3>2, LenProperties
  <2>5. PICK u : Sums(u, after) /\ Total(after) = u[m]
    BY <2>4, TotalSums
  <2>6. u[0] = 0 /\ \A i \in 1..m : u[i] = u[i - 1] + after[i]
    BY <2>4, <2>5 DEF Sums
  <2>7. CASE n = 4
    <3>1. m = 0
      BY <2>1, <2>7
    <3>2. Total(after) = 0
      BY <2>5, <2>6, <3>1
    <3> QED  BY <2>7, <3>2 DEF after, m
  <2>8. CASE n = 3
    <3>1. m = 1 /\ after[1] = Held(sections[4])
      BY <2>1, <2>3, <2>8
    <3>2. u[1] = u[0] + after[1]
      <4>1. 1 \in 1..m /\ 1 - 1 = 0
        BY <3>1
      <4> QED  BY <2>6, <4>1
    <3>3. Total(after) = Held(sections[4])
      BY <1>1, <2>5, <2>6, <3>1, <3>2
    <3> QED  BY <2>8, <3>3 DEF after, m
  <2>9. CASE n = 2
    <3>1. m = 2 /\ after[1] = Held(sections[3]) /\ after[2] = Held(sections[4])
      <4>1. m = 2
        BY <2>1, <2>9
      <4>2. 1 \in 1..m /\ 2 \in 1..m /\ n + 1 = 3 /\ n + 2 = 4
        BY <2>9, <4>1
      <4> QED  BY <2>3, <4>1, <4>2
    <3>2. u[1] = u[0] + after[1] /\ u[2] = u[1] + after[2]
      <4>1. 1 \in 1..m /\ 1 - 1 = 0 /\ 2 \in 1..m /\ 2 - 1 = 1
        BY <3>1
      <4> QED  BY <2>6, <4>1
    <3>3. Total(after) = Held(sections[4])
      BY <1>1, <2>5, <2>6, <3>1, <3>2
    <3> QED  BY <2>9, <3>3 DEF after, m
  <2> QED  BY <2>7, <2>8, <2>9
<1>3. Room(1, budget) = budget
  BY DEF Room
<1>4. \A n \in 2..4 : LET held == IF n = 4 THEN 0 ELSE Held(sections[4])
                       IN  Room(n, budget) = IF held > budget THEN 0 ELSE budget - held
  <2> SUFFICES ASSUME NEW n \in 2..4
               PROVE  LET held == IF n = 4 THEN 0 ELSE Held(sections[4])
                      IN  Room(n, budget) = IF held > budget THEN 0 ELSE budget - held
    OBVIOUS
  <2> DEFINE after == [i \in 1..(Len(sections) - n) |-> Held(sections[n + i])]
             total == Total(after)
  <2>1. total = IF n = 4 THEN 0 ELSE Held(sections[4])
    BY <1>2
  <2>2. Room(n, budget) = LET held == IF n = 1 THEN 0 ELSE total
                          IN  IF held > budget THEN 0 ELSE budget - held
    BY DEF Room
  <2> HIDE DEF total
  <2>3. n # 1
    OBVIOUS
  <2> QED  BY <2>1, <2>2, <2>3
<1>5. ASSUME NEW n \in 1..4 PROVE Room(n, budget) \in Nat /\ Room(n, budget) <= budget
  <2>1. CASE n = 1
    BY <1>3, <2>1
  <2>2. CASE n \in 2..4
    BY <1>1, <1>4, <2>2
  <2> QED  BY <2>1, <2>2
<1> QED  BY <1>1, <1>4, <1>5
-----------------------------------------------------------------------------
(* A fill *)

\* The block after each of its sections.
Renders(f, budget, rollUp) ==
    /\ f \in [0..4 -> Filling] /\ f[0] = Titled
    /\ \A n \in 1..4 : \E g : /\ Fills(g, f[n - 1], sections[n].entries, Room(n, budget), rollUp)
                             /\ f[n] = g[Len(sections[n].entries)]
    /\ Render(budget, rollUp).shown = f[4].shown
    /\ Render(budget, rollUp).dropped = f[4].dropped
    /\ Render(budget, rollUp).seen = f[4].seen
    /\ \/ Render(budget, rollUp).used = f[4].used
       \/ /\ Render(budget, rollUp).used = f[4].used + NothingChars
          /\ f[4].used + NothingChars <= budget

\* The title alone is a block being filled.
LEMMA TitledFilling == Titled \in Filling
<1>1. << >> \in Seq(ClaimIds)
  BY EmptySeq
<1> QED  BY <1>1, ContextLengths DEF Titled, Filling

\* render fills the four sections one after the other.
LEMMA RenderRuns ==
    Ranking /\ SoundSections(sections) =>
        \A budget \in Nat : \A rollUp : \E f : Renders(f, budget, rollUp)
<1> SUFFICES ASSUME Ranking, SoundSections(sections), NEW budget \in Nat, NEW rollUp
             PROVE  \E f : Renders(f, budget, rollUp)
  OBVIOUS
<1> DEFINE F(f) == [n \in 0..Len(sections) |->
                      IF n = 0 THEN Titled ELSE FillSection(f[n - 1], n, budget, rollUp)]
           G(f) == [n \in 0..4 |-> IF n = 0 THEN Titled ELSE FillSection(f[n - 1], n, budget, rollUp)]
           filled == CHOOSE f : f = F(f)
           full == filled[Len(sections)]
           nothing == full.used = TitleChars /\ full.dropped = 0 /\ full.used + NothingChars <= budget
<1>1. /\ Len(sections) = 4
      /\ \A n \in 1..4 : sections[n].entries \in Seq(RankedClaims) /\ Room(n, budget) \in Nat
  BY SectionFacts, Rooms
<1>2. Render(budget, rollUp) =
        [shown |-> full.shown, dropped |-> full.dropped, seen |-> full.seen,
         used |-> full.used + IF nothing THEN NothingChars ELSE 0,
         note |-> IF nothing THEN "nothing" ELSE None]
  BY DEF Render
<1>3. \A acc \in Filling, n \in 1..4 :
        \E g : /\ Fills(g, acc, sections[n].entries, Room(n, budget), rollUp)
              /\ FillSection(acc, n, budget, rollUp) = g[Len(sections[n].entries)]
  <2> TAKE acc \in Filling, n \in 1..4
  <2>1. sections[n].entries \in Seq(RankedClaims) /\ Room(n, budget) \in Nat
    BY <1>1
  <2> QED  BY <2>1, FillRuns
<1>4. \A acc \in Filling, n \in 1..4 : FillSection(acc, n, budget, rollUp) \in Filling
  <2> TAKE acc \in Filling, n \in 1..4
  <2> DEFINE m == Len(sections[n].entries)
  <2>1. PICK g : /\ Fills(g, acc, sections[n].entries, Room(n, budget), rollUp)
                 /\ FillSection(acc, n, budget, rollUp) = g[m]
    BY <1>3
  <2>2. m \in 0..m
    BY <1>1, LenProperties
  <2>3. g \in [0..m -> Filling]
    BY <2>1 DEF Fills
  <2> HIDE DEF m
  <2> QED  BY <2>1, <2>2, <2>3
<1>5. \A f : F(f) = G(f)
  BY <1>1
<1>6. \E f : f = F(f)
  <2> DEFINE g == [n \in 1..4 |-> [a \in Filling |-> FillSection(a, n, budget, rollUp)]]
             base == Titled
  <2>1. g \in [1..4 -> [Filling -> Filling]] /\ base \in Filling
    BY <1>4, TitledFilling
  <2> HIDE DEF g, base
  <2>2. PICK f : Runs(f, 4, Filling, base, g)
    BY <2>1, Iterated
  <2>3. f \in [0..4 -> Filling] /\ f[0] = base /\ \A n \in 1..4 : f[n] = g[n][f[n - 1]]
    BY <2>2 DEF Runs
  <2>4. \A n \in 1..4 : f[n] = FillSection(f[n - 1], n, budget, rollUp)
    <3> TAKE n \in 1..4
    <3>1. f[n - 1] \in Filling
      BY <2>3
    <3> QED  BY <2>3, <3>1 DEF g
  <2>5. \A n \in 0..4 : f[n] = IF n = 0 THEN Titled ELSE FillSection(f[n - 1], n, budget, rollUp)
    BY <2>3, <2>4 DEF base
  <2>6. f = G(f)
    BY <2>3, <2>5
  <2> QED  BY <1>5, <2>6
<1>7. filled = F(filled)
  <2> HIDE DEF F
  <2> QED  BY <1>6
<1> HIDE DEF filled
<1>8. filled = G(filled)
  BY <1>5, <1>7
<1> HIDE DEF F
<1>9. filled[0] = Titled /\ \A n \in 1..4 : filled[n] = FillSection(filled[n - 1], n, budget, rollUp)
  BY <1>8
<1>10. \A n \in 0..4 : filled[n] \in Filling
  <2>0. filled[0] \in Filling
    BY <1>9, TitledFilling
  <2>1. filled[1] \in Filling
    BY <1>4, <1>9, <2>0
  <2>2. filled[2] \in Filling
    BY <1>4, <1>9, <2>1
  <2>3. filled[3] \in Filling
    BY <1>4, <1>9, <2>2
  <2>4. filled[4] \in Filling
    BY <1>4, <1>9, <2>3
  <2>5. \A n \in 0..4 : n = 0 \/ n = 1 \/ n = 2 \/ n = 3 \/ n = 4
    OBVIOUS
  <2> QED  BY <2>0, <2>1, <2>2, <2>3, <2>4, <2>5
<1>11. filled \in [0..4 -> Filling]
  <2>1. filled = [n \in 0..4 |-> filled[n]]
    BY <1>8
  <2> QED  BY <1>10, <2>1
<1>12. \A n \in 1..4 : \E g : /\ Fills(g, filled[n - 1], sections[n].entries, Room(n, budget), rollUp)
                              /\ filled[n] = g[Len(sections[n].entries)]
  <2> TAKE n \in 1..4
  <2> DEFINE acc == filled[n - 1]
  <2>1. acc \in Filling /\ filled[n] = FillSection(acc, n, budget, rollUp)
    BY <1>9, <1>10
  <2> HIDE DEF acc
  <2>2. PICK g : /\ Fills(g, acc, sections[n].entries, Room(n, budget), rollUp)
                 /\ FillSection(acc, n, budget, rollUp) = g[Len(sections[n].entries)]
    BY <1>3, <2>1
  <2> QED  BY <2>1, <2>2 DEF acc
<1>13. full = filled[4] /\ full.used \in Nat
  BY <1>1, <1>10 DEF Filling
<1> HIDE DEF full
<1>14. /\ Render(budget, rollUp).shown = full.shown /\ Render(budget, rollUp).dropped = full.dropped
       /\ Render(budget, rollUp).seen = full.seen
       /\ Render(budget, rollUp).note = IF nothing THEN "nothing" ELSE None
       /\ Render(budget, rollUp).used = full.used + IF nothing THEN NothingChars ELSE 0
  <2> HIDE DEF nothing
  <2> QED  BY <1>2
<1>15. \/ Render(budget, rollUp).used = full.used
       \/ /\ Render(budget, rollUp).used = full.used + NothingChars
          /\ full.used + NothingChars <= budget
  <2>1. CASE nothing
    BY <1>14, <2>1
  <2>2. CASE ~nothing
    <3>1. Render(budget, rollUp).used = full.used + 0
      <4> HIDE DEF nothing
      <4> QED  BY <1>14, <2>2
    <3> QED  BY <1>13, <3>1
  <2> QED  BY <2>1, <2>2
<1> QED  BY <1>9, <1>11, <1>12, <1>13, <1>14, <1>15 DEF Renders
\* Each section of a fill, after the ones before it.
LEMMA RenderFills ==
    Ranking /\ SoundSections(sections) =>
        \A budget \in Nat : \A rollUp, f :
            Renders(f, budget, rollUp) => \A n \in 1..4 : Filled(f[n - 1], f[n], n, Room(n, budget))
<1> SUFFICES ASSUME Ranking, SoundSections(sections), NEW budget \in Nat, NEW rollUp, NEW f,
                    Renders(f, budget, rollUp), NEW n \in 1..4
             PROVE  Filled(f[n - 1], f[n], n, Room(n, budget))
  OBVIOUS
<1> DEFINE acc == f[n - 1]
           room == Room(n, budget)
<1>1. /\ n \in DOMAIN sections /\ sections[n].entries \in Seq(RankedClaims) /\ room \in Nat
  BY SectionFacts, Rooms
<1>2. acc \in Filling
  BY DEF Renders
<1>3. PICK g : Fills(g, acc, sections[n].entries, room, rollUp) /\ f[n] = g[Len(sections[n].entries)]
  BY DEF Renders
<1> HIDE DEF acc, room
<1>4. Filled(acc, g[Len(sections[n].entries)], n, room)
  BY <1>1, <1>2, <1>3, SectionFilled
<1> QED  BY <1>3, <1>4 DEF acc, room

\* The four sections one by one.
LEMMA FourFills ==
    Ranking /\ SoundSections(sections) =>
        \A budget \in Nat : \A rollUp, f : Renders(f, budget, rollUp) =>
            /\ Filled(f[0], f[1], 1, Room(1, budget)) /\ Filled(f[1], f[2], 2, Room(2, budget))
            /\ Filled(f[2], f[3], 3, Room(3, budget)) /\ Filled(f[3], f[4], 4, Room(4, budget))
            /\ f[0] \in Filling /\ f[1] \in Filling /\ f[2] \in Filling
            /\ f[3] \in Filling /\ f[4] \in Filling
            /\ f[0] = Titled
<1> SUFFICES ASSUME Ranking, SoundSections(sections), NEW budget \in Nat, NEW rollUp, NEW f,
                    Renders(f, budget, rollUp)
             PROVE  /\ Filled(f[0], f[1], 1, Room(1, budget)) /\ Filled(f[1], f[2], 2, Room(2, budget))
                    /\ Filled(f[2], f[3], 3, Room(3, budget)) /\ Filled(f[3], f[4], 4, Room(4, budget))
                    /\ f[0] \in Filling /\ f[1] \in Filling /\ f[2] \in Filling
                    /\ f[3] \in Filling /\ f[4] \in Filling
                    /\ f[0] = Titled
  OBVIOUS
<1>1. \A n \in 1..4 : Filled(f[n - 1], f[n], n, Room(n, budget))
  BY RenderFills
<1>2. /\ 1 \in 1..4 /\ 1 - 1 = 0 /\ 2 \in 1..4 /\ 2 - 1 = 1
      /\ 3 \in 1..4 /\ 3 - 1 = 2 /\ 4 \in 1..4 /\ 4 - 1 = 3
  OBVIOUS
<1>3. Filled(f[1 - 1], f[1], 1, Room(1, budget)) /\ Filled(f[2 - 1], f[2], 2, Room(2, budget))
      /\ Filled(f[3 - 1], f[3], 3, Room(3, budget)) /\ Filled(f[4 - 1], f[4], 4, Room(4, budget))
  BY <1>1, <1>2
<1>4. f \in [0..4 -> Filling] /\ f[0] = Titled
  BY DEF Renders
<1> QED  BY <1>2, <1>3, <1>4

\* A block keeps to its budget, as far as its title does, and one that
\* dropped nothing is complete.
LEMMA RenderHonest ==
    Ranking /\ SoundSections(sections) =>
        \A budget \in Nat : \A rollUp : LET r == Render(budget, rollUp) IN
            /\ r.used \in Nat /\ r.used <= Larger(TitleChars, budget)
            /\ r.dropped = 0 => \A n \in 1..4 : \A e \in EntriesOf(n) :
                                  e.id \in On(r) \/ Covered(r, e.id)
<1> SUFFICES ASSUME Ranking, SoundSections(sections), NEW budget \in Nat, NEW rollUp
             PROVE  LET r == Render(budget, rollUp) IN
                      /\ r.used \in Nat /\ r.used <= Larger(TitleChars, budget)
                      /\ r.dropped = 0 => \A n \in 1..4 : \A e \in EntriesOf(n) :
                                            e.id \in On(r) \/ Covered(r, e.id)
  OBVIOUS
<1> DEFINE r == Render(budget, rollUp)
<1>1. PICK f : Renders(f, budget, rollUp)
  BY RenderRuns
<1>2. /\ Filled(f[0], f[1], 1, Room(1, budget)) /\ Filled(f[1], f[2], 2, Room(2, budget))
      /\ Filled(f[2], f[3], 3, Room(3, budget)) /\ Filled(f[3], f[4], 4, Room(4, budget))
      /\ f[0] \in Filling /\ f[1] \in Filling /\ f[2] \in Filling
      /\ f[3] \in Filling /\ f[4] \in Filling
      /\ f[0] = Titled
  BY <1>1, FourFills
<1>3. /\ Room(1, budget) \in Nat /\ Room(1, budget) <= budget
      /\ Room(2, budget) \in Nat /\ Room(2, budget) <= budget
      /\ Room(3, budget) \in Nat /\ Room(3, budget) <= budget
      /\ Room(4, budget) \in Nat /\ Room(4, budget) <= budget
  BY Rooms
<1>4. /\ f[0].used \in Nat /\ f[1].used \in Nat /\ f[2].used \in Nat /\ f[3].used \in Nat
      /\ f[4].used \in Nat
      /\ f[0].dropped \in Nat /\ f[1].dropped \in Nat /\ f[2].dropped \in Nat /\ f[3].dropped \in Nat
      /\ f[4].dropped \in Nat
  BY <1>2 DEF Filling
<1>5. f[0].used = TitleChars /\ f[0].dropped = 0 /\ f[0].seen = {}
  BY <1>2 DEF Titled
<1>6. /\ r.shown = f[4].shown /\ r.dropped = f[4].dropped
      /\ \/ r.used = f[4].used
         \/ r.used = f[4].used + NothingChars /\ f[4].used + NothingChars <= budget
  BY <1>1 DEF Renders
<1> HIDE DEF r
<1>7. r.used \in Nat /\ r.used <= Larger(TitleChars, budget)
  <2>1. /\ f[1].used <= Larger(f[0].used, Room(1, budget)) /\ f[2].used <= Larger(f[1].used, Room(2, budget))
        /\ f[3].used <= Larger(f[2].used, Room(3, budget)) /\ f[4].used <= Larger(f[3].used, Room(4, budget))
    BY <1>2 DEF Filled
  <2>2. f[4].used <= Larger(TitleChars, budget)
    <3>0. \A x, y, z, b, t \in Nat : y <= Larger(x, z) /\ z <= b /\ x <= Larger(t, b) => y <= Larger(t, b)
      BY DEF Larger
    <3>1. TitleChars \in Nat /\ \A x, y, z \in Nat :
             y <= Larger(x, z) /\ z <= budget /\ x <= Larger(TitleChars, budget)
             => y <= Larger(TitleChars, budget)
      BY <3>0, ContextLengths
    <3>2. f[0].used <= Larger(TitleChars, budget)
      BY <1>4, <1>5 DEF Larger
    <3>3. f[1].used <= Larger(TitleChars, budget)
      BY <1>3, <1>4, <2>1, <3>1, <3>2
    <3>4. f[2].used <= Larger(TitleChars, budget)
      <4>1. f[2].used <= Larger(f[1].used, Room(2, budget))
        BY <2>1
      <4>2. Room(2, budget) \in Nat /\ Room(2, budget) <= budget
        BY <1>3
      <4>3. f[1].used \in Nat /\ f[2].used \in Nat
        BY <1>4
      <4> QED  BY <3>1, <3>3, <4>1, <4>2, <4>3
    <3>5. f[3].used <= Larger(TitleChars, budget)
      <4>1. f[3].used <= Larger(f[2].used, Room(3, budget))
        BY <2>1
      <4>2. Room(3, budget) \in Nat /\ Room(3, budget) <= budget
        BY <1>3
      <4>3. f[2].used \in Nat /\ f[3].used \in Nat
        BY <1>4
      <4> QED  BY <3>1, <3>4, <4>1, <4>2, <4>3
    <3> QED
      <4>1. f[4].used <= Larger(f[3].used, Room(4, budget))
        BY <2>1
      <4>2. Room(4, budget) \in Nat /\ Room(4, budget) <= budget
        BY <1>3
      <4>3. f[3].used \in Nat /\ f[4].used \in Nat
        BY <1>4
      <4> QED  BY <3>1, <3>5, <4>1, <4>2, <4>3
  <2>3. CASE r.used = f[4].used
    BY <1>4, <2>2, <2>3
  <2>4. CASE r.used = f[4].used + NothingChars /\ f[4].used + NothingChars <= budget
    <3>1. f[4].used + NothingChars \in Nat
      BY <1>4, ContextLengths
    <3>2. \A x \in Nat : x <= budget => x <= Larger(TitleChars, budget)
      BY ContextLengths DEF Larger
    <3> QED  BY <2>4, <3>1, <3>2
  <2> QED  BY <1>6, <2>3, <2>4
<1>8. ASSUME r.dropped = 0, NEW n \in 1..4, NEW e \in EntriesOf(n)
      PROVE  e.id \in On(r) \/ Covered(r, e.id)
  <2>1. f[0].dropped <= f[1].dropped /\ f[1].dropped <= f[2].dropped
        /\ f[2].dropped <= f[3].dropped /\ f[3].dropped <= f[4].dropped
    BY <1>2 DEF Filled, Grows
  <2>2. f[1].dropped = 0 /\ f[2].dropped = 0 /\ f[3].dropped = 0 /\ f[4].dropped = 0
    BY <1>4, <1>6, <1>8, <2>1
  <2>3. Justified(f[0], {})
    BY <1>5 DEF Justified
  <2>4. Justified(f[4], {})
    <3>1. \A acc, new, m, room : /\ Filled(acc, new, m, room) /\ Justified(acc, {})
                                 /\ new.dropped = acc.dropped
                                 => Justified(new, {})
      BY DEF Filled
    <3>2. Justified(f[1], {})
      BY <1>2, <1>5, <2>2, <2>3, <3>1
    <3>3. Justified(f[2], {})
      BY <1>2, <2>2, <3>1, <3>2
    <3>4. Justified(f[3], {})
      BY <1>2, <2>2, <3>1, <3>3
    <3> QED  BY <1>2, <2>2, <3>1, <3>4
  <2>5. e.id \in f[4].seen
    <3>1. /\ IdsOf(1) \subseteq f[1].seen /\ IdsOf(2) \subseteq f[2].seen
          /\ IdsOf(3) \subseteq f[3].seen /\ IdsOf(4) \subseteq f[4].seen
          /\ f[1].seen \subseteq f[2].seen /\ f[2].seen \subseteq f[3].seen /\ f[3].seen \subseteq f[4].seen
      BY <1>2 DEF Filled, Grows
    <3>2. e.id \in IdsOf(n) /\ (n = 1 \/ n = 2 \/ n = 3 \/ n = 4)
      BY <1>8 DEF IdsOf
    <3> QED  BY <3>1, <3>2
  <2>6. e.id \in On(f[4]) \/ Covered(f[4], e.id)
    BY <2>4, <2>5 DEF Justified
  <2>7. On(r) = On(f[4])
    BY <1>6 DEF On
  <2> QED  BY <2>6, <2>7 DEF Covered
<1> QED  BY <1>7, <1>8 DEF r

\* Lessons that the instructions left the room for are on the block, or one of
\* an earlier section's.
LEMMA LessonsKept ==
    Ranking /\ SoundSections(sections) =>
        \A budget \in Nat : \A rollUp, lengths :
            LET r == Render(budget, rollUp)
                entries == sections[1].entries
            IN  /\ lengths \in Seq(Nat) /\ Len(lengths) = Len(entries)
                /\ \A i \in 1..Len(entries) : entries[i].id \in On(r) => lengths[i] = entries[i].chars
                /\ Held(sections[4]) < sections[4].reserve /\ Held(sections[4]) > 0
                /\ TitleChars + Total(lengths) + HeadingOver(entries, On(r)) + Held(sections[4]) <= budget
                => \A e \in EntriesOf(4) :
                     \/ e.id \in IdsOf(1) \/ e.id \in IdsOf(2) \/ e.id \in IdsOf(3)
                     \/ e.id \in On(r) \/ Covered(r, e.id)
<1> SUFFICES ASSUME Ranking, SoundSections(sections), NEW budget \in Nat, NEW rollUp, NEW lengths \in Seq(Nat),
                    Len(lengths) = Len(sections[1].entries),
                    \A i \in 1..Len(sections[1].entries) :
                       sections[1].entries[i].id \in On(Render(budget, rollUp))
                       => lengths[i] = sections[1].entries[i].chars,
                    Held(sections[4]) < sections[4].reserve, Held(sections[4]) > 0,
                    TitleChars + Total(lengths) + HeadingOver(sections[1].entries, On(Render(budget, rollUp)))
                      + Held(sections[4]) <= budget,
                    NEW e \in EntriesOf(4)
             PROVE  \/ e.id \in IdsOf(1) \/ e.id \in IdsOf(2) \/ e.id \in IdsOf(3)
                    \/ e.id \in On(Render(budget, rollUp)) \/ Covered(Render(budget, rollUp), e.id)
  BY Zenon
<1> DEFINE r == Render(budget, rollUp)
           entries == sections[1].entries
           lessons == sections[4].entries
           held == Held(sections[4])
           refused == IdsOf(1) \cup IdsOf(2) \cup IdsOf(3)
<1>1. PICK f : Renders(f, budget, rollUp)
  BY RenderRuns
<1>2. /\ Filled(f[0], f[1], 1, Room(1, budget)) /\ Filled(f[1], f[2], 2, Room(2, budget))
      /\ Filled(f[2], f[3], 3, Room(3, budget)) /\ Filled(f[3], f[4], 4, Room(4, budget))
      /\ f[0] \in Filling /\ f[1] \in Filling /\ f[2] \in Filling
      /\ f[3] \in Filling /\ f[4] \in Filling
      /\ f[0] = Titled
  BY <1>1, FourFills
<1>3. /\ entries \in Seq(RankedClaims) /\ lessons \in Seq(RankedClaims) /\ held \in Nat
      /\ Room(1, budget) \in Nat /\ Room(4, budget) = budget
  BY SectionFacts, Rooms
<1>4. On(r) = On(f[4]) /\ On(f[1]) \subseteq On(r)
  <2>1. r.shown = f[4].shown
    BY <1>1 DEF Renders
  <2>2. On(f[1]) \subseteq On(f[2]) /\ On(f[2]) \subseteq On(f[3]) /\ On(f[3]) \subseteq On(f[4])
    BY <1>2 DEF Filled, Grows
  <2> QED  BY <2>1, <2>2 DEF On
<1>5. PICK g : /\ Fills(g, f[0], entries, Room(1, budget), rollUp) /\ f[1] = g[Len(entries)]
  <2>1. 1 \in 1..4 /\ 1 - 1 = 0
    OBVIOUS
  <2> QED  BY <1>1, <2>1 DEF Renders
<1>6. PICK h : /\ Fills(h, f[3], lessons, Room(4, budget), rollUp) /\ f[4] = h[Len(lessons)]
  <2>1. 4 \in 1..4 /\ 4 - 1 = 3
    OBVIOUS
  <2> QED  BY <1>1, <2>1 DEF Renders
<1>7. /\ \A i \in 1..Len(entries) : entries[i].id \in On(r) => lengths[i] = entries[i].chars
      /\ Len(lengths) = Len(entries)
      /\ TitleChars + Total(lengths) + HeadingOver(entries, On(r)) + held <= budget
  OBVIOUS
<1>8. held = HeaderChars + Total(Lengths(lessons))
  <2> DEFINE demand == HeaderChars + Total(Lengths(lessons))
             reserve == sections[4].reserve
  <2>1. held = IF reserve = 0 \/ lessons = << >> THEN 0 ELSE Smaller(reserve, demand)
    BY DEF Held
  <2>2. reserve \in Nat /\ held < reserve /\ held > 0
    BY DEF SoundSections
  <2> HIDE DEF demand, reserve, held
  <2> QED  BY <2>1, <2>2 DEF Smaller, demand
<1> HIDE DEF r, entries, lessons, held
<1>9. f[1].used <= TitleChars + Total(lengths) + HeadingOver(entries, On(r))
  <2>1. f[0].used = TitleChars
    BY <1>2 DEF Titled
  <2>2. On(g[Len(entries)]) \subseteq On(r)
    BY <1>4, <1>5
  <2>3. g[Len(entries)].used <= f[0].used + Total(lengths) + HeadingOver(entries, On(r))
    BY <1>2, <1>3, <1>5, <1>7, <2>2, SectionCost
  <2> QED  BY <1>5, <2>1, <2>3
<1>10. Total(lengths) \in Nat /\ HeadingOver(entries, On(r)) \in Nat /\ TitleChars \in Nat /\ HeaderChars \in Nat
       /\ Total(Lengths(lessons)) \in Nat
  <2>1. \A s \in Seq(Nat) : Total(s) \in Nat
    <3> TAKE s \in Seq(Nat)
    <3>1. PICK u : Sums(u, s) /\ Total(s) = u[Len(s)]
      BY TotalSums
    <3>2. Len(s) \in 0..Len(s)
      BY LenProperties
    <3> QED  BY <3>1, <3>2 DEF Sums
  <2> QED  BY <1>3, <2>1, LengthsSeq, ContextLengths DEF HeadingOver
<1>11. held <= budget /\ f[1].used <= budget - held
  <2>1. f[1].used \in Nat
    BY <1>2 DEF Filling
  <2> QED  BY <1>3, <1>7, <1>9, <1>10, <2>1
<1>12. Room(2, budget) = budget - held /\ Room(3, budget) = budget - held
  <2>1. 2 \in 2..3 /\ 3 \in 2..3
    OBVIOUS
  <2> QED  BY <1>11, <2>1, Rooms DEF held
<1>13. f[3].used <= budget - held
  <2>1. /\ f[2].used <= Larger(f[1].used, Room(2, budget))
        /\ f[3].used <= Larger(f[2].used, Room(3, budget))
    BY <1>2 DEF Filled
  <2>2. f[1].used \in Nat /\ f[2].used \in Nat /\ f[3].used \in Nat /\ budget - held \in Nat
    <3>1. budget - held \in Nat
      BY <1>3, <1>11
    <3> QED  BY <1>2, <3>1 DEF Filling
  <2>3. \A x, y, z \in Nat : y <= Larger(x, z) /\ x <= z => y <= z
    BY DEF Larger
  <2>4. f[2].used <= budget - held
    BY <1>11, <1>12, <2>1, <2>2, <2>3
  <2> QED  BY <1>12, <2>1, <2>2, <2>3, <2>4
<1>14. f[4].dropped = f[3].dropped
  <2>1. f[3].used \in Nat
    BY <1>2 DEF Filling
  <2>2. f[3].used + HeaderChars + Total(Lengths(lessons)) <= budget
    <3>1. \A x, y, z, k \in Nat : k = y + z /\ x <= budget - k => x + y + z <= budget
      OBVIOUS
    <3> QED  BY <1>3, <1>8, <1>10, <1>13, <2>1, <3>1
  <2>3. h[Len(lessons)].dropped = f[3].dropped
    BY <1>2, <1>3, <1>6, <2>2, SectionFits
  <2> QED  BY <1>6, <2>3
<1>15. Justified(f[4], refused)
  <2>1. IdsOf(1) \subseteq refused /\ IdsOf(2) \subseteq refused /\ IdsOf(3) \subseteq refused
    OBVIOUS
  <2>2. Justified(f[0], refused)
    BY <1>2 DEF Titled, Justified
  <2> HIDE DEF refused
  <2>3. \A acc, new, m, room : /\ Filled(acc, new, m, room) /\ Justified(acc, refused)
                               /\ IdsOf(m) \subseteq refused \/ new.dropped = acc.dropped
                               => Justified(new, refused)
    BY DEF Filled
  <2>4. Justified(f[1], refused)
    BY <1>2, <2>1, <2>2, <2>3
  <2>5. Justified(f[2], refused)
    BY <1>2, <2>1, <2>3, <2>4
  <2>6. Justified(f[3], refused)
    BY <1>2, <2>1, <2>3, <2>5
  <2> QED  BY <1>2, <1>14, <2>3, <2>6
<1>16. e.id \in f[4].seen
  BY <1>2 DEF Filled, IdsOf
<1>17. e.id \in On(f[4]) \/ Covered(f[4], e.id) \/ e.id \in refused
  BY <1>15, <1>16 DEF Justified
<1>18. Covered(f[4], e.id) => Covered(r, e.id)
  BY <1>4 DEF Covered
<1> QED  BY <1>4, <1>17, <1>18 DEF r, refused
-----------------------------------------------------------------------------
(* The call *)

\* The same of the lessons of a fill.
LEMMA LessonsInRoom ==
    Ranking /\ SoundSections(sections) =>
        \A budget \in Nat : \A rollUp : LET r == Render(budget, rollUp) IN
            HeldIn(On(r), budget) =>
                \A e \in EntriesOf(4) : e \in EntriesOf(3) \/ e.id \in On(r) \/ Covered(r, e.id)
<1> SUFFICES ASSUME Ranking, SoundSections(sections), NEW budget \in Nat, NEW rollUp,
                    HeldIn(On(Render(budget, rollUp)), budget), NEW e \in EntriesOf(4)
             PROVE  \/ e \in EntriesOf(3) \/ e.id \in On(Render(budget, rollUp))
                    \/ Covered(Render(budget, rollUp), e.id)
  BY Zenon
<1> DEFINE r == Render(budget, rollUp)
           shown == On(r)
           entries == sections[1].entries
           obeyed == {i \in DOMAIN entries : entries[i].id \in shown}
           lengths == [i \in DOMAIN entries |-> IF i \in obeyed THEN entries[i].chars ELSE 0]
           first == TitleChars + Total(lengths) + IF obeyed = {} THEN 0 ELSE HeaderChars
           held == Held(sections[4])
<1>1. 0 < held /\ held < sections[4].reserve /\ first + held <= budget
  BY DEF HeldIn
<1>2. /\ entries \in Seq(RankedClaims) /\ held \in Nat
      /\ \A n \in 1..4 : EntriesOf(n) \subseteq ToSet(memories)
  BY SectionFacts
<1>3. /\ Len(entries) \in Nat /\ DOMAIN entries = 1..Len(entries)
      /\ \A i \in 1..Len(entries) : entries[i].chars \in Nat
  BY <1>2, LenProperties, ElementOfSeq, ContextLengths
<1> HIDE DEF r, held
<1>4. lengths \in [1..Len(entries) -> Nat]
  BY <1>3
<1>5. \A i \in 1..Len(entries) : entries[i].id \in shown => lengths[i] = entries[i].chars
  BY <1>3
<1>6. HeadingOver(entries, shown) = IF obeyed = {} THEN 0 ELSE HeaderChars
  <2>1. obeyed = {} <=> ~\E i \in 1..Len(entries) : entries[i].id \in shown
    BY <1>3
  <2> QED  BY <2>1 DEF HeadingOver
<1> HIDE DEF lengths, obeyed, shown
<1>7. lengths \in Seq(Nat) /\ Len(lengths) = Len(entries)
  <2>1. lengths \in Seq(Nat)
    BY <1>3, <1>4, SeqDef
  <2>2. DOMAIN lengths = 1..Len(entries)
    BY <1>4
  <2> QED  BY <1>3, <2>1, <2>2, LenProperties
<1>8. TitleChars + Total(lengths) + HeadingOver(entries, shown) + held <= budget
  BY <1>1, <1>6
<1>9. \/ e.id \in IdsOf(1) \/ e.id \in IdsOf(2) \/ e.id \in IdsOf(3)
      \/ e.id \in On(r) \/ Covered(r, e.id)
  <2>1. /\ lengths \in Seq(Nat) /\ Len(lengths) = Len(entries)
        /\ \A i \in 1..Len(entries) : entries[i].id \in On(Render(budget, rollUp))
                                      => lengths[i] = entries[i].chars
        /\ Held(sections[4]) < sections[4].reserve /\ Held(sections[4]) > 0
        /\ TitleChars + Total(lengths) + HeadingOver(entries, On(Render(budget, rollUp)))
             + Held(sections[4]) <= budget
    BY <1>1, <1>2, <1>5, <1>7, <1>8 DEF r, shown, held
  <2> QED  BY <2>1, LessonsKept DEF r
<1>10. \A i, j \in DOMAIN memories : memories[i].id = memories[j].id => memories[i] = memories[j]
  BY DEF Ranking
<1>11. ASSUME NEW n \in 1..4, e.id \in IdsOf(n)
       PROVE  e \in EntriesOf(n)
  <2>1. PICK d \in EntriesOf(n) : d.id = e.id
    BY <1>11 DEF IdsOf
  <2>2. d \in ToSet(memories) /\ e \in ToSet(memories)
    BY <1>2, <2>1
  <2>3. d = e
    BY <1>10, <2>1, <2>2 DEF ToSet
  <2> QED  BY <2>1, <2>3
<1>12. ASSUME NEW kinds, NEW s \in Seq(OfKinds(kinds)), NEW d \in ToSet(s)
       PROVE  d.kind \in kinds
  <2>1. DOMAIN s = 1..Len(s) /\ \A i \in 1..Len(s) : s[i] \in OfKinds(kinds)
    BY LenProperties, ElementOfSeq
  <2> QED  BY <2>1 DEF ToSet, OfKinds
<1>13. e.kind \in {"lesson"}
  BY <1>12 DEF SoundSections, EntriesOf
<1>14. e \notin EntriesOf(1)
  <2>1. \A d \in EntriesOf(1) : d.kind \in {"instruction"}
    BY <1>12 DEF SoundSections, EntriesOf
  <2> QED  BY <1>13, <2>1
<1>15. e \notin EntriesOf(2)
  <2>1. \A d \in EntriesOf(2) : d.kind \in {"fact"}
    BY <1>12 DEF SoundSections, EntriesOf
  <2> QED  BY <1>13, <2>1
<1> QED  BY <1>9, <1>11, <1>14, <1>15 DEF r

\* What holds between the steps of a call.
ContextInv ==
    /\ contextStep \in {"idle", "read", "whole", "roll", "trim", "done"}
    /\ contextStep \in {"idle", "read"} => sections = << >>
    /\ contextStep # "idle" => /\ asked.query \in Queries /\ asked.budget \in Nat
                               /\ Ranking
    /\ contextStep \in {"whole", "roll", "trim"} => SoundSections(sections)
    /\ BlockHonest /\ ReserveHonoured

\* A fill that dropped nothing ends the call with all there is.
LEMMA FillEnds ==
    ASSUME Ranking, SoundSections(sections), asked.budget \in Nat, NEW rollUp,
           block' = Render(asked.budget, rollUp),
           UNCHANGED <<memories, asked, sections>>,
           contextStep' = "done" => block'.dropped = 0
    PROVE  BlockHonest' /\ ReserveHonoured'
<1> DEFINE r == Render(asked.budget, rollUp)
<1>1. /\ r.used \in Nat /\ r.used <= Larger(TitleChars, asked.budget)
      /\ r.dropped = 0 => \A n \in 1..4 : \A e \in EntriesOf(n) :
                            e.id \in On(r) \/ Covered(r, e.id)
  BY RenderHonest
<1>2. block' = r
  OBVIOUS
<1> HIDE DEF r
<1>3. ASSUME Answered'
      PROVE  \A n \in 1..4 : \A e \in EntriesOf(n) : Stood(e)'
  <2>1. r.dropped = 0
    BY <1>2, <1>3 DEF Answered
  <2> SUFFICES ASSUME NEW n \in 1..4, NEW e \in EntriesOf(n)
               PROVE  Stood(e)'
    OBVIOUS
  <2>2. e.id \in On(r) \/ Covered(r, e.id)
    BY <1>1, <2>1
  <2>3. Shown' = On(r)
    BY <1>2 DEF Shown, On
  <2>4. Covered(r, e.id) <=> \E m \in DOMAIN sections : \E s \in ToSet(sections[m].entries) :
                                s.id \in On(r) /\ e.id \in s.covers
    BY DEF Covered, EntriesOf
  <2> QED  BY <2>2, <2>3, <2>4 DEF Stood, EntriesOf
<1>4. DOMAIN sections = 1..4
  BY SectionFacts
<1>5. ASSUME Answered', TitleChars + TrimmedChars <= asked.budget
      PROVE  block'.used <= asked.budget
  <2>1. TitleChars <= asked.budget
    BY <1>5, ContextLengths
  <2> QED  BY <1>1, <1>2, <2>1, ContextLengths DEF Larger
<1>6. BlockHonest'
  BY <1>3, <1>4, <1>5 DEF BlockHonest, EntriesOf
<1>7. ReserveHonoured'
  <2>1. Answered' => \A e \in EntriesOf(4) : Stood(e)'
    BY <1>3
  <2> QED  BY <2>1 DEF ReserveHonoured, EntriesOf
<1> QED  BY <1>6, <1>7

\* The fields of a block.
LEMMA RenderFields ==
    \A budget, rollUp : LET r == Render(budget, rollUp) IN
        r = [shown |-> r.shown, dropped |-> r.dropped, seen |-> r.seen, used |-> r.used, note |-> r.note]
BY DEF Render

\* The note ends the block, and nothing else of it.
LEMMA NoteOnly ==
    ASSUME NEW r, r = [shown |-> r.shown, dropped |-> r.dropped, seen |-> r.seen,
                       used |-> r.used, note |-> r.note],
           NEW more, NEW b, b = [r EXCEPT !.used = @ + more, !.note = "trimmed"]
    PROVE  b = [shown |-> r.shown, dropped |-> r.dropped, seen |-> r.seen,
                used |-> r.used + more, note |-> "trimmed"]
<1> DEFINE total == r.used + more
           q == [r EXCEPT !.used = total]
<1>1. b = [q EXCEPT !.note = "trimmed"]
  OBVIOUS
<1> HIDE DEF total
<1>2. q = [shown |-> r.shown, dropped |-> r.dropped, seen |-> r.seen, used |-> total, note |-> r.note]
  OBVIOUS
<1> HIDE DEF q
<1> QED  BY <1>1, <1>2 DEF total
\* The last fill keeps room for the note.
LEMMA TrimmedEnds ==
    ASSUME Ranking, SoundSections(sections), asked.budget \in Nat, FillTrimmed
    PROVE  BlockHonest' /\ ReserveHonoured'
<1> DEFINE reserved == IF asked.budget < TrimmedChars THEN 0 ELSE asked.budget - TrimmedChars
           last == Render(reserved, TRUE)
<1>1. /\ block' = [last EXCEPT !.used = @ + TrimmedChars, !.note = "trimmed"]
      /\ UNCHANGED <<memories, asked, sections>>
  BY DEF FillTrimmed
<1>2. reserved \in Nat
  BY ContextLengths
<1>3. reserved = asked.budget - TrimmedChars \/ asked.budget - TrimmedChars < 0
  BY ContextLengths
<1> HIDE DEF reserved
<1>4. last.used \in Nat /\ last.used <= Larger(TitleChars, reserved)
  BY <1>2, RenderHonest
<1>5. HeldIn(On(last), reserved) =>
        \A e \in EntriesOf(4) : e \in EntriesOf(3) \/ e.id \in On(last) \/ Covered(last, e.id)
  BY <1>2, LessonsInRoom
<1>6. last = [shown |-> last.shown, dropped |-> last.dropped, seen |-> last.seen,
              used |-> last.used, note |-> last.note]
  BY RenderFields
<1> HIDE DEF last
<1>7. block' = [shown |-> last.shown, dropped |-> last.dropped, seen |-> last.seen,
                used |-> last.used + TrimmedChars, note |-> "trimmed"]
  BY <1>1, <1>6, NoteOnly
<1>8. /\ block'.shown = last.shown /\ block'.used = last.used + TrimmedChars
      /\ block'.note = "trimmed"
  BY <1>7
<1>9. BlockHonest'
  <2>1. ASSUME TitleChars + TrimmedChars <= asked.budget
        PROVE  block'.used <= asked.budget
    <3>1. TitleChars \in Nat /\ TrimmedChars \in Nat
      BY ContextLengths
    <3>2. reserved = asked.budget - TrimmedChars /\ TitleChars <= reserved
      BY <1>3, <2>1, <3>1
    <3>3. last.used <= reserved
      BY <1>2, <1>4, <3>1, <3>2 DEF Larger
    <3> QED  BY <1>2, <1>4, <1>8, <3>1, <3>2, <3>3
  <2> QED  BY <1>1, <1>8, <2>1 DEF BlockHonest
<1>10. ASSUME HeldInFull'
       PROVE  HeldIn(On(last), reserved)
  <2>1. Shown' = On(last)
    BY <1>8 DEF Shown, On
  <2>2. HeldIn(On(last), asked.budget - TrimmedChars)
    BY <1>1, <1>8, <1>10, <2>1 DEF HeldInFull, HeldIn
  <2>3. 0 <= asked.budget - TrimmedChars
    <3> DEFINE entries == sections[1].entries
               obeyed == {i \in DOMAIN entries : entries[i].id \in On(last)}
               lengths == [i \in DOMAIN entries |-> IF i \in obeyed THEN entries[i].chars ELSE 0]
               first == TitleChars + Total(lengths) + IF obeyed = {} THEN 0 ELSE HeaderChars
               held == Held(sections[4])
    <3>1. 0 < held /\ first + held <= asked.budget - TrimmedChars
      BY <2>2 DEF HeldIn
    <3>2. held \in Nat /\ entries \in Seq(RankedClaims)
      BY SectionFacts
    <3>3. lengths \in Seq(Nat)
      <4>1. /\ Len(entries) \in Nat /\ DOMAIN entries = 1..Len(entries)
            /\ \A i \in 1..Len(entries) : entries[i].chars \in Nat
        BY <3>2, LenProperties, ElementOfSeq, ContextLengths
      <4>2. lengths \in [1..Len(entries) -> Nat]
        BY <4>1
      <4> HIDE DEF lengths
      <4> QED  BY <4>1, <4>2, SeqDef
    <3> HIDE DEF lengths, held
    <3>4. Total(lengths) \in Nat
      <4>1. PICK u : Sums(u, lengths) /\ Total(lengths) = u[Len(lengths)]
        BY <3>3, TotalSums
      <4>2. Len(lengths) \in 0..Len(lengths)
        BY <3>3, LenProperties
      <4> QED  BY <4>1, <4>2 DEF Sums
    <3>5. first \in Nat
      <4> HIDE DEF obeyed
      <4> QED  BY <3>4, ContextLengths
    <3> HIDE DEF first
    <3> QED  BY <3>1, <3>2, <3>5, ContextLengths
  <2>4. reserved = asked.budget - TrimmedChars
    BY <1>3, <2>3, ContextLengths
  <2> QED  BY <2>2, <2>4
<1>11. ReserveHonoured'
  <2> SUFFICES ASSUME HeldInFull', NEW e \in EntriesOf(4)
               PROVE  e \in EntriesOf(3) \/ Stood(e)'
    BY <1>1 DEF ReserveHonoured, EntriesOf
  <2>1. e \in EntriesOf(3) \/ e.id \in On(last) \/ Covered(last, e.id)
    BY <1>5, <1>10
  <2>2. Shown' = On(last)
    BY <1>8 DEF Shown, On
  <2>3. Covered(last, e.id) <=> \E m \in DOMAIN sections : \E s \in ToSet(sections[m].entries) :
                                   s.id \in On(last) /\ e.id \in s.covers
    BY DEF Covered, EntriesOf
  <2> QED  BY <1>1, <2>1, <2>2, <2>3 DEF Stood, EntriesOf
<1> QED  BY <1>9, <1>11

\* Between calls there is no block.
LEMMA ContextStart == ContextInit => ContextInv
BY DEF ContextInit, ContextInv, BlockHonest, ReserveHonoured, Answered

\* Every step of a call keeps the invariant.
LEMMA ContextStepKeeps == ContextInv /\ [ContextNext]_contextVars => ContextInv'
<1> SUFFICES ASSUME ContextInv, [ContextNext]_contextVars
             PROVE  ContextInv'
  OBVIOUS
<1>1. ASSUME ~Answered'
      PROVE  BlockHonest' /\ ReserveHonoured'
  BY <1>1 DEF BlockHonest, ReserveHonoured
<1>2. CASE Context
  <2>1. PICK query \in Queries, budget \in Budgets :
          /\ asked' = [query |-> query, budget |-> budget]
          /\ contextStep' = IF budget < MinBudgetChars THEN "done" ELSE "read"
    BY <1>2 DEF Context
  <2>2. asked'.query \in Queries /\ asked'.budget \in Nat
    BY <2>1, ContextLengths
  <2>3. sections = << >> /\ sections' = sections /\ memories' \in Memories
    BY <1>2 DEF Context, ContextInv
  <2>4. Ranking'
    <3>1. \A order \in Memories :
             order \in Seq(RankedClaims) /\ \A i, j \in DOMAIN order : order[i].id = order[j].id => i = j
      BY ContextAssumption
    <3> QED  BY <2>3, <3>1 DEF Ranking
  <2>5. BlockHonest' /\ ReserveHonoured'
    BY <1>1, <2>3 DEF Answered
  <2> QED  BY <2>1, <2>2, <2>3, <2>4, <2>5 DEF ContextInv
<1>3. CASE ReadSections
  <2>1. /\ contextStep = "read" /\ contextStep' = "whole"
        /\ sections' = Sections(asked.query, asked.budget) /\ memories' = memories /\ asked' = asked
    BY <1>3 DEF ReadSections
  <2>2. asked.query \in Queries /\ asked.budget \in Nat /\ Ranking
    BY <2>1 DEF ContextInv
  <2>3. SoundSections(sections')
    BY <2>1, <2>2, SectionsRead
  <2>4. SoundSections(sections)'
    BY <2>1, <2>3 DEF SoundSections, OfKinds
  <2>5. Ranking'
    BY <2>1, <2>2 DEF Ranking
  <2>6. BlockHonest' /\ ReserveHonoured'
    BY <1>1, <2>1 DEF Answered
  <2> QED  BY <2>1, <2>2, <2>4, <2>5, <2>6 DEF ContextInv
<1>4. ASSUME contextStep \in {"whole", "roll", "trim"}, UNCHANGED <<memories, asked, sections>>,
             contextStep' \in {"roll", "trim", "done"}, BlockHonest' /\ ReserveHonoured'
      PROVE  ContextInv'
  <2>1. /\ asked'.query \in Queries /\ asked'.budget \in Nat /\ Ranking /\ SoundSections(sections)
    BY <1>4 DEF ContextInv
  <2>2. Ranking' /\ SoundSections(sections)'
    BY <1>4, <2>1 DEF Ranking, SoundSections, OfKinds
  <2> QED  BY <1>4, <2>1, <2>2 DEF ContextInv
<1>5. contextStep \in {"whole", "roll", "trim"} =>
        Ranking /\ SoundSections(sections) /\ asked.budget \in Nat
  BY DEF ContextInv
<1>6. CASE FillWhole
  <2>1. /\ contextStep = "whole" /\ block' = Render(asked.budget, FALSE)
        /\ contextStep' = IF block'.dropped = 0 THEN "done" ELSE "roll"
        /\ UNCHANGED <<memories, asked, sections>>
    BY <1>6 DEF FillWhole
  <2>2. BlockHonest' /\ ReserveHonoured'
    BY <1>5, <2>1, FillEnds
  <2> QED  BY <1>4, <2>1, <2>2
<1>7. CASE FillRolledUp
  <2>1. /\ contextStep = "roll" /\ block' = Render(asked.budget, TRUE)
        /\ contextStep' = IF block'.dropped = 0 THEN "done" ELSE "trim"
        /\ UNCHANGED <<memories, asked, sections>>
    BY <1>7 DEF FillRolledUp
  <2>2. BlockHonest' /\ ReserveHonoured'
    BY <1>5, <2>1, FillEnds
  <2> QED  BY <1>4, <2>1, <2>2
<1>8. CASE FillTrimmed
  <2>1. /\ contextStep = "trim" /\ contextStep' = "done" /\ UNCHANGED <<memories, asked, sections>>
    BY <1>8 DEF FillTrimmed
  <2>2. BlockHonest' /\ ReserveHonoured'
    BY <1>5, <1>8, <2>1, TrimmedEnds
  <2> QED  BY <1>4, <2>1, <2>2
<1>9. CASE ContextReply
  <2>1. contextStep' = "idle" /\ sections' = << >>
    BY <1>9 DEF ContextReply
  <2>2. BlockHonest' /\ ReserveHonoured'
    BY <1>1, <2>1 DEF Answered
  <2> QED  BY <2>1, <2>2 DEF ContextInv
<1>10. CASE UNCHANGED contextVars
  <2>1. UNCHANGED <<memories, asked, contextStep, sections, block>>
    BY <1>10 DEF contextVars
  <2>2. BlockHonest' /\ ReserveHonoured'
    <3>1. BlockHonest /\ ReserveHonoured
      BY DEF ContextInv
    <3> QED  BY <2>1, <3>1 DEF BlockHonest, ReserveHonoured, Answered, HeldInFull, HeldIn, EntriesOf, Stood, Shown
  <2> QED  BY <2>1, <2>2 DEF ContextInv, Ranking, SoundSections, OfKinds
<1> QED  BY <1>2, <1>3, <1>6, <1>7, <1>8, <1>9, <1>10 DEF ContextNext

(***************************************************************************)
(* Whatever claims are ranked and whatever is asked, the block of `context`*)
(* fits its budget, as long as its title and its note do, and one without  *)
(* the note has every entry of its sections on it, or under a summary that *)
(* is: assemble's three fills, of any sections.                            *)
(***************************************************************************)
THEOREM BlocksAreHonest == ContextSpec => []BlockHonest
<1>1. ContextInv => BlockHonest
  BY DEF ContextInv
<1> QED  BY <1>1, ContextStart, ContextStepKeeps, PTL DEF ContextSpec

(***************************************************************************)
(* Lessons that fit the reserve of their section, and that the instructions*)
(* leave the room for, are on the block whatever Profile and Relevant      *)
(* wanted, unless the query's search listed them itself: held and render.  *)
(***************************************************************************)
THEOREM ReservesAreHonoured == ContextSpec => []ReserveHonoured
<1>1. ContextInv => ReserveHonoured
  BY DEF ContextInv
<1> QED  BY <1>1, ContextStart, ContextStepKeeps, PTL DEF ContextSpec
=============================================================================
