------------------------------- MODULE HookLog -------------------------------
(***************************************************************************)
(* The editor hooks of one session and the log they share                  *)
(* (crates/agmem-server, hook.rs).                                         *)
(*                                                                         *)
(* Every hook is a process of its own: an editor that runs two tools at    *)
(* once runs two post-tool-use hooks at once, and all of them read and     *)
(* append to <data_dir>/hooks/<session>.jsonl without a lock.  first_time  *)
(* reads the log, then appends to it; append opens the file, then writes;  *)
(* prune reads a file's age, then removes it.  Each of these steps is an   *)
(* action.  A file is an inode: a line written to one that was removed     *)
(* since it was opened is lost.                                            *)
(***************************************************************************)
EXTENDS Common, SequencesExt

CONSTANTS
    Hook,          \* hook processes under way at once
    ClaimId,       \* claims a recall may return
    Transcript,    \* transcripts the session id has had
    Tokens,        \* context sizes a transcript may report
    NudgeTokens, NudgeStep, \* the arguments of user-prompt-submit
    CompactCap,    \* COMPACT_RECALLED_CAP
    MaxHooks,      \* bound on hooks run
    MaxStale       \* bound on the times the log goes untouched for a week

VARIABLES
    log,           \* the lines of the session's file, None when there is none
    inode,         \* which file it is
    stale,         \* the file was last written more than LOG_RETENTION_DAYS ago
    hooks,         \* the state of each process
    ran,           \* hooks started
    aged,          \* times the file went stale
    nudges,        \* every nudge given, by key
    excused,       \* keys whose nudge a race or a removed file may repeat
    lists          \* the last list a compaction gave, and what it should hold

hookVars == <<log, inode, stale, hooks, ran, aged, nudges, excused, lists>>

NotRunning == [step |-> "idle", key |-> None, line |-> None, file |-> 0,
         compacted |-> FALSE, due |-> {}]
Entries == IF log = None THEN << >> ELSE log
LogLine(kind, name, ids) == [kind |-> kind, name |-> name, ids |-> ids]

\* Mutant: only the last line is looked at.
RecordedLast(kind, name) ==
    Entries # << >> /\ Last(Entries).kind = kind /\ Last(Entries).name = name

Recorded(kind, name) == \E i \in DOMAIN Entries : Entries[i].kind = kind /\ Entries[i].name = name

\* Mutant: the ids of the last recall only.
RecalledLastLine(lines) ==
    LET recalls == SelectSeq(lines, LAMBDA l : l.kind = "recall")
    IN  IF recalls = << >> THEN << >> ELSE Last(recalls).ids

\* The ids of a line that out does not have yet are pushed to it.
Pushed(out, ids) ==
    LET upto[j \in 0..Len(ids)] ==
            IF j = 0 THEN out
            ELSE IF Contains(upto[j - 1], ids[j]) THEN upto[j - 1] ELSE Append(upto[j - 1], ids[j])
    IN  upto[Len(ids)]

\* recalled: the distinct ids of the recall lines, newest first.
Recalled(lines) ==
    LET line(i) == lines[Len(lines) + 1 - i]
        newest[i \in 0..Len(lines)] ==
            IF i = 0 THEN << >>
            ELSE IF line(i).kind = "recall" THEN Pushed(newest[i - 1], line(i).ids) ELSE newest[i - 1]
    IN  newest[Len(lines)]

\* wrote
Wrote == \E i \in DOMAIN Entries : Entries[i].kind = "write"

\* The step a context sits at: the threshold and whole steps above it.
Level(tokens) ==
    LET step == IF NudgeStep < 1 THEN 1 ELSE NudgeStep
    IN  NudgeTokens + ((tokens - NudgeTokens) \div step) * step

-----------------------------------------------------------------------------
HookInit ==
    /\ log = None /\ inode = 1 /\ stale = FALSE
    /\ hooks = [h \in Hook |-> NotRunning]
    /\ ran = 0 /\ aged = 0
    /\ nudges = [key \in {} |-> 0]
    /\ excused = {}
    /\ lists = [given |-> << >>, due |-> {}]

StartHook(h, state) ==
    /\ hooks[h].step = "idle" /\ ran < MaxHooks
    /\ hooks' = [hooks EXCEPT ![h] = state]
    /\ ran' = ran + 1
    /\ UNCHANGED <<log, inode, stale, aged, nudges, excused, lists>>

\* What is_push and the tool's name tell apart: where a session may pause.
Seams == {<<"push">>, <<"decision">>}

\* What the answer of an agmem tool is worth in the log, whatever wrapping it
\* came in: the ids a recall returned, or that something was written.
ToolLines == {LogLine("recall", None, <<id>>) : id \in ClaimId} \cup {LogLine("write", None, << >>)}

\* What first_time is asked about: the seams, the end of a turn, and the steps
\* of context size.
NudgeKeys ==
    Seams \cup {<<"stop">>} \cup {<<"context", Level(t), x>> : t \in Tokens, x \in Transcript}

\* Every line the log may hold; a log that is not there is none of lines.
LogLines == ToolLines \cup {LogLine("nudge", key, << >>) : key \in NudgeKeys}
ASSUME HookAssumption == None \notin Seq(LogLines) /\ CompactCap \in Nat

\* post_tool_use: a push or an answered question asks first_time, a recall
\* with hits, a remember and a reflect append a line.
PushOrDecision(h) ==
    \E key \in Seams : StartHook(h, [NotRunning EXCEPT !.step = "check", !.key = key])

ToolUsed(h) ==
    \E line \in ToolLines : StartHook(h, [NotRunning EXCEPT !.step = "open", !.line = line])

\* stop: silent when the session wrote, which one read of the log tells ...
Stop(h) == StartHook(h, [NotRunning EXCEPT !.step = "stop"])

StopAsks(h) ==
    /\ hooks[h].step = "stop"
    /\ hooks' = [hooks EXCEPT ![h] = IF Wrote THEN NotRunning ELSE [NotRunning EXCEPT !.step = "recalled"]]
    /\ UNCHANGED <<log, inode, stale, ran, aged, nudges, excused, lists>>

\* ... or recalled nothing, which is told by a second one.
StopRecalls(h) ==
    /\ hooks[h].step = "recalled"
    /\ hooks' = [hooks EXCEPT ![h] = IF Recalled(Entries) = << >> THEN NotRunning
                                     ELSE [NotRunning EXCEPT !.step = "check", !.key = <<"stop">>]]
    /\ UNCHANGED <<log, inode, stale, ran, aged, nudges, excused, lists>>

UserPromptSubmit(h) ==
    \E tokens \in Tokens, transcript \in Transcript :
        /\ NudgeTokens # 0 /\ tokens >= NudgeTokens
        /\ StartHook(h, [NotRunning EXCEPT !.step = "check", !.key = <<"context", Level(tokens), transcript>>])

RecalledIds == UNION {ToSet(Entries[i].ids) : i \in DOMAIN Entries}

\* session_start prunes first and reads the log after, when the session
\* starts from a compaction.  What it should list is what the log holds now.
SessionStart(h) ==
    \E compacted \in BOOLEAN :
        StartHook(h, [NotRunning EXCEPT !.step = "prune", !.compacted = compacted,
                              !.due = IF stale THEN {} ELSE RecalledIds])

-----------------------------------------------------------------------------
\* first_time: the log is read ...
FirstTime(h) ==
    /\ hooks[h].step = "check"
    /\ LET key == hooks[h].key
           racing == {g \in Hook \ {h} : hooks[g].key = key /\ hooks[g].step \in {"open", "write"}}
       IN  /\ hooks' = [hooks EXCEPT ![h] = IF Recorded("nudge", key) THEN NotRunning
                                            ELSE [@ EXCEPT !.step = "open", !.line = LogLine("nudge", key, << >>)]]
           /\ excused' = IF racing # {} THEN excused \cup {key} ELSE excused
    /\ UNCHANGED <<log, inode, stale, ran, aged, nudges, lists>>

\* ... append opens the file, creating it when there is none ...
OpenLog(h) ==
    /\ hooks[h].step = "open"
    /\ log' = Entries
    /\ stale' = (stale /\ log # None)
    /\ hooks' = [hooks EXCEPT ![h].step = "write", ![h].file = inode]
    /\ UNCHANGED <<inode, ran, aged, nudges, excused, lists>>

\* The nudges given, one more of key.
Given(key) ==
    [k \in DOMAIN nudges \cup {key} |->
        (IF k \in DOMAIN nudges THEN nudges[k] ELSE 0) + (IF k = key THEN 1 ELSE 0)]

\* ... and writes the line; a nudge is then given.
WriteLine(h) ==
    /\ hooks[h].step = "write"
    /\ IF hooks[h].file = inode /\ log # None
       THEN log' = Append(log, hooks[h].line) /\ stale' = FALSE
       ELSE UNCHANGED <<log, stale>>
    /\ nudges' = IF hooks[h].key = None THEN nudges ELSE Given(hooks[h].key)
    /\ hooks' = [hooks EXCEPT ![h] = NotRunning]
    /\ UNCHANGED <<inode, ran, aged, excused, lists>>

\* append only logs that it failed: the line is lost, the nudge is given.
AppendFails(h) ==
    /\ hooks[h].step = "open" /\ hooks[h].key # None
    /\ nudges' = Given(hooks[h].key)
    /\ excused' = excused \cup {hooks[h].key}
    /\ hooks' = [hooks EXCEPT ![h] = NotRunning]
    /\ UNCHANGED <<log, inode, stale, ran, aged, lists>>

\* prune, in this session's start or another's: a file seen as old is removed.
Prune(h) ==
    /\ hooks[h].step = "prune"
    /\ hooks' = [hooks EXCEPT ![h].step = IF log # None /\ stale THEN "remove" ELSE "list"]
    /\ UNCHANGED <<log, inode, stale, ran, aged, nudges, excused, lists>>

RemoveLog(h) ==
    /\ hooks[h].step = "remove"
    /\ log' = None /\ stale' = FALSE /\ inode' = inode + 1
    /\ excused' = DOMAIN nudges \cup excused \cup ({hooks[g].key : g \in Hook} \ {None})
    /\ hooks' = [g \in Hook |-> IF g = h THEN [hooks[h] EXCEPT !.step = "list", !.due = {}]
                                ELSE [hooks[g] EXCEPT !.due = {}]]
    /\ UNCHANGED <<ran, aged, nudges, lists>>

\* After a compaction the start hook lists what the session recalled.
ListRecalled(h) ==
    /\ hooks[h].step = "list"
    /\ LET all == Recalled(Entries)
       IN  lists' = IF ~hooks[h].compacted THEN lists ELSE
                [given |-> FirstOf(all, CompactCap),
                 due |-> hooks[h].due]
    /\ hooks' = [hooks EXCEPT ![h] = NotRunning]
    /\ UNCHANGED <<log, inode, stale, ran, aged, nudges, excused>>

\* A week passes without a line.
Age ==
    /\ log # None /\ ~stale /\ aged < MaxStale
    /\ stale' = TRUE /\ aged' = aged + 1
    /\ UNCHANGED <<log, inode, hooks, ran, nudges, excused, lists>>

HookNext ==
    \/ \E h \in Hook :
         \/ PushOrDecision(h) \/ ToolUsed(h) \/ Stop(h) \/ StopAsks(h) \/ StopRecalls(h)
         \/ UserPromptSubmit(h) \/ SessionStart(h) \/ FirstTime(h) \/ OpenLog(h) \/ WriteLine(h) \/ AppendFails(h)
         \/ Prune(h) \/ RemoveLog(h) \/ ListRecalled(h)
    \/ Age

HookSpec == HookInit /\ [][HookNext]_hookVars
-----------------------------------------------------------------------------
HookTypeOK ==
    /\ log # None => ToSet(log) \subseteq LogLines
    /\ stale \in BOOLEAN /\ ran \in 0..MaxHooks /\ aged \in 0..MaxStale
    /\ \A h \in Hook : hooks[h].step \in
         {"idle", "check", "stop", "recalled", "open", "write", "prune", "remove", "list"}
    /\ \A key \in DOMAIN nudges : nudges[key] > 0

(***************************************************************************)
(* "Nudges once per session", and once per step of context size: a nudge   *)
(* is repeated only when two hooks asked for it at the same time, its line *)
(* could not be written or the log was removed under them.                 *)
(***************************************************************************)
NudgedOnce == \A key \in DOMAIN nudges : nudges[key] > 1 => key \in excused

(***************************************************************************)
(* A compaction's note lists what the session had recalled when the hook   *)
(* started, each id once, as far as the cap goes, though the hook prunes   *)
(* old logs before it reads its own and others append meanwhile.           *)
(***************************************************************************)
CompactionListsRecalled ==
    /\ IsInjective(lists.given)
    /\ \/ Len(lists.given) = CompactCap
       \/ lists.due \subseteq ToSet(lists.given)
=============================================================================
