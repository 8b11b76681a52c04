---------------------------- MODULE ForgetConfirm ----------------------------
(***************************************************************************)
(* Forgetting by query (crates/agmem-server, tools/forget.rs run): a dry   *)
(* run shows what matches and arms the session's one confirmation slot,    *)
(* and the same call without dry_run may then act on what was shown.       *)
(*                                                                         *)
(* The calls of a session are answered concurrently, so a call's steps are *)
(* actions: the slot is taken before the store is read, a purge then walks *)
(* the chain of each row the query found, the rows are compared with the   *)
(* ones shown, and the slot is armed after the rows were read.  Other      *)
(* sessions write, close and purge rows in between.                        *)
(***************************************************************************)
EXTENDS Common, Functions

CONSTANTS
    Row,         \* ids of claims
    Matches,     \* the rows a query's text selects once they are stored, by query
    Chain,       \* the rows the links of a row lead to once they are written, by row
    Call,        \* calls the session may have under way at once
    MaxPreviews  \* bound on dry runs

Scope == [query : DOMAIN Matches, purge : BOOLEAN]

VARIABLES
    stored,      \* rows in the store
    closed,      \* stored rows whose validity is closed: a query does not select them
    purged,      \* ids of rows that were deleted, which links may still name
    slot,        \* Pending: the scope and the ids the last dry run offered
    calls,       \* the state of each call
    previews,    \* every dry run answered: its scope and what it showed
    acted        \* every forget by query that reached the store: scope and rows

forgetVars == <<stored, closed, purged, slot, calls, previews, acted>>

NoCall == [step |-> "idle", scope |-> None, dry_run |-> FALSE, shown |-> {},
           found |-> {}, targets |-> {}]

\* by_query selects live claims, and no text: cascade_documents adds nothing.
Selected(query) == {r \in stored \ closed : r \in Matches[query]}

\* history_chain: the row and every id its links name.
Links(r) == {r} \cup (Chain[r] \cap (stored \cup purged))

ForgetInit ==
    /\ stored \in SUBSET Row
    /\ closed = {} /\ purged = {}
    /\ slot = None
    /\ calls = [c \in Call |-> NoCall]
    /\ previews = {}
    /\ acted = {}

\* A dry run goes on to read; an executing call consumes the confirmation for
\* exactly its scope first, and another scope's stays in the slot.
DryRun(c) ==
    /\ calls[c].step = "idle"
    /\ Cardinality(previews) < MaxPreviews
    /\ \E scope \in Scope :
         calls' = [calls EXCEPT ![c] = [NoCall EXCEPT !.step = "read", !.scope = scope, !.dry_run = TRUE]]
    /\ UNCHANGED <<stored, closed, purged, slot, previews, acted>>

\* Mutant: any preview confirms.
ConfirmedByAny(scope) == slot # None

Confirmed(scope) == slot # None /\ slot.scope = scope

Confirm(c) ==
    /\ calls[c].step = "idle"
    /\ \E scope \in Scope :
         /\ Confirmed(scope)
         /\ calls' = [calls EXCEPT ![c] = [NoCall EXCEPT !.step = "read", !.scope = scope,
                                                       !.shown = slot.shown]]
    /\ slot' = None
    /\ UNCHANGED <<stored, closed, purged, previews, acted>>

\* by_query.  A purge goes on to the chains of what was found.
Read(call) == IF call.dry_run THEN "arm" ELSE "check"
ReadTargets(c) ==
    /\ calls[c].step = "read"
    /\ LET call == calls[c]
           found == Selected(call.scope.query)
       IN  calls' = [calls EXCEPT ![c] = IF call.scope.purge
                                         THEN [call EXCEPT !.step = "expand", !.found = found]
                                         ELSE [call EXCEPT !.step = Read(call), !.targets = found]]
    /\ UNCHANGED <<stored, closed, purged, slot, previews, acted>>

\* expand_chains: each row found is walked from in a round trip of its own, and
\* one that is gone by then, or has a link that is, refuses the call.
ExpandChain(c) ==
    /\ calls[c].step = "expand"
    /\ LET call == calls[c]
       IN  \/ /\ call.found = {}
              /\ calls' = [calls EXCEPT ![c] = [call EXCEPT !.step = Read(call)]]
           \/ \E r \in call.found :
                /\ Links(r) \subseteq stored
                /\ calls' = [calls EXCEPT ![c] = [call EXCEPT !.found = call.found \ {r},
                                                             !.targets = call.targets \cup Links(r)]]
           \/ \E r \in call.found :
                ~(Links(r) \subseteq stored) /\ calls' = [calls EXCEPT ![c] = NoCall]
    /\ UNCHANGED <<stored, closed, purged, slot, previews, acted>>

\* The dry run answers with what it read and arms the slot with it.
Arm(c) ==
    /\ calls[c].step = "arm"
    /\ slot' = [scope |-> calls[c].scope, shown |-> calls[c].targets]
    /\ previews' = previews \cup {[scope |-> calls[c].scope, shown |-> calls[c].targets,
                                   nth |-> Cardinality(previews) + 1]}
    /\ calls' = [calls EXCEPT ![c] = NoCall]
    /\ UNCHANGED <<stored, closed, purged, acted>>

\* A row the dry run never showed refuses the call, with the slot spent.
Check(c) ==
    /\ calls[c].step = "check"
    /\ calls' = [calls EXCEPT ![c] = IF calls[c].targets \subseteq calls[c].shown
                                     THEN [@ EXCEPT !.step = "act"] ELSE NoCall]
    /\ UNCHANGED <<stored, closed, purged, slot, previews, acted>>

Purge(gone) ==
    stored' = stored \ gone /\ closed' = closed \ gone /\ purged' = purged \cup gone

\* repo::forget acts on the ids it is given that are still there.
Act(c) ==
    /\ calls[c].step = "act"
    /\ IF calls[c].scope.purge
       THEN Purge(calls[c].targets)
       ELSE closed' = closed \cup (calls[c].targets \cap stored) /\ UNCHANGED <<stored, purged>>
    /\ acted' = acted \cup {[scope |-> calls[c].scope, rows |-> calls[c].targets,
                             nth |-> Cardinality(acted) + 1]}
    /\ calls' = [calls EXCEPT ![c] = NoCall]
    /\ UNCHANGED <<slot, previews>>

\* Another session remembers a claim, under an id never used before.
OtherWrites ==
    /\ \E r \in Row \ (stored \cup purged) : stored' = stored \cup {r}
    /\ UNCHANGED <<closed, purged, slot, calls, previews, acted>>

\* Another session corrects one.
OtherCloses ==
    /\ \E r \in stored \ closed : closed' = closed \cup {r}
    /\ UNCHANGED <<stored, purged, slot, calls, previews, acted>>

\* Another session purges one by its id, with its chain.
OtherPurges ==
    /\ \E r \in stored : Links(r) \subseteq stored /\ Purge(Links(r))
    /\ UNCHANGED <<slot, calls, previews, acted>>

ForgetNext ==
    \/ \E c \in Call : DryRun(c) \/ Confirm(c) \/ ReadTargets(c) \/ ExpandChain(c) \/ Arm(c)
                        \/ Check(c) \/ Act(c)
    \/ OtherWrites \/ OtherCloses \/ OtherPurges

ForgetSpec == ForgetInit /\ [][ForgetNext]_forgetVars
-----------------------------------------------------------------------------
ForgetTypeOK ==
    /\ stored \subseteq Row /\ closed \subseteq stored /\ purged \cap stored = {}
    /\ slot # None => slot.scope \in Scope /\ slot.shown \subseteq Row
    /\ \A c \in Call : calls[c].step \in {"idle", "read", "expand", "arm", "check", "act"}

(***************************************************************************)
(* Every forget by query was shown by a dry run of exactly that scope, and *)
(* each by one of its own ("consumed on use, so executing the same query   *)
(* twice means dry-running it twice"), however the calls of the session    *)
(* and the writes of others interleaved: a preview of a soft forget        *)
(* authorises no purge, and a row written since is not taken along.        *)
(***************************************************************************)
EachActWasShown ==
    \E shown \in [acted -> previews] :
        /\ IsInjective(shown)
        /\ \A a \in acted : shown[a].scope = a.scope /\ a.rows \subseteq shown[a].shown
=============================================================================
