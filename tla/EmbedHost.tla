------------------------------- MODULE EmbedHost -------------------------------
(***************************************************************************)
(* The local embedding model and its thread (crates/agmem-embed, llama.rs, *)
(* with embed_passages of lib.rs) and the endpoint that may stand in for   *)
(* it (api.rs).                                                            *)
(*                                                                         *)
(* Callers send jobs down one channel and wait, each on a channel of its   *)
(* own.  The thread loads the model, serves, lets it go after an idle      *)
(* spell and loads it again for the next job; a load can fail, a decode    *)
(* can fail, and the thread can die.  A vector is the text it embeds.      *)
(***************************************************************************)
EXTENDS Common, SequencesExt

CONSTANTS
    Caller,
    Work,          \* the passages a caller may bring, a set of sequences of [id, tokens]
    SliceLen,      \* BATCH: passages per job
    BatchTokens,   \* BATCH_TOKENS
    MaxSequences,  \* MAX_SEQUENCES
    TruncateTo,    \* MAX_TOKENS
    Attempts,      \* ATTEMPTS of the endpoint
    MaxFaults,     \* bound on failed loads, decodes and requests, and on the thread's death
    MaxWorks       \* bound on calls

Texts == UNION {ToSet(work) : work \in Work}

\* The limits are counts, and a text as long as the model reads fits a batch.
ASSUME EmbedAssumption ==
    /\ \A work \in Work : work \in Seq(ToSet(work))
    /\ \A text \in Texts : text.tokens \in Nat
    /\ SliceLen \in Nat \ {0} /\ MaxSequences \in Nat \ {0}
    /\ BatchTokens \in Nat /\ TruncateTo \in 0..BatchTokens
    /\ None \notin Caller

VARIABLES
    callers,       \* each caller: the passages left, the vectors so far, its answer
    engine,        \* "llama" or "api"
    inbox,         \* the channel to the thread
    thread,        \* "load", "ready", "decode", "asleep", "exited"
    idle,          \* whether an idle spell unloads the model
    job,           \* the job in hand: pending during a load, else being decoded
    faults,
    works

embedVars == <<callers, engine, inbox, thread, idle, job, faults, works>>

Quiet == [step |-> "idle", work |-> << >>, left |-> << >>, vectors |-> << >>, tries |-> 0]
NoJob == [of |-> None, texts |-> << >>, group |-> << >>, tokens |-> 0, vectors |-> << >>]

\* tokenise: a text longer than the model reads is cut.
Tokens(text) == Smaller(text.tokens, TruncateTo)

\* Runtime::embed: a text that would overflow the group is decoded after it.
Full(text) ==
    job.tokens + Tokens(text) > BatchTokens \/ Len(job.group) = MaxSequences
Filled == [job EXCEPT !.group = Append(@, Head(job.texts)), !.texts = Tail(@),
                      !.tokens = @ + Tokens(Head(job.texts))]

-----------------------------------------------------------------------------
EmbedInit ==
    /\ callers = [c \in Caller |-> Quiet]
    /\ engine \in {"llama", "api"}
    /\ inbox = << >>
    /\ thread = "load"
    /\ idle \in BOOLEAN
    /\ job = NoJob
    /\ faults = 0
    /\ works = 0

\* embed_passages cuts the passages into slices and sends one job per slice,
\* the next when the last was answered.
Ask(c) ==
    /\ callers[c].step = "idle" /\ works < MaxWorks
    /\ \E work \in Work :
         callers' = [callers EXCEPT ![c] = [Quiet EXCEPT !.step = "send", !.work = work, !.left = work]]
    /\ works' = works + 1
    /\ UNCHANGED <<engine, inbox, thread, idle, job, faults>>

SendSlice(c) ==
    /\ callers[c].step = "send" /\ engine = "llama"
    /\ thread # "load" \/ job # NoJob    \* load() returns once the model is ready
    /\ IF callers[c].left = << >>
       THEN callers' = [callers EXCEPT ![c].step = "answered"] /\ UNCHANGED inbox
       ELSE IF thread = "exited"
       THEN callers' = [callers EXCEPT ![c].step = "error"] /\ UNCHANGED inbox
       ELSE LET slice == FirstOf(callers[c].left, SliceLen)
            IN  /\ inbox' = Append(inbox, [NoJob EXCEPT !.of = c, !.texts = slice])
                /\ callers' = [callers EXCEPT ![c].step = "wait",
                                 ![c].left = SubSeq(@, Len(slice) + 1, Len(@))]
    /\ UNCHANGED <<engine, thread, idle, job, faults, works>>

\* The error of a slice is the error of the call.
Reply(c, vectors) ==
    callers' = [callers EXCEPT ![c].step = "send", ![c].vectors = @ \o vectors]
ReplyError(c) ==
    callers' = [callers EXCEPT ![c].step = "error"]

Return(c) ==
    /\ callers[c].step \in {"answered", "error"}
    /\ callers' = [callers EXCEPT ![c] = Quiet]
    /\ UNCHANGED <<engine, inbox, thread, idle, job, faults, works>>

-----------------------------------------------------------------------------
\* serve: the model is loaded, at first or for a pending job.
Load ==
    /\ thread = "load" /\ engine = "llama"
    /\ thread' = IF job = NoJob THEN "ready" ELSE "decode"
    /\ UNCHANGED <<callers, engine, inbox, idle, job, faults, works>>

\* fail: a reload that fails answers the job that asked for it, and the next
\* job tries again.  (When the first load fails there is no embedder to call.)
ReloadFails ==
    /\ thread = "load" /\ job # NoJob /\ faults < MaxFaults
    /\ ReplyError(job.of)
    /\ job' = NoJob
    /\ thread' = "asleep"
    /\ faults' = faults + 1
    /\ UNCHANGED <<engine, inbox, idle, works>>

\* Mutant: the loop of worker waits for the model to come back by itself.
TakeJobAwake ==
    /\ thread = "ready" /\ inbox # << >>
    /\ job' = Head(inbox)
    /\ inbox' = Tail(inbox)
    /\ thread' = "decode"
    /\ UNCHANGED <<callers, engine, idle, faults, works>>

\* The next job is taken, by the loaded model or by the loop of worker.
TakeJob ==
    /\ thread \in {"ready", "asleep"} /\ inbox # << >>
    /\ job' = Head(inbox)
    /\ inbox' = Tail(inbox)
    /\ thread' = IF thread = "ready" THEN "decode" ELSE "load"
    /\ UNCHANGED <<callers, engine, idle, faults, works>>

\* recv_timeout ran out with nothing in the channel.
Unload ==
    /\ thread = "ready" /\ idle /\ inbox = << >> /\ engine = "llama"
    /\ thread' = "asleep"
    /\ UNCHANGED <<callers, engine, inbox, idle, job, faults, works>>

\* Mutant: what is left in the group when the texts run out is not decoded.
DecodeLosesTail ==
    /\ thread = "decode"
    /\ IF job.texts # << >>
       THEN /\ job' = IF job.group # << >> /\ Full(Head(job.texts))
                      THEN [job EXCEPT !.vectors = @ \o job.group, !.group = << >>, !.tokens = 0]
                      ELSE Filled
            /\ UNCHANGED <<callers, thread>>
       ELSE /\ Reply(job.of, job.vectors)
            /\ job' = NoJob /\ thread' = "ready"
    /\ UNCHANGED <<engine, inbox, idle, faults, works>>

\* Runtime::embed: fill a group, decode it when the next text does not fit,
\* and decode the last one.
Decode ==
    /\ thread = "decode"
    /\ IF job.texts # << >>
       THEN /\ job' = IF job.group # << >> /\ Full(Head(job.texts))
                      THEN [job EXCEPT !.vectors = @ \o job.group, !.group = << >>, !.tokens = 0]
                      ELSE Filled
            /\ UNCHANGED <<callers, thread>>
       ELSE /\ Reply(job.of, job.vectors \o job.group)
            /\ job' = NoJob /\ thread' = "ready"
    /\ UNCHANGED <<engine, inbox, idle, faults, works>>

DecodeFails ==
    /\ thread = "decode" /\ faults < MaxFaults
    /\ ReplyError(job.of)
    /\ job' = NoJob /\ thread' = "ready"
    /\ faults' = faults + 1
    /\ UNCHANGED <<engine, inbox, idle, works>>

\* The thread panics: the channels it holds close, and every caller that
\* waits on one is told.
ThreadDies ==
    /\ thread \in {"decode", "load"} /\ job # NoJob /\ faults < MaxFaults
    /\ thread' = "exited"
    /\ callers' = [c \in Caller |-> IF callers[c].step = "wait"
                                    THEN [callers[c] EXCEPT !.step = "error"] ELSE callers[c]]
    /\ inbox' = << >> /\ job' = NoJob
    /\ faults' = faults + 1
    /\ UNCHANGED <<engine, idle, works>>

-----------------------------------------------------------------------------
\* sort_by_key, over items that carry each index once.
ByIndex(data) ==
    [i \in DOMAIN data |-> (CHOOSE datum \in ToSet(data) : datum.index = i).text]

\* ApiEmbedder::request: the endpoint answers in any order, and the vectors
\* are sorted by the index each carries; a transient failure is tried again,
\* Attempts times in all.
Request(c) ==
    /\ callers[c].step = "send" /\ engine = "api"
    /\ IF callers[c].left = << >>
       THEN callers' = [callers EXCEPT ![c].step = "answered"]
       ELSE LET slice == FirstOf(callers[c].left, SliceLen)
            IN  \E order \in Bijection(DOMAIN slice, DOMAIN slice) :
                  LET data == [i \in DOMAIN slice |-> [index |-> order[i], text |-> slice[order[i]]]]
                  IN  callers' = [callers EXCEPT ![c].left = SubSeq(@, Len(slice) + 1, Len(@)),
                                     ![c].tries = 0,
                                     ![c].vectors = @ \o ByIndex(data)]
    /\ UNCHANGED <<engine, inbox, thread, idle, job, faults, works>>

RequestFails(c) ==
    /\ callers[c].step = "send" /\ engine = "api" /\ callers[c].left # << >>
    /\ faults < MaxFaults
    /\ faults' = faults + 1
    /\ \E transient \in BOOLEAN :
         callers' = [callers EXCEPT ![c].tries = @ + 1,
                        ![c].step = IF transient /\ callers[c].tries + 1 < Attempts THEN "send" ELSE "error"]
    /\ UNCHANGED <<engine, inbox, thread, idle, job, works>>

Worker == Load \/ ReloadFails \/ TakeJob \/ Decode \/ DecodeFails

EmbedNext ==
    \/ \E c \in Caller : Ask(c) \/ SendSlice(c) \/ Return(c) \/ Request(c) \/ RequestFails(c)
    \/ Load \/ ReloadFails \/ TakeJob \/ Unload \/ Decode \/ DecodeFails \/ ThreadDies

\* The thread runs while it has something to do, a caller's blocking task
\* runs to its end.  Nothing makes a caller call, a timeout pass or a fault.
EmbedFairness ==
    /\ WF_embedVars(Worker)
    /\ \A c \in Caller : WF_embedVars(SendSlice(c) \/ Return(c) \/ Request(c))

EmbedSpec == EmbedInit /\ [][EmbedNext]_embedVars /\ EmbedFairness
-----------------------------------------------------------------------------
\* What a decode is given fits the batch it is copied into: so many sequences,
\* and the running sum of their tokens.
FitsBatch(group) ==
    /\ Len(group) <= MaxSequences
    /\ \E sum \in [0..Len(group) -> 0..BatchTokens] :
         sum[0] = 0 /\ \A i \in 1..Len(group) : sum[i] = sum[i - 1] + Tokens(group[i])

(***************************************************************************)
(* "Embed documents for storage, in input order": whatever slices, groups  *)
(* and other callers' jobs came between, a call that is answered has one   *)
(* vector per passage, its own and in its order, no group a decode is      *)
(* given is larger than the batch it is copied into, and every job in the  *)
(* channel or in hand has a caller that waits for it.                      *)
(***************************************************************************)
VectorsInOrder ==
    /\ \A c \in Caller : callers[c].step = "answered" => callers[c].vectors = callers[c].work
    /\ \A i \in DOMAIN inbox : callers[inbox[i].of].step = "wait"
    /\ job # NoJob => callers[job.of].step = "wait"
    /\ FitsBatch(job.group)

(***************************************************************************)
(* Every call returns, with its vectors or an error: no job waits on a     *)
(* model that is asleep, failed to load or died with its channel.          *)
(***************************************************************************)
EmbedReturns ==
    \A c \in Caller : callers[c].step = "send" ~> callers[c].step = "idle"
================================================================================
