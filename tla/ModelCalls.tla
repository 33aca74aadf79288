------------------------------ MODULE ModelCalls ------------------------------
(***************************************************************************)
(* One request to a model: the cache in front of it                        *)
(* (analysis/model_cache.py, storage/files.py), the chat completions       *)
(* client with its single retry (analysis/openai_compatible.py), and the   *)
(* clients that run a command or call another API                          *)
(* (analysis/cli_providers.py, analysis/anthropic.py).                     *)
(*                                                                         *)
(* Several processes use one cache: engines, and runs started from the     *)
(* command line in the same directory.                                     *)
(***************************************************************************)
EXTENDS Integers, SequencesExt

CONSTANTS
  Caller,      \* processes that ask models
  Key,         \* cache entries: what is asked, of whom, for which task
  Timeout,     \* seconds a request may take
  CacheLimit   \* entries that fit the limit of the cache; 0 is no limit

ASSUME CallsAssumption == Timeout \in Nat \ {0} /\ CacheLimit \in Nat

VARIABLES
  stop,        \* caller -> its cancellation event
  call,        \* caller -> the call it is in
  cache        \* [file, tmp, order, mixed]

callVars == <<stop, call, cache>>

\* file and tmp give what is written under a key's two names: nothing, a part
\* ("cut") or all of it.  order lists the names by the time they were last
\* written, and mixed the keys two processes have written at the same time.
EmptyCache ==
  [file |-> [k \in Key |-> "none"], tmp |-> [k \in Key |-> "none"], order |-> <<>>, mixed |-> {}]

\* handle tells where the file that a caller is writing has got to: still
\* under the temporary name, under the final one, or gone.
NoCall ==
  [pc |-> "idle", key |-> "", api |-> FALSE, cached |-> FALSE, attempt |-> 0, left |-> 0,
   handle |-> "none", listed |-> <<>>, out |-> "none", late |-> 0]

CallsInit ==
  /\ stop = [c \in Caller |-> FALSE]
  /\ call = [c \in Caller |-> NoCall]
  /\ cache = EmptyCache

Step(c, held)     == call' = [call EXCEPT ![c] = held]
Return(c, answer) == Step(c, [call[c] EXCEPT !.pc = "done", !.out = answer, !.handle = "none",
                                             !.listed = <<>>, !.left = 0])

Written(order, name) == Append(SelectSeq(order, LAMBDA n : n # name), name)

Ask(c, key, api, cached) ==
  /\ call[c].pc = "idle"
  /\ Step(c, [NoCall EXCEPT !.pc = IF cached THEN "lookup" ELSE "ready", !.key = key, !.api = api,
                            !.cached = cached, !.attempt = 1, !.left = Timeout,
                            !.late = call[c].late])
  /\ UNCHANGED <<stop, cache>>

\* A hit answers without asking, even when the call is cancelled.  What
\* cannot be parsed is a miss; what cannot be decoded raises.
Lookup(c) ==
  LET key == call[c].key
  IN /\ call[c].pc = "lookup"
     /\ \/ /\ cache.file[key] = "whole"
           /\ Return(c, "answer")
           /\ cache' = IF CacheLimit > 0
                       THEN [cache EXCEPT !.order = Written(@, <<key, "file">>)] ELSE cache
        \/ /\ cache.file[key] # "whole"
           /\ Step(c, [call[c] EXCEPT !.pc = "ready"])
           /\ UNCHANGED cache
        \/ /\ cache.file[key] = "cut"
           /\ Return(c, "value_error")
           /\ UNCHANGED cache
     /\ UNCHANGED stop

(***************************************************************************)
(* The request.  Only the chat completions client looks at the             *)
(* cancellation: before it sends and after every answer or failure.        *)
(***************************************************************************)
\* Mutant: only the wait before the retry looks at the flag.
CancelledWaiting(c) == call[c].api /\ stop[c] /\ call[c].pc = "waiting"

Cancelled(c) == call[c].api /\ stop[c]

\* A secret or a command that is missing is an error without a request.
Prepare(c) ==
  /\ call[c].pc = "ready"
  /\ \/ Cancelled(c) /\ Return(c, "cancelled")
     \/ ~Cancelled(c) /\ Step(c, [call[c] EXCEPT !.pc = "prepared"])
     \/ ~Cancelled(c) /\ call[c].attempt = 1 /\ Return(c, "error")
  /\ UNCHANGED <<stop, cache>>

\* late counts the requests sent to an API although the run was cancelled.
Send(c) ==
  /\ call[c].pc = "prepared"
  /\ Step(c, [call[c] EXCEPT !.pc = "sent",
                             !.late = IF call[c].api /\ stop[c] THEN @ + 1 ELSE @])
  /\ UNCHANGED <<stop, cache>>

Receive(c) ==
  /\ call[c].pc = "sent"
  /\ IF Cancelled(c) THEN Return(c, "cancelled")
     ELSE IF call[c].cached THEN Step(c, [call[c] EXCEPT !.pc = "open", !.left = 0])
     ELSE Return(c, "answer")
  /\ UNCHANGED <<stop, cache>>

\* An HTTP error, an answer that is no JSON or has no message.
Refused(c) ==
  /\ call[c].pc = "sent"
  /\ IF Cancelled(c) THEN Return(c, "cancelled")
     ELSE Return(c, IF call[c].api THEN "transport" ELSE "error")
  /\ UNCHANGED <<stop, cache>>

\* The connection is lost after some seconds of the time that is left.
Dropped(c, seconds) ==
  LET left == call[c].left - seconds
  IN /\ call[c].pc = "sent" /\ call[c].api
     /\ seconds \in 0 .. call[c].left
     /\ IF Cancelled(c) THEN Return(c, "cancelled")
        ELSE IF call[c].attempt = 2 THEN Return(c, "retry_exhausted")
        ELSE IF left <= 1 THEN Return(c, "interrupted")
        ELSE Step(c, [call[c] EXCEPT !.pc = "waiting", !.left = left])
     /\ UNCHANGED <<stop, cache>>

\* A second, or longer, before the only retry.
Wait(c, seconds) ==
  LET left == call[c].left - seconds
  IN /\ call[c].pc = "waiting"
     /\ seconds \in 1 .. call[c].left
     /\ IF Cancelled(c) THEN Return(c, "cancelled")
        ELSE IF left <= 0 THEN Return(c, "interrupted")
        ELSE Step(c, [call[c] EXCEPT !.pc = "ready", !.left = left, !.attempt = 2])
     /\ UNCHANGED <<stop, cache>>

(***************************************************************************)
(* The answer is written under a temporary name that every process shares, *)
(* and renamed.  A failure to write it is nobody's business.               *)
(***************************************************************************)
AfterWrite(c) ==
  IF CacheLimit > 0
  THEN Step(c, [call[c] EXCEPT !.pc = "list", !.handle = "none"])
  ELSE Return(c, "answer")

OtherWriters(c, key) == {d \in Caller \ {c} : call[d].key = key /\ call[d].pc \in {"fill", "rename"}}

\* Mutant: the entry is written where it is read.
OpenInPlace(c) ==
  LET key == call[c].key
  IN /\ call[c].pc = "open"
     /\ cache' = [cache EXCEPT !.file[key] = "cut", !.order = Written(@, <<key, "file">>)]
     /\ Step(c, [call[c] EXCEPT !.pc = "fill", !.handle = "file"])
     /\ UNCHANGED stop

Open(c) ==
  LET key == call[c].key
  IN /\ call[c].pc = "open"
     /\ cache' = [cache EXCEPT !.tmp[key] = "cut", !.order = Written(@, <<key, "tmp">>),
                               !.mixed = IF OtherWriters(c, key) # {} THEN @ \cup {key} ELSE @]
     /\ Step(c, [call[c] EXCEPT !.pc = "fill", !.handle = "tmp"])
     /\ UNCHANGED stop

\* Two answers written over each other need not add up to one.
Over(content) == IF content = "whole" THEN {"whole", "cut"} ELSE {"whole"}

Fill(c) ==
  LET key == call[c].key
  IN /\ call[c].pc = "fill"
     /\ \/ /\ call[c].handle = "tmp"
           /\ \E now \in Over(cache.tmp[key]) :
                cache' = [cache EXCEPT !.tmp[key] = now, !.order = Written(@, <<key, "tmp">>)]
        \/ /\ call[c].handle = "file"
           /\ \E now \in Over(cache.file[key]) :
                cache' = [cache EXCEPT !.file[key] = now, !.order = Written(@, <<key, "file">>)]
        \/ call[c].handle = "gone" /\ UNCHANGED cache
     /\ Step(c, [call[c] EXCEPT !.pc = "rename"])
     /\ UNCHANGED stop

\* The disk is full, before anything or after a part was written.
WriteFails(c) ==
  /\ call[c].pc \in {"open", "fill"}
  /\ AfterWrite(c)
  /\ UNCHANGED <<stop, cache>>

\* Where the files others are writing are once key's file has been replaced.
Moved(key) ==
  [d \in Caller |->
     IF call[d].key # key THEN call[d]
     ELSE CASE call[d].handle = "tmp"  -> [call[d] EXCEPT !.handle = "file"]
            [] call[d].handle = "file" -> [call[d] EXCEPT !.handle = "gone"]
            [] OTHER                   -> call[d]]

Rename(c) ==
  LET key  == call[c].key
      next == [call[c] EXCEPT !.handle = "none", !.listed = <<>>,
                              !.pc  = IF CacheLimit > 0 THEN "list" ELSE "done",
                              !.out = IF CacheLimit > 0 THEN "none" ELSE "answer"]
      kept == SelectSeq(cache.order, LAMBDA n : n # <<key, "file">>)
  IN /\ call[c].pc = "rename"
     /\ IF cache.tmp[key] = "none"
        THEN /\ Step(c, next)
             /\ UNCHANGED cache
        ELSE /\ call' = [Moved(key) EXCEPT ![c] = next]
             /\ cache' = [cache EXCEPT !.file[key] = cache.tmp[key], !.tmp[key] = "none",
                            !.order = [i \in DOMAIN kept |-> IF kept[i] = <<key, "tmp">>
                                                             THEN <<key, "file">> ELSE kept[i]]]
     /\ UNCHANGED stop

(***************************************************************************)
(* The limit: the oldest files that were listed go to the Trash one by     *)
(* one, until what is left of the list fits.  An error ends it.            *)
(***************************************************************************)
List(c) ==
  LET excess == Len(cache.order) - CacheLimit
  IN /\ call[c].pc = "list"
     /\ IF excess <= 0 THEN Return(c, "answer")
        ELSE Step(c, [call[c] EXCEPT !.pc = "retire", !.listed = SubSeq(cache.order, 1, excess)])
     /\ UNCHANGED <<stop, cache>>

NamedIn(order, name) == \E i \in DOMAIN order : order[i] = name

Gone(name) ==
  [d \in Caller |->
     IF call[d].key = name[1] /\ call[d].handle = name[2]
     THEN [call[d] EXCEPT !.handle = "gone"] ELSE call[d]]

Retire(c) ==
  LET name == Head(call[c].listed)
      rest == Tail(call[c].listed)
      next == [call[c] EXCEPT !.listed = rest, !.pc  = IF rest = <<>> THEN "done" ELSE "retire",
                                               !.out = IF rest = <<>> THEN "answer" ELSE "none"]
  IN /\ call[c].pc = "retire"
     /\ NamedIn(cache.order, name)
     /\ call' = [Gone(name) EXCEPT ![c] = next]
     /\ cache' = [cache EXCEPT !.order = SelectSeq(@, LAMBDA n : n # name),
                    !.file[name[1]] = IF name[2] = "file" THEN "none" ELSE @,
                    !.tmp[name[1]]  = IF name[2] = "tmp" THEN "none" ELSE @]
     /\ UNCHANGED stop

RetireFails(c) ==
  /\ call[c].pc = "retire"
  /\ Return(c, "answer")
  /\ UNCHANGED <<stop, cache>>

CallStep(c) ==
  \/ Lookup(c) \/ Prepare(c) \/ Send(c) \/ Receive(c) \/ Refused(c)
  \/ \E s \in 0 .. Timeout : Dropped(c, s) \/ Wait(c, s)
  \/ Open(c) \/ Fill(c) \/ WriteFails(c) \/ Rename(c)
  \/ List(c) \/ Retire(c) \/ RetireFails(c)

\* The process of a caller ends: its files stay as they are.
CallerDies(c) == Step(c, [NoCall EXCEPT !.pc = "gone"])
-----------------------------------------------------------------------------
\* After its cancellation a run asks a chat completions API at most once more,
\* however far its retries, its cache and its tasks have got.
CancelStopsRequests == \A c \in Caller : call[c].late <= 1

\* An entry of the cache is only ever torn where two processes wrote it at
\* the same time: no full disk and no end of a process leaves one.
TornOnlyByTwo == \A k \in Key : cache.file[k] = "cut" => k \in cache.mixed
=============================================================================
