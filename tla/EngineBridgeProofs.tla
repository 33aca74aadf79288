------------------------- MODULE EngineBridgeProofs -------------------------
(***************************************************************************)
(* Proofs about EngineBridge and the ModelCalls in it, for every set of    *)
(* callers and cache entries, any timeout, any limit of the cache and any  *)
(* request the App may start an engine with.                               *)
(***************************************************************************)
EXTENDS EngineBridge, TLAPS, SequenceTheorems

-----------------------------------------------------------------------------
(* The calls.                                                              *)

Writing(c) == call[c].pc \in {"fill", "rename"}
CallOutcome == {"answer", "value_error", "cancelled"} \cup Failure

\* What an EXCEPT needs to know of a record is its fields.
IsCall(x) ==
  DOMAIN x = {"pc", "key", "api", "cached", "attempt", "left", "handle", "listed", "out", "late"}
IsCache(x) == DOMAIN x = {"file", "tmp", "order", "mixed"}

CallType ==
  /\ stop \in [Caller -> BOOLEAN]
  /\ call = [c \in Caller |-> call[c]]
  /\ \A c \in Caller : IsCall(call[c])
  /\ IsCache(cache)
  /\ cache.file \in [Key -> {"none", "cut", "whole"}]
  /\ cache.tmp \in [Key -> {"none", "cut", "whole"}]

\* The one request that may come late was prepared before the cancellation;
\* the client that has sent it looks at the flag before it prepares another.
Late(x, stopped) ==
  \/ x.late = 0
  \/ x.late = 1 /\ stopped /\ ~(x.pc = "prepared" /\ x.api)

\* A call that is over has one of these answers, and one that was cancelled a
\* flag that is set.
Orderly(x, stopped) ==
  /\ x.pc = "done" => x.out \in CallOutcome
  /\ x.pc = "done" /\ x.out = "cancelled" => stopped

CallsOrderly == \A c \in Caller : Late(call[c], stop[c]) /\ Orderly(call[c], stop[c])

\* What two processes have not written at the same time has one writer, who
\* finds what it wrote, or finds nothing.
OneWriter ==
  \A c, d \in Caller :
    Writing(c) /\ Writing(d) /\ call[c].key = call[d].key /\ call[c].key \notin cache.mixed
      => c = d
Wrote(x, tmp) ==
  \/ x.handle = "tmp" /\ tmp = IF x.pc = "fill" THEN "cut" ELSE "whole"
  \/ x.handle = "gone" /\ tmp = "none"
Unmixed ==
  \A c \in Caller :
    Writing(c) /\ call[c].key \in Key \ cache.mixed => Wrote(call[c], cache.tmp[call[c].key])

CallInv == CallType /\ CallsOrderly /\ OneWriter /\ Unmixed /\ TornOnlyByTwo

\* A caller that has not begun.
LEMMA NoCallIsCall ==
  IsCall(NoCall) /\ NoCall.pc = "idle" /\ NoCall.late = 0
  BY DEF IsCall, NoCall

\* A call that touches no file of the cache.
LEMMA CallMoves ==
  ASSUME CallInv, NEW c \in Caller, NEW held, IsCall(held),
         call' = [call EXCEPT ![c] = held],
         UNCHANGED stop, IsCache(cache'), cache'.file = cache.file, cache'.tmp = cache.tmp,
         cache'.mixed = cache.mixed,
         Late(held, stop[c]), Orderly(held, stop[c]),
         held.pc \notin {"fill", "rename"}
  PROVE  CallInv'
<1>a. CallType /\ CallsOrderly /\ OneWriter /\ Unmixed /\ TornOnlyByTwo
  BY DEF CallInv
<1>b. call'[c] = held /\ \A d \in Caller : d # c => call'[d] = call[d]
  BY <1>a DEF CallType
<1>c. ~Writing(c)' /\ \A d \in Caller : d # c => (Writing(d)' <=> Writing(d))
  BY <1>b DEF Writing
<1>1. CallType'
  BY <1>a, <1>b DEF CallType
<1>2. CallsOrderly'
  BY <1>a, <1>b DEF CallsOrderly
<1>3. OneWriter'
  BY <1>a, <1>b, <1>c DEF OneWriter
<1>4. Unmixed'
  BY <1>a, <1>b, <1>c DEF Unmixed
<1>5. TornOnlyByTwo'
  BY <1>a DEF TornOnlyByTwo
<1> QED BY <1>1, <1>2, <1>3, <1>4, <1>5 DEF CallInv


\* Leaving the cache alone keeps what is said of it.
LEMMA CacheKept ==
  ASSUME CallInv, UNCHANGED cache
  PROVE  /\ IsCache(cache') /\ cache'.file = cache.file /\ cache'.tmp = cache.tmp
         /\ cache'.mixed = cache.mixed
  BY DEF CallInv, CallType

\* A call may end, with whatever it ends with, at any time.
LEMMA Returns ==
  ASSUME CallInv, NEW c \in Caller, NEW out \in CallOutcome, out = "cancelled" => stop[c],
         Return(c, out), UNCHANGED stop, IsCache(cache'),
         cache'.file = cache.file, cache'.tmp = cache.tmp, cache'.mixed = cache.mixed
  PROVE  CallInv'
<1> DEFINE held == [call[c] EXCEPT !.pc = "done", !.out = out, !.handle = "none",
                                   !.listed = <<>>, !.left = 0]
<1>1. IsCall(call[c]) /\ Late(call[c], stop[c])
  BY DEF CallInv, CallType, CallsOrderly
<1>2. /\ IsCall(held) /\ held.pc = "done" /\ held.out = out
      /\ held.late = call[c].late
  BY <1>1 DEF IsCall
<1>3. call' = [call EXCEPT ![c] = held]
  BY DEF Return, Step
<1> HIDE DEF held
<1>4. Late(held, stop[c]) /\ Orderly(held, stop[c])
  BY <1>1, <1>2 DEF Late, Orderly
<1> QED BY <1>2, <1>3, <1>4, CallMoves

\* A new call of a caller, whose late request is not forgotten.
LEMMA AskPreserves ==
  ASSUME CallInv, NEW c \in Caller, NEW key, NEW api, NEW cached, Ask(c, key, api, cached)
  PROVE  CallInv'
<1> DEFINE pc == IF cached THEN "lookup" ELSE "ready"
<1> DEFINE held == [NoCall EXCEPT !.pc = pc, !.key = key, !.api = api,
                            !.cached = cached, !.attempt = 1, !.left = Timeout,
                            !.late = call[c].late]
<1>0. pc \in {"lookup", "ready"}
  OBVIOUS
<1>2. call' = [call EXCEPT ![c] = held] /\ UNCHANGED <<stop, cache>>
  BY DEF Ask, Step
<1> HIDE DEF pc
<1>1. IsCall(held) /\ held.pc = pc /\ held.late = call[c].late
  BY NoCallIsCall DEF IsCall
<1> HIDE DEF held
<1>3. Late(held, stop[c]) /\ Orderly(held, stop[c])
  BY <1>0, <1>1 DEF CallInv, CallsOrderly, Late, Orderly
<1>4. held.pc \notin {"fill", "rename"}
  BY <1>0, <1>1
<1> QED BY <1>1, <1>2, <1>3, <1>4, CacheKept, CallMoves

\* A caller is ready for the next call, or gone.
LEMMA CallEnds ==
  ASSUME CallInv, NEW c \in Caller, UNCHANGED <<stop, cache>>,
         CallerDies(c) \/ Step(c, [NoCall EXCEPT !.late = call[c].late])
  PROVE  CallInv'
<1>1. CASE CallerDies(c)
  <2> DEFINE held == [NoCall EXCEPT !.pc = "gone"]
  <2>1. IsCall(held) /\ held.pc = "gone" /\ held.late = 0
    BY NoCallIsCall DEF IsCall
  <2>2. call' = [call EXCEPT ![c] = held]
    BY <1>1 DEF CallerDies, Step
  <2> HIDE DEF held
  <2>3. Late(held, stop[c]) /\ Orderly(held, stop[c])
    BY <2>1 DEF Late, Orderly
  <2> QED BY <2>1, <2>2, <2>3, CacheKept, CallMoves
<1>2. CASE Step(c, [NoCall EXCEPT !.late = call[c].late])
  <2> DEFINE held == [NoCall EXCEPT !.late = call[c].late]
  <2>1. IsCall(held) /\ held.pc = "idle" /\ held.late = call[c].late
    BY NoCallIsCall DEF IsCall
  <2>2. call' = [call EXCEPT ![c] = held]
    BY <1>2 DEF Step
  <2> HIDE DEF held
  <2>3. Late(held, stop[c]) /\ Orderly(held, stop[c])
    BY <2>1 DEF CallInv, CallsOrderly, Late, Orderly
  <2> QED BY <2>1, <2>2, <2>3, CacheKept, CallMoves
<1> QED BY <1>1, <1>2

\* A step from one place to another with the same files: out, attempt, left
\* and listed may change with it.
LEMMA CallGoesOn ==
  ASSUME CallInv, NEW c \in Caller, UNCHANGED <<stop, cache>>,
         NEW held, IsCall(held), call' = [call EXCEPT ![c] = held],
         held.late = call[c].late, held.api = call[c].api,
         held.pc \in {"ready", "open", "waiting", "list", "retire"}
  PROVE  CallInv'
<1>1. Late(held, stop[c]) /\ Orderly(held, stop[c]) /\ held.pc \notin {"fill", "rename"}
  BY DEF CallInv, CallsOrderly, Late, Orderly
<1> QED BY <1>1, CacheKept, CallMoves

\* The steps before the answer is written.
LEMMA RequestPreserves ==
  ASSUME CallInv, NEW c \in Caller,
         \/ Lookup(c) \/ Prepare(c) \/ Send(c) \/ Receive(c) \/ Refused(c)
         \/ \E s \in 0 .. Timeout : Dropped(c, s) \/ Wait(c, s)
  PROVE  CallInv'
<1>a. /\ IsCall(call[c]) /\ Late(call[c], stop[c]) /\ Orderly(call[c], stop[c])
      /\ IsCache(cache) /\ stop[c] \in BOOLEAN
  BY DEF CallInv, CallType, CallsOrderly
<1>b. ASSUME NEW out \in CallOutcome, Return(c, out), UNCHANGED <<stop, cache>>,
             out = "cancelled" => stop[c]
      PROVE  CallInv'
  BY <1>b, Returns, CacheKept
<1>c. Cancelled(c) => stop[c]
  BY DEF Cancelled
<1>1. CASE Lookup(c)
  <2>1. CASE Return(c, "answer") /\ cache' = IF CacheLimit > 0
               THEN [cache EXCEPT !.order = Written(@, <<call[c].key, "file">>)] ELSE cache
    <3>1. /\ IsCache(cache') /\ cache'.file = cache.file /\ cache'.tmp = cache.tmp
          /\ cache'.mixed = cache.mixed
      BY <1>a, <2>1 DEF IsCache
    <3>2. "answer" \in CallOutcome /\ UNCHANGED stop
      BY <1>1 DEF CallOutcome, Lookup
    <3> QED BY <2>1, <3>1, <3>2, Returns
  <2>2. CASE Step(c, [call[c] EXCEPT !.pc = "ready"]) /\ UNCHANGED cache
    <3> DEFINE held == [call[c] EXCEPT !.pc = "ready"]
    <3>1. IsCall(held) /\ held.pc = "ready" /\ held.late = call[c].late
          /\ held.api = call[c].api
      BY <1>a DEF IsCall
    <3>2. call' = [call EXCEPT ![c] = held] /\ UNCHANGED <<stop, cache>>
      BY <1>1, <2>2 DEF Step, Lookup
    <3> HIDE DEF held
    <3> QED BY <3>1, <3>2, CallGoesOn
  <2>3. CASE Return(c, "value_error") /\ UNCHANGED cache
    BY <1>1, <1>b, <2>3 DEF Lookup, CallOutcome
  <2> QED BY <1>1, <2>1, <2>2, <2>3 DEF Lookup
<1>2. CASE Prepare(c)
  <2>1. CASE ~Cancelled(c) /\ Step(c, [call[c] EXCEPT !.pc = "prepared"])
    <3> DEFINE held == [call[c] EXCEPT !.pc = "prepared"]
    <3>1. IsCall(held) /\ held.pc = "prepared"
          /\ held.late = call[c].late /\ held.api = call[c].api
      BY <1>a DEF IsCall
    <3>2. call' = [call EXCEPT ![c] = held] /\ UNCHANGED <<stop, cache>>
      BY <1>2, <2>1 DEF Step, Prepare
    <3> HIDE DEF held
    <3>3. Late(held, stop[c]) /\ Orderly(held, stop[c]) /\ held.pc \notin {"fill", "rename"}
      BY <1>a, <2>1, <3>1 DEF Late, Orderly, Cancelled
    <3> QED BY <3>1, <3>2, <3>3, CacheKept, CallMoves
  <2>2. CASE Cancelled(c) /\ Return(c, "cancelled")
    BY <1>2, <1>b, <1>c, <2>2 DEF Prepare, CallOutcome
  <2>3. CASE Return(c, "error")
    BY <1>2, <1>b, <2>3 DEF Prepare, CallOutcome, Failure
  <2> QED BY <1>2, <2>1, <2>2, <2>3 DEF Prepare
<1>3. CASE Send(c)
  <2> DEFINE late == IF call[c].api /\ stop[c] THEN call[c].late + 1 ELSE call[c].late
  <2> DEFINE held == [call[c] EXCEPT !.pc = "sent", !.late = late]
  <2>0. call' = [call EXCEPT ![c] = held] /\ UNCHANGED <<stop, cache>> /\ call[c].pc = "prepared"
    BY <1>3 DEF Send, Step
  <2>1. late = 0 \/ (late = 1 /\ stop[c])
    BY <1>a, <2>0 DEF Late
  <2> HIDE DEF late
  <2>2. IsCall(held) /\ held.pc = "sent" /\ held.late = late
    BY <1>a DEF IsCall
  <2> HIDE DEF held
  <2>3. Late(held, stop[c]) /\ Orderly(held, stop[c]) /\ held.pc \notin {"fill", "rename"}
    BY <2>1, <2>2 DEF Late, Orderly
  <2> QED BY <2>0, <2>2, <2>3, CacheKept, CallMoves
<1>4. CASE Receive(c)
  <2>1. CASE Step(c, [call[c] EXCEPT !.pc = "open", !.left = 0])
    <3> DEFINE held == [call[c] EXCEPT !.pc = "open", !.left = 0]
    <3>1. IsCall(held) /\ held.pc = "open"
          /\ held.late = call[c].late /\ held.api = call[c].api
      BY <1>a DEF IsCall
    <3>2. call' = [call EXCEPT ![c] = held] /\ UNCHANGED <<stop, cache>>
      BY <1>4, <2>1 DEF Step, Receive
    <3> HIDE DEF held
    <3> QED BY <3>1, <3>2, CallGoesOn
  <2>2. CASE Cancelled(c) /\ Return(c, "cancelled")
    BY <1>4, <1>b, <1>c, <2>2 DEF Receive, CallOutcome
  <2>3. CASE Return(c, "answer")
    BY <1>4, <1>b, <2>3 DEF Receive, CallOutcome
  <2> QED BY <1>4, <2>1, <2>2, <2>3 DEF Receive
<1>5. CASE Refused(c)
  BY <1>5, <1>b, <1>c DEF Refused, CallOutcome, Failure
<1>6. ASSUME NEW s \in 0 .. Timeout, Dropped(c, s) PROVE CallInv'
  <2>1. CASE Step(c, [call[c] EXCEPT !.pc = "waiting", !.left = call[c].left - s])
    <3> DEFINE left == call[c].left - s
    <3> DEFINE held == [call[c] EXCEPT !.pc = "waiting", !.left = left]
    <3>2. call' = [call EXCEPT ![c] = held] /\ UNCHANGED <<stop, cache>>
      BY <1>6, <2>1 DEF Step, Dropped
    <3> HIDE DEF left
    <3>1. IsCall(held) /\ held.pc = "waiting"
          /\ held.late = call[c].late /\ held.api = call[c].api
      BY <1>a DEF IsCall
    <3> HIDE DEF held
    <3> QED BY <3>1, <3>2, CallGoesOn
  <2>2. CASE Cancelled(c) /\ Return(c, "cancelled")
    BY <1>6, <1>b, <1>c, <2>2 DEF Dropped, CallOutcome
  <2>3. CASE Return(c, "retry_exhausted")
    BY <1>6, <1>b, <2>3 DEF Dropped, CallOutcome, Failure
  <2>4. CASE Return(c, "interrupted")
    BY <1>6, <1>b, <2>4 DEF Dropped, CallOutcome, Failure
  <2> QED BY <1>6, <2>1, <2>2, <2>3, <2>4 DEF Dropped
<1>7. ASSUME NEW s \in 0 .. Timeout, Wait(c, s) PROVE CallInv'
  <2>1. CASE Step(c, [call[c] EXCEPT !.pc = "ready", !.left = call[c].left - s, !.attempt = 2])
    <3> DEFINE left == call[c].left - s
    <3> DEFINE held == [call[c] EXCEPT !.pc = "ready", !.left = left, !.attempt = 2]
    <3>2. call' = [call EXCEPT ![c] = held] /\ UNCHANGED <<stop, cache>>
      BY <1>7, <2>1 DEF Step, Wait
    <3> HIDE DEF left
    <3>1. IsCall(held) /\ held.pc = "ready"
          /\ held.late = call[c].late /\ held.api = call[c].api
      BY <1>a DEF IsCall
    <3> HIDE DEF held
    <3> QED BY <3>1, <3>2, CallGoesOn
  <2>2. CASE Cancelled(c) /\ Return(c, "cancelled")
    BY <1>7, <1>b, <1>c, <2>2 DEF Wait, CallOutcome
  <2>3. CASE Return(c, "interrupted")
    BY <1>7, <1>b, <2>3 DEF Wait, CallOutcome, Failure
  <2> QED BY <1>7, <2>1, <2>2, <2>3 DEF Wait
<1> QED BY <1>1, <1>2, <1>3, <1>4, <1>5, <1>6, <1>7

\* Who opens the shared temporary file is its only writer, or the entry is
\* marked.
LEMMA OpenPreserves ==
  ASSUME CallInv, NEW c \in Caller, Open(c)
  PROVE  CallInv'
<1>a. CallType /\ CallsOrderly /\ OneWriter /\ Unmixed /\ TornOnlyByTwo
  BY DEF CallInv
<1> DEFINE key == call[c].key
<1> DEFINE held == [call[c] EXCEPT !.pc = "fill", !.handle = "tmp"]
<1>0. /\ call' = [call EXCEPT ![c] = held] /\ UNCHANGED stop /\ call[c].pc = "open"
  BY DEF Open, Step
<1>1. /\ IsCall(held) /\ held.pc = "fill" /\ held.handle = "tmp" /\ held.key = key
      /\ held.late = call[c].late
  BY <1>a DEF CallType, IsCall
<1>2. /\ IsCache(cache') /\ cache'.file = cache.file
      /\ cache'.tmp = [cache.tmp EXCEPT ![key] = "cut"]
      /\ cache'.mixed = IF OtherWriters(c, key) # {} THEN cache.mixed \cup {key} ELSE cache.mixed
  BY <1>a DEF Open, CallType, IsCache
<1> HIDE DEF held, key
<1>b. call'[c] = held /\ \A d \in Caller : d # c => call'[d] = call[d]
  BY <1>a, <1>0 DEF CallType
<1>c. \A d \in Caller : d # c => (Writing(d)' <=> Writing(d))
  BY <1>b DEF Writing
<1>d. key \notin cache'.mixed => \A d \in Caller : d # c /\ call[d].key = key => ~Writing(d)
  BY <1>2 DEF OtherWriters, Writing
<1>3. CallType'
  BY <1>a, <1>0, <1>b, <1>1, <1>2 DEF CallType
<1>4. CallsOrderly'
  <2>1. Late(held, stop[c]) /\ Orderly(held, stop[c])
    BY <1>a, <1>1 DEF CallsOrderly, Late, Orderly
  <2> QED BY <1>a, <1>0, <1>b, <2>1 DEF CallsOrderly
<1>5. OneWriter'
  <2>1. ASSUME NEW d \in Caller, d # c, Writing(d)', call'[d].key = key PROVE key \in cache'.mixed
    BY <1>b, <1>c, <1>d, <2>1
  <2>2. ASSUME NEW d \in Caller, NEW e \in Caller, d # c, e # c, Writing(d)', Writing(e)',
               call'[d].key = call'[e].key, call'[d].key \notin cache'.mixed
        PROVE  d = e
    BY <1>a, <1>b, <1>c, <1>2, <2>2 DEF OneWriter
  <2>3. call'[c].key = key
    BY <1>b, <1>1
  <2> QED BY <2>1, <2>2, <2>3 DEF OneWriter
<1>6. Unmixed'
  <2>1. ASSUME key \in Key PROVE Wrote(call'[c], cache'.tmp[key])
    BY <1>a, <1>b, <1>1, <1>2, <2>1 DEF CallType, Wrote
  <2>2. ASSUME NEW d \in Caller, d # c, Writing(d)', call'[d].key \in Key \ cache'.mixed
        PROVE  Wrote(call'[d], cache'.tmp[call'[d].key])
    <3>1. call'[d] = call[d] /\ Writing(d) /\ call[d].key # key /\ call[d].key \in Key \ cache.mixed
      BY <1>b, <1>c, <1>d, <1>2, <2>2
    <3>2. cache'.tmp[call[d].key] = cache.tmp[call[d].key]
      BY <1>a, <1>2, <3>1 DEF CallType
    <3> QED BY <1>a, <3>1, <3>2 DEF Unmixed
  <2>3. call'[c].key = key
    BY <1>b, <1>1
  <2> QED BY <2>1, <2>2, <2>3 DEF Unmixed
<1>7. TornOnlyByTwo'
  BY <1>a, <1>2 DEF TornOnlyByTwo
<1> QED BY <1>3, <1>4, <1>5, <1>6, <1>7 DEF CallInv

\* The only writer of an entry completes what it has begun.
LEMMA FillPreserves ==
  ASSUME CallInv, NEW c \in Caller, Fill(c)
  PROVE  CallInv'
<1>a. CallType /\ CallsOrderly /\ OneWriter /\ Unmixed /\ TornOnlyByTwo
  BY DEF CallInv
<1> DEFINE key == call[c].key
<1> DEFINE held == [call[c] EXCEPT !.pc = "rename"]
<1>0. /\ call' = [call EXCEPT ![c] = held] /\ UNCHANGED stop /\ call[c].pc = "fill"
  BY DEF Fill, Step
<1>1. /\ IsCall(held) /\ held.pc = "rename" /\ held.handle = call[c].handle /\ held.key = key
      /\ held.late = call[c].late
  BY <1>a DEF CallType, IsCall
<1> HIDE DEF held
<1>b. call'[c] = held /\ \A d \in Caller : d # c => call'[d] = call[d]
  BY <1>a, <1>0 DEF CallType
<1>c. \A d \in Caller : Writing(d)' <=> Writing(d)
  BY <1>b, <1>0, <1>1 DEF Writing
<1>d. \A d \in Caller : call'[d].key = call[d].key
  BY <1>b, <1>1
<1>e. Writing(c)
  BY <1>0 DEF Writing
<1>2. /\ IsCache(cache') /\ cache'.mixed = cache.mixed
      /\ \/ /\ call[c].handle = "tmp" /\ cache'.file = cache.file
            /\ \E now \in {"whole", "cut"} :
                 /\ cache.tmp[key] = "cut" => now = "whole"
                 /\ cache'.tmp = [cache.tmp EXCEPT ![key] = now]
         \/ /\ call[c].handle = "file" /\ cache'.tmp = cache.tmp
            /\ \E now \in {"whole", "cut"} : cache'.file = [cache.file EXCEPT ![key] = now]
         \/ call[c].handle = "gone" /\ cache'.file = cache.file /\ cache'.tmp = cache.tmp
  <2>1. IsCache(cache) /\ UNCHANGED stop
    BY <1>a, <1>0 DEF CallType
  <2>2. ASSUME NEW now \in Over(cache.tmp[key]), call[c].handle = "tmp",
               cache' = [cache EXCEPT !.tmp[key] = now, !.order = Written(@, <<key, "tmp">>)]
        PROVE  /\ IsCache(cache') /\ cache'.mixed = cache.mixed /\ cache'.file = cache.file
               /\ now \in {"whole", "cut"} /\ (cache.tmp[key] = "cut" => now = "whole")
               /\ cache'.tmp = [cache.tmp EXCEPT ![key] = now]
    BY <2>1, <2>2 DEF IsCache, Over
  <2>3. ASSUME NEW now \in Over(cache.file[key]), call[c].handle = "file",
               cache' = [cache EXCEPT !.file[key] = now, !.order = Written(@, <<key, "file">>)]
        PROVE  /\ IsCache(cache') /\ cache'.mixed = cache.mixed /\ cache'.tmp = cache.tmp
               /\ now \in {"whole", "cut"} /\ cache'.file = [cache.file EXCEPT ![key] = now]
    BY <2>1, <2>3 DEF IsCache, Over
  <2> QED BY <2>1, <2>2, <2>3 DEF Fill
<1>3. CallType'
  <2>0. cache.file \in [Key -> {"none", "cut", "whole"}]
        /\ cache.tmp \in [Key -> {"none", "cut", "whole"}]
    BY <1>a DEF CallType
  <2>1. ASSUME NEW f \in [Key -> {"none", "cut", "whole"}], NEW now \in {"whole", "cut"}
        PROVE  [f EXCEPT ![key] = now] \in [Key -> {"none", "cut", "whole"}]
    OBVIOUS
  <2>2. cache'.file \in [Key -> {"none", "cut", "whole"}]
        /\ cache'.tmp \in [Key -> {"none", "cut", "whole"}]
    BY <1>2, <2>0, <2>1
  <2> QED BY <1>a, <1>0, <1>b, <1>1, <1>2, <2>2 DEF CallType
<1>4. CallsOrderly'
  <2>1. Late(held, stop[c]) /\ Orderly(held, stop[c])
    BY <1>a, <1>1 DEF CallsOrderly, Late, Orderly
  <2> QED BY <1>a, <1>0, <1>b, <2>1 DEF CallsOrderly
<1>5. OneWriter'
  BY <1>a, <1>c, <1>d, <1>2 DEF OneWriter
<1>6. Unmixed'
  <2>1. ASSUME key \in Key \ cache.mixed PROVE Wrote(held, cache'.tmp[key])
    <3>1. Wrote(call[c], cache.tmp[key])
      BY <1>a, <1>e, <2>1 DEF Unmixed
    <3>2. \/ call[c].handle = "tmp" /\ cache.tmp[key] = "cut"
          \/ call[c].handle = "gone" /\ cache.tmp[key] = "none"
      BY <1>0, <3>1 DEF Wrote
    <3>3. CASE call[c].handle = "tmp" /\ cache.tmp[key] = "cut"
      <4>1. cache'.tmp[key] = "whole"
        BY <1>a, <1>2, <2>1, <3>3 DEF CallType
      <4> QED BY <1>1, <3>3, <4>1 DEF Wrote
    <3>4. CASE call[c].handle = "gone" /\ cache.tmp[key] = "none"
      BY <1>1, <1>2, <3>4 DEF Wrote
    <3> QED BY <3>2, <3>3, <3>4
  <2>2. ASSUME NEW d \in Caller, d # c, Writing(d), call[d].key \in Key \ cache.mixed
        PROVE  Wrote(call'[d], cache'.tmp[call[d].key])
    <3>1. call[d].key # key
      BY <1>a, <1>e, <2>2 DEF OneWriter
    <3>2. cache'.tmp[call[d].key] = cache.tmp[call[d].key]
      BY <1>a, <1>2, <2>2, <3>1 DEF CallType
    <3> QED BY <1>a, <1>b, <2>2, <3>2 DEF Unmixed
  <2> QED BY <1>b, <1>c, <1>d, <1>1, <1>2, <2>1, <2>2 DEF Unmixed
<1>7. TornOnlyByTwo'
  <2>1. ASSUME NEW k \in Key, cache'.file[k] = "cut" PROVE k \in cache.mixed
    <3>1. CASE cache'.file = cache.file
      BY <1>a, <2>1, <3>1 DEF TornOnlyByTwo
    <3>2. CASE call[c].handle = "file" /\ key # k
      BY <1>a, <1>2, <2>1, <3>2 DEF TornOnlyByTwo, CallType
    <3>3. CASE call[c].handle = "file" /\ key = k
      BY <1>a, <1>e, <3>3 DEF Unmixed, Wrote
    <3> QED BY <1>2, <3>1, <3>2, <3>3
  <2> QED BY <1>2, <2>1 DEF TornOnlyByTwo
<1> QED BY <1>3, <1>4, <1>5, <1>6, <1>7 DEF CallInv

\* What a step of c on the files does to the others is at most to move their
\* handles.
OthersMove(c) ==
  \A d \in Caller \ {c} :
    /\ IsCall(call'[d])
    /\ call'[d].pc = call[d].pc /\ call'[d].key = call[d].key /\ call'[d].out = call[d].out
    /\ call'[d].api = call[d].api /\ call'[d].late = call[d].late

\* What a step of one caller, which is not writing, leaves of the others.
LEMMA OthersKept ==
  ASSUME CallInv, NEW c \in Caller, OthersMove(c), UNCHANGED stop, IsCall(call'[c]),
         Late(call'[c], stop[c]), Orderly(call'[c], stop[c]), ~Writing(c)',
         cache'.mixed = cache.mixed
  PROVE  /\ \A d \in Caller : IsCall(call'[d])
         /\ CallsOrderly' /\ OneWriter'
         /\ \A d \in Caller : Writing(d)' => d # c /\ Writing(d) /\ call'[d].key = call[d].key
<1>a. CallType /\ CallsOrderly /\ OneWriter
  BY DEF CallInv
<1>b. \A d \in Caller : d # c =>
        /\ IsCall(call'[d])
        /\ call'[d].pc = call[d].pc /\ call'[d].key = call[d].key /\ call'[d].out = call[d].out
        /\ call'[d].api = call[d].api /\ call'[d].late = call[d].late
  BY DEF OthersMove
<1>1. \A d \in Caller : IsCall(call'[d])
  BY <1>b
<1>2. \A d \in Caller : Writing(d)' => d # c /\ Writing(d) /\ call'[d].key = call[d].key
  BY <1>b DEF Writing
<1>3. CallsOrderly'
  <2>1. ASSUME NEW d \in Caller PROVE Late(call'[d], stop[d]) /\ Orderly(call'[d], stop[d])
    <3>1. CASE d = c
      BY <3>1
    <3>2. CASE d # c
      BY <1>a, <1>b, <3>2 DEF CallsOrderly, Late, Orderly
    <3> QED BY <3>1, <3>2
  <2> QED BY <2>1 DEF CallsOrderly
<1>4. OneWriter'
  BY <1>a, <1>2 DEF OneWriter
<1> QED BY <1>1, <1>2, <1>3, <1>4

\* The only writer of an entry replaces it by all of what it wrote.
LEMMA RenamePreserves ==
  ASSUME CallInv, NEW c \in Caller, Rename(c)
  PROVE  CallInv'
<1>a. CallType /\ CallsOrderly /\ OneWriter /\ Unmixed /\ TornOnlyByTwo
  BY DEF CallInv
<1> DEFINE key == call[c].key
<1> DEFINE pc  == IF CacheLimit > 0 THEN "list" ELSE "done"
<1> DEFINE out == IF CacheLimit > 0 THEN "none" ELSE "answer"
<1> DEFINE held == [call[c] EXCEPT !.handle = "none", !.listed = <<>>, !.pc = pc, !.out = out]
<1>0. UNCHANGED stop /\ call[c].pc = "rename" /\ Writing(c)
  BY DEF Rename, Writing
<1>1. \/ call' = [call EXCEPT ![c] = held] /\ UNCHANGED cache
      \/ call' = [Moved(key) EXCEPT ![c] = held] /\ cache.tmp[key] # "none"
  BY DEF Rename, Step
<1>2. pc \in {"list", "done"} /\ (pc = "done" => out = "answer")
  OBVIOUS
<1> HIDE DEF pc, out
<1>3. IsCall(held) /\ held.pc = pc /\ held.out = out /\ held.late = call[c].late
  BY <1>a DEF CallType, IsCall
<1>4. cache.tmp[key] = "none" \/ (/\ IsCache(cache') /\ cache'.mixed = cache.mixed
                                  /\ cache'.file = [cache.file EXCEPT ![key] = cache.tmp[key]]
                                  /\ cache'.tmp = [cache.tmp EXCEPT ![key] = "none"]
                                  /\ call' = [Moved(key) EXCEPT ![c] = held])
  <2>1. IsCache(cache)
    BY <1>a DEF CallType
  <2>2. ASSUME NEW order,
               cache' = [cache EXCEPT !.file[key] = cache.tmp[key], !.tmp[key] = "none",
                                      !.order = order]
        PROVE  /\ IsCache(cache') /\ cache'.mixed = cache.mixed
               /\ cache'.file = [cache.file EXCEPT ![key] = cache.tmp[key]]
               /\ cache'.tmp = [cache.tmp EXCEPT ![key] = "none"]
    BY <2>1, <2>2 DEF IsCache
  <2>3. cache.tmp[key] # "none" =>
          /\ call' = [Moved(key) EXCEPT ![c] = held]
          /\ \E order : cache' = [cache EXCEPT !.file[key] = cache.tmp[key], !.tmp[key] = "none",
                                               !.order = order]
    BY DEF Rename, pc, out
  <2> QED BY <2>2, <2>3
<1>5. cache.tmp[key] = "none" => call' = [call EXCEPT ![c] = held] /\ UNCHANGED cache
  BY DEF Rename, Step, pc, out
<1> HIDE DEF held
<1>6. Late(held, stop[c]) /\ Orderly(held, stop[c]) /\ held.pc \notin {"fill", "rename"}
  BY <1>a, <1>0, <1>2, <1>3 DEF CallsOrderly, Late, Orderly, CallOutcome
<1>7. CASE cache.tmp[key] = "none"
  BY <1>0, <1>3, <1>5, <1>6, <1>7, CacheKept, CallMoves
<1>8. CASE cache.tmp[key] # "none"
  <2>1. /\ IsCache(cache') /\ cache'.mixed = cache.mixed
        /\ cache'.file = [cache.file EXCEPT ![key] = cache.tmp[key]]
        /\ cache'.tmp = [cache.tmp EXCEPT ![key] = "none"]
        /\ call' = [Moved(key) EXCEPT ![c] = held]
    BY <1>4, <1>8
  <2>2. /\ call' = [d \in Caller |-> call'[d]] /\ call'[c] = held
        /\ \A d \in Caller : d # c => call'[d] = Moved(key)[d]
    BY <2>1 DEF Moved
  <2>3. \A d \in Caller : IsCall(call[d])
    BY <1>a DEF CallType
  <2>4. OthersMove(c) /\ \A d \in Caller : d # c /\ call[d].key # key => call'[d] = call[d]
    <3>1. ASSUME NEW d \in Caller, d # c
          PROVE  /\ IsCall(call'[d])
                 /\ call'[d].pc = call[d].pc /\ call'[d].key = call[d].key
                 /\ call'[d].out = call[d].out
                 /\ call'[d].api = call[d].api /\ call'[d].late = call[d].late
      <4>1. \/ call'[d] = call[d] \/ call'[d] = [call[d] EXCEPT !.handle = "file"]
            \/ call'[d] = [call[d] EXCEPT !.handle = "gone"]
        BY <2>2, <3>1 DEF Moved
      <4> QED BY <2>3, <4>1 DEF IsCall
    <3>2. ASSUME NEW d \in Caller, d # c, call[d].key # key PROVE call'[d] = call[d]
      BY <2>2, <3>2 DEF Moved
    <3> QED BY <3>1, <3>2 DEF OthersMove
  <2>5. ~Writing(c)' /\ IsCall(call'[c]) /\ Late(call'[c], stop[c]) /\ Orderly(call'[c], stop[c])
    BY <1>3, <1>6, <2>2 DEF Writing
  <2>6. /\ \A d \in Caller : IsCall(call'[d])
        /\ CallsOrderly' /\ OneWriter'
        /\ \A d \in Caller : Writing(d)' => d # c /\ Writing(d) /\ call'[d].key = call[d].key
    BY <1>0, <2>1, <2>4, <2>5, OthersKept
  <2>7. CallType'
    <3>1. cache'.file \in [Key -> {"none", "cut", "whole"}]
          /\ cache'.tmp \in [Key -> {"none", "cut", "whole"}]
      BY <1>a, <2>1 DEF CallType
    <3> QED BY <1>a, <1>0, <2>1, <2>2, <2>6, <3>1 DEF CallType
  <2>8. Unmixed'
    <3>1. ASSUME NEW d \in Caller, Writing(d)', call'[d].key \in Key \ cache'.mixed
          PROVE  Wrote(call'[d], cache'.tmp[call'[d].key])
      <4>1. d # c /\ Writing(d) /\ call'[d].key = call[d].key
        BY <2>6, <3>1
      <4>2. call[d].key # key
        BY <1>a, <1>0, <2>1, <3>1, <4>1 DEF OneWriter
      <4>3. call'[d] = call[d] /\ cache'.tmp[call[d].key] = cache.tmp[call[d].key]
        BY <1>a, <2>1, <2>4, <3>1, <4>1, <4>2 DEF CallType
      <4> QED BY <1>a, <2>1, <3>1, <4>1, <4>3 DEF Unmixed
    <3> QED BY <3>1 DEF Unmixed
  <2>9. TornOnlyByTwo'
    <3>1. ASSUME NEW k \in Key, cache'.file[k] = "cut" PROVE k \in cache.mixed
      <4>1. CASE k # key
        BY <1>a, <2>1, <3>1, <4>1 DEF CallType, TornOnlyByTwo
      <4>2. CASE k = key
        <5>1. cache.tmp[key] = "cut"
          BY <1>a, <2>1, <3>1, <4>2 DEF CallType
        <5>2. ~Wrote(call[c], cache.tmp[key])
          BY <1>0, <5>1 DEF Wrote
        <5> QED BY <1>a, <1>0, <4>2, <5>2 DEF Unmixed
      <4> QED BY <4>1, <4>2
    <3> QED BY <2>1, <3>1 DEF TornOnlyByTwo
  <2> QED BY <2>6, <2>7, <2>8, <2>9 DEF CallInv
<1> QED BY <1>7, <1>8

\* A file that goes to the Trash is nobody's, or its writer finds it gone.
LEMMA RetirePreserves ==
  ASSUME CallInv, NEW c \in Caller, Retire(c)
  PROVE  CallInv'
<1>a. CallType /\ CallsOrderly /\ OneWriter /\ Unmixed /\ TornOnlyByTwo
  BY DEF CallInv
<1> DEFINE name == Head(call[c].listed)
<1> DEFINE rest == Tail(call[c].listed)
<1> DEFINE pc   == IF rest = <<>> THEN "done" ELSE "retire"
<1> DEFINE out  == IF rest = <<>> THEN "answer" ELSE "none"
<1> DEFINE held == [call[c] EXCEPT !.listed = rest, !.pc = pc, !.out = out]
<1> DEFINE file == IF name[2] = "file" THEN "none" ELSE cache.file[name[1]]
<1> DEFINE tmp  == IF name[2] = "tmp" THEN "none" ELSE cache.tmp[name[1]]
<1>0. UNCHANGED stop /\ call[c].pc = "retire" /\ call' = [Gone(name) EXCEPT ![c] = held]
  BY DEF Retire
<1>1. \E order : cache' = [cache EXCEPT !.order = order, !.file[name[1]] = file,
                                        !.tmp[name[1]] = tmp]
  BY DEF Retire
<1>2. pc \in {"retire", "done"} /\ (pc = "done" => out = "answer")
  OBVIOUS
<1>3. (file = "none" \/ file = cache.file[name[1]])
      /\ IF name[2] = "tmp" THEN tmp = "none" ELSE tmp = cache.tmp[name[1]]
  OBVIOUS
<1> HIDE DEF name, rest, pc, out, file, tmp
<1>4. IsCall(held) /\ held.pc = pc /\ held.out = out /\ held.late = call[c].late
  BY <1>a DEF CallType, IsCall
<1> HIDE DEF held
<1>5. /\ IsCache(cache') /\ cache'.mixed = cache.mixed
      /\ cache'.file = [cache.file EXCEPT ![name[1]] = file]
      /\ cache'.tmp = [cache.tmp EXCEPT ![name[1]] = tmp]
  BY <1>a, <1>1 DEF CallType, IsCache
<1>6. Late(held, stop[c]) /\ Orderly(held, stop[c]) /\ held.pc \notin {"fill", "rename"}
  BY <1>a, <1>0, <1>2, <1>4 DEF CallsOrderly, Late, Orderly, CallOutcome
<1>7. /\ call' = [d \in Caller |-> call'[d]] /\ call'[c] = held
      /\ \A d \in Caller : d # c => call'[d] = Gone(name)[d]
  BY <1>0 DEF Gone
<1>8. \A d \in Caller : IsCall(call[d])
  BY <1>a DEF CallType
<1>9. OthersMove(c)
  <2>1. ASSUME NEW d \in Caller, d # c
        PROVE  /\ IsCall(call'[d])
               /\ call'[d].pc = call[d].pc /\ call'[d].key = call[d].key
               /\ call'[d].out = call[d].out
               /\ call'[d].api = call[d].api /\ call'[d].late = call[d].late
    <3>1. call'[d] = call[d] \/ call'[d] = [call[d] EXCEPT !.handle = "gone"]
      BY <1>7, <2>1 DEF Gone
    <3> QED BY <1>8, <3>1 DEF IsCall
  <2> QED BY <2>1 DEF OthersMove
<1>10. ~Writing(c)' /\ IsCall(call'[c]) /\ Late(call'[c], stop[c]) /\ Orderly(call'[c], stop[c])
  BY <1>4, <1>6, <1>7 DEF Writing
<1>11. /\ \A d \in Caller : IsCall(call'[d])
       /\ CallsOrderly' /\ OneWriter'
       /\ \A d \in Caller : Writing(d)' => d # c /\ Writing(d) /\ call'[d].key = call[d].key
  BY <1>0, <1>5, <1>9, <1>10, OthersKept
<1>12. CallType'
  <2>1. name[1] \in Key => file \in {"none", "cut", "whole"} /\ tmp \in {"none", "cut", "whole"}
    BY <1>a, <1>3 DEF CallType
  <2>2. cache'.file \in [Key -> {"none", "cut", "whole"}]
        /\ cache'.tmp \in [Key -> {"none", "cut", "whole"}]
    BY <1>a, <1>5, <2>1 DEF CallType
  <2> QED BY <1>a, <1>0, <1>5, <1>7, <1>11, <2>2 DEF CallType
<1>13. Unmixed'
  <2>1. ASSUME NEW d \in Caller, Writing(d)', call'[d].key \in Key \ cache'.mixed
        PROVE  Wrote(call'[d], cache'.tmp[call'[d].key])
    <3>1. d # c /\ Writing(d) /\ call'[d].key = call[d].key /\ call'[d].pc = call[d].pc
      BY <1>9, <1>11, <2>1 DEF OthersMove
    <3>2. Wrote(call[d], cache.tmp[call[d].key])
      BY <1>a, <1>5, <2>1, <3>1 DEF Unmixed
    <3>3. cache'.tmp[call[d].key] = IF call[d].key = name[1] THEN tmp ELSE cache.tmp[call[d].key]
      BY <1>a, <1>5, <2>1, <3>1 DEF CallType
    <3>4. CASE call[d].key = name[1] /\ call[d].handle = name[2]
      <4>1. call'[d] = [call[d] EXCEPT !.handle = "gone"]
        BY <1>7, <3>1, <3>4 DEF Gone
      <4>2. call'[d].handle = "gone"
        BY <1>8, <4>1 DEF IsCall
      <4>3. cache'.tmp[call[d].key] = "none"
        BY <1>3, <3>2, <3>3, <3>4 DEF Wrote
      <4> QED BY <3>1, <4>2, <4>3 DEF Wrote
    <3>5. CASE ~(call[d].key = name[1] /\ call[d].handle = name[2])
      <4>1. call'[d] = call[d]
        BY <1>7, <3>1, <3>5 DEF Gone
      <4>2. cache'.tmp[call[d].key] = cache.tmp[call[d].key]
        BY <1>3, <3>2, <3>3, <3>5 DEF Wrote
      <4> QED BY <3>1, <3>2, <4>1, <4>2
    <3> QED BY <3>4, <3>5
  <2> QED BY <2>1 DEF Unmixed
<1>14. TornOnlyByTwo'
  BY <1>a, <1>3, <1>5 DEF TornOnlyByTwo, CallType
<1> QED BY <1>11, <1>12, <1>13, <1>14 DEF CallInv

\* An error of the disk leaves the files as they are.
LEMMA DiskFailsPreserves ==
  ASSUME CallInv, NEW c \in Caller, WriteFails(c) \/ List(c) \/ RetireFails(c)
  PROVE  CallInv'
<1>a. IsCall(call[c])
  BY DEF CallInv, CallType
<1>1. ASSUME Return(c, "answer"), UNCHANGED <<stop, cache>> PROVE CallInv'
  <2>1. "answer" \in CallOutcome
    BY DEF CallOutcome
  <2> QED BY <1>1, <2>1, CacheKept, Returns
<1>2. ASSUME Step(c, [call[c] EXCEPT !.pc = "list", !.handle = "none"]), UNCHANGED <<stop, cache>>
      PROVE  CallInv'
  <2> DEFINE held == [call[c] EXCEPT !.pc = "list", !.handle = "none"]
  <2>1. IsCall(held) /\ held.pc = "list" /\ held.late = call[c].late /\ held.api = call[c].api
    BY <1>a DEF IsCall
  <2>2. call' = [call EXCEPT ![c] = held] /\ UNCHANGED <<stop, cache>>
    BY <1>2 DEF Step
  <2> HIDE DEF held
  <2> QED BY <2>1, <2>2, CallGoesOn
<1>3. CASE WriteFails(c)
  BY <1>1, <1>2, <1>3 DEF WriteFails, AfterWrite
<1>4. ASSUME NEW listed, Step(c, [call[c] EXCEPT !.pc = "retire", !.listed = listed]),
             UNCHANGED <<stop, cache>>
      PROVE  CallInv'
  <2> DEFINE held == [call[c] EXCEPT !.pc = "retire", !.listed = listed]
  <2>1. IsCall(held) /\ held.pc = "retire" /\ held.late = call[c].late /\ held.api = call[c].api
    BY <1>a DEF IsCall
  <2>2. call' = [call EXCEPT ![c] = held] /\ UNCHANGED <<stop, cache>>
    BY <1>4 DEF Step
  <2> HIDE DEF held
  <2> QED BY <2>1, <2>2, CallGoesOn
<1>5. CASE List(c)
  BY <1>1, <1>4, <1>5 DEF List
<1>6. CASE RetireFails(c)
  BY <1>1, <1>6 DEF RetireFails
<1> QED BY <1>3, <1>5, <1>6

\* A step of the call to the model preserves its invariant.
LEMMA CallStepPreserves ==
  ASSUME CallInv, NEW c \in Caller, CallStep(c)
  PROVE  CallInv'
BY RequestPreserves, OpenPreserves, FillPreserves, RenamePreserves, RetirePreserves,
   DiskFailsPreserves DEF CallStep

\* The invariant of the calls holds at first.
LEMMA CallsStart == CallsInit => CallInv
<1> SUFFICES ASSUME CallsInit PROVE CallInv
  OBVIOUS
<1>1. stop = [c \in Caller |-> FALSE] /\ call = [c \in Caller |-> NoCall] /\ cache = EmptyCache
  BY DEF CallsInit
<1>2. /\ IsCache(cache) /\ cache.file = [k \in Key |-> "none"]
      /\ cache.tmp = [k \in Key |-> "none"]
  BY <1>1 DEF EmptyCache, IsCache
<1>3. CallType
  BY <1>1, <1>2, NoCallIsCall DEF CallType
<1>4. CallsOrderly /\ OneWriter /\ Unmixed
  BY <1>1, NoCallIsCall DEF CallsOrderly, Late, Orderly, OneWriter, Unmixed, Writing
<1>5. TornOnlyByTwo
  BY <1>2 DEF TornOnlyByTwo
<1> QED BY <1>3, <1>4, <1>5 DEF CallInv

\* A flag that is set forbids nothing to the files, and a request that was
\* prepared before may still go out.
LEMMA FlagPreserves ==
  ASSUME CallInv, NEW c \in Caller, stop' = [stop EXCEPT ![c] = TRUE], UNCHANGED <<call, cache>>
  PROVE  CallInv'
<1>a. CallType /\ CallsOrderly /\ OneWriter /\ Unmixed /\ TornOnlyByTwo
  BY DEF CallInv
<1>1. CallType'
  BY <1>a DEF CallType
<1>2. CallsOrderly'
  BY <1>a DEF CallType, CallsOrderly, Late, Orderly
<1>3. OneWriter' /\ Unmixed' /\ TornOnlyByTwo'
  BY <1>a DEF OneWriter, Unmixed, TornOnlyByTwo, Writing
<1> QED BY <1>1, <1>2, <1>3 DEF CallInv

\* The calls need nothing when nothing of theirs changes.
LEMMA CallsKept ==
  ASSUME CallInv, UNCHANGED callVars
  PROVE  CallInv'
<1>a. CallType /\ CallsOrderly /\ OneWriter /\ Unmixed /\ TornOnlyByTwo
  BY DEF CallInv
<1>1. UNCHANGED <<stop, call, cache>>
  BY DEF callVars
<1>2. CallType' /\ CallsOrderly' /\ OneWriter' /\ Unmixed' /\ TornOnlyByTwo'
  BY <1>a, <1>1 DEF CallType, CallsOrderly, OneWriter, Unmixed, TornOnlyByTwo, Writing
<1> QED BY <1>2 DEF CallInv

-----------------------------------------------------------------------------
(* The engine.                                                             *)

\* What a command is for.
Product(command) ==
  CASE command = "run_daily"           -> "report"
    [] command = "bootstrap_topic"     -> "draft"
    [] command = "upload_wechat_cover" -> "upload"
    [] command = "retry_delivery"      -> "deliver"
    [] OTHER                           -> "nothing"

WorkTask ==
  {"", "topic_bootstrap", "source_gist", "deep_reading", "anchor_repair", "verifier",
   "report_localization"}
WorkStep ==
  [do : {"ask", "event", "draft", "report", "check", "upload", "deliver"},
   task : WorkTask, api : BOOLEAN, cached : BOOLEAN]

EngineException ==
  {"cancelled", "codex_not_configured", "invalid_report_date", "protocol", "config", "value",
   "transport", "interrupted", "retry_exhausted", "radar", "system"}

IsEngine(x) == DOMAIN x = {"pc", "work", "exc", "code", "effects"}

EngineType ==
  /\ IsEngine(engine)
  /\ DOMAIN disk = {"result", "error"}
  /\ DOMAIN world = {"parent", "signalled"}

Made == Product(CommandOf) # "nothing" => Product(CommandOf) \in engine.effects

\* The last step of the work that is left is the one the command is for, until
\* it has been made.
WorkLeft ==
  engine.pc = "work" =>
    \/ Made
    \/ /\ engine.work \in Seq(WorkStep) /\ engine.work # <<>>
       /\ engine.work[Len(engine.work)].do = Product(CommandOf)

ResultMade == engine.pc \in {"result", "completed"} \/ disk.result # "none" => Made

\* What an error will say was so before it was raised.
RaisedFor ==
  engine.pc = "raised" =>
    engine.exc \in EngineException /\ (engine.exc = "cancelled" => stop[Me])

\* A flag is set by a signal, or by the watch after it has told the reason.
ToldWhy ==
  /\ stop[Me] => lost \/ world.signalled
  /\ watcher \in {"told", "reporting", "terminating", "killing"} => lost
  /\ lost => ~world.parent

AtMostOne == disk.result = "none" \/ disk.error = "none"

BridgeInv ==
  /\ CallInv /\ EngineType /\ WorkLeft /\ ResultMade /\ RaisedFor /\ ToldWhy /\ AtMostOne
  /\ TerminalEarned

\* The process is one of the callers.
LEMMA MeCalls == Me \in Caller
  BY EngineAssumption DEF Me

\* A step of anyone that writes no artifact.
LEMMA Moves ==
  ASSUME BridgeInv, CallInv', UNCHANGED <<job, disk>>,
         DOMAIN world' = {"parent", "signalled"},
         world.signalled => world'.signalled, world'.parent => world.parent,
         IsEngine(engine'), engine.effects \subseteq engine'.effects,
         WorkLeft', engine'.pc \in {"result", "completed"} => Made', RaisedFor', ToldWhy'
  PROVE  BridgeInv'
<1>a. EngineType /\ ResultMade /\ AtMostOne /\ TerminalEarned
  BY DEF BridgeInv
<1>1. CommandOf' = CommandOf /\ (Made => Made')
  BY DEF CommandOf, Made
<1>2. EngineType'
  BY <1>a DEF EngineType
<1>3. ResultMade'
  BY <1>a, <1>1 DEF ResultMade
<1>4. AtMostOne'
  BY <1>a DEF AtMostOne
<1>5. TerminalEarned'
  BY <1>a, <1>1 DEF TerminalEarned
<1> QED BY <1>2, <1>3, <1>4, <1>5 DEF BridgeInv

\* A step of the main thread.
LEMMA MainMoves ==
  ASSUME BridgeInv, CallInv', UNCHANGED <<job, disk, world, lost, stop>>,
         watcher' \in {watcher, "armed", "off"},
         IsEngine(engine'), engine.effects \subseteq engine'.effects,
         WorkLeft', engine'.pc \in {"result", "completed"} => Made', RaisedFor'
  PROVE  BridgeInv'
<1>1. EngineType /\ ToldWhy
  BY DEF BridgeInv
<1>2. ToldWhy' /\ DOMAIN world' = {"parent", "signalled"}
  BY <1>1 DEF ToldWhy, EngineType
<1> QED BY <1>2, Moves

\* A step beside the main thread.
LEMMA OthersMoveOn ==
  ASSUME BridgeInv, CallInv', UNCHANGED <<job, engine, disk>>,
         DOMAIN world' = {"parent", "signalled"},
         world.signalled => world'.signalled, world'.parent => world.parent,
         stop[Me] => stop'[Me], ToldWhy'
  PROVE  BridgeInv'
<1>a. EngineType /\ WorkLeft /\ ResultMade /\ RaisedFor
  BY DEF BridgeInv
<1>1. IsEngine(engine') /\ WorkLeft' /\ RaisedFor'
  BY <1>a DEF EngineType, WorkLeft, RaisedFor, Made, CommandOf
<1>2. engine'.pc \in {"result", "completed"} => Made'
  BY <1>a DEF ResultMade, Made, CommandOf
<1> QED BY <1>1, <1>2, Moves

\* An error is written where nothing has been.
LEMMA ErrorWritten ==
  ASSUME BridgeInv, CallInv', UNCHANGED <<job, world, lost, stop>>,
         NEW code, code = "parent_lost" => lost, code = "cancelled" => world.signalled,
         WriteErrorOnce(code),
         watcher' \in {watcher, "off", "terminating"}, watcher' = "terminating" => lost,
         IsEngine(engine'), engine'.effects = engine.effects,
         WorkLeft', engine'.pc \in {"result", "completed"} => Made', RaisedFor'
  PROVE  BridgeInv'
<1>a. EngineType /\ ResultMade /\ ToldWhy /\ AtMostOne /\ TerminalEarned
  BY DEF BridgeInv
<1>1. \/ disk' = disk
      \/ /\ DOMAIN disk' = {"result", "error"} /\ disk'.result = disk.result
         /\ disk.result = "none" /\ disk'.error = code
  BY <1>a DEF WriteErrorOnce, Terminal, EngineType
<1>2. CommandOf' = CommandOf /\ (Made <=> Made')
  BY DEF CommandOf, Made
<1>3. EngineType'
  BY <1>a, <1>1 DEF EngineType
<1>4. ResultMade'
  BY <1>a, <1>1, <1>2 DEF ResultMade
<1>5. ToldWhy'
  BY <1>a DEF ToldWhy
<1>6. AtMostOne'
  BY <1>a, <1>1 DEF AtMostOne
<1>7. TerminalEarned'
  BY <1>a, <1>1, <1>2 DEF TerminalEarned, ToldWhy
<1> QED BY <1>3, <1>4, <1>5, <1>6, <1>7 DEF BridgeInv

\* The handler may raise an exception at any time: a cancellation only when asked for.
LEMMA MainRaises ==
  ASSUME BridgeInv, CallInv', UNCHANGED <<job, disk, world, lost, stop>>,
         watcher' \in {watcher, "armed", "off"},
         NEW exc \in EngineException, exc = "cancelled" => stop[Me], Raise(exc)
  PROVE  BridgeInv'
<1>1. IsEngine(engine)
  BY DEF BridgeInv, EngineType
<1>2. /\ IsEngine(engine') /\ engine'.pc = "raised" /\ engine'.exc = exc
      /\ engine'.effects = engine.effects
  BY <1>1 DEF Raise, IsEngine
<1>3. WorkLeft' /\ RaisedFor'
  BY <1>2 DEF WorkLeft, RaisedFor
<1> QED BY <1>2, <1>3, MainMoves

\* The main task goes on to a step that claims nothing it has not made.
LEMMA MainGoesTo ==
  ASSUME BridgeInv, CallInv', UNCHANGED <<job, disk, world, lost, stop>>,
         watcher' \in {watcher, "armed", "off"},
         NEW pc, pc \notin {"work", "raised"}, pc \in {"result", "completed"} => Made, To(pc)
  PROVE  BridgeInv'
<1>1. IsEngine(engine)
  BY DEF BridgeInv, EngineType
<1>2. /\ IsEngine(engine') /\ engine'.pc = pc /\ engine'.effects = engine.effects
  BY <1>1 DEF To, IsEngine
<1>3. WorkLeft' /\ RaisedFor' /\ (Made => Made')
  BY <1>2 DEF WorkLeft, RaisedFor, Made, CommandOf
<1> QED BY <1>2, <1>3, MainMoves

\* What is read from the front leaves the last where it is.
LEMMA TailKeepsLast ==
  ASSUME NEW S, NEW s \in Seq(S), s # <<>>, Len(s) # 1
  PROVE  Tail(s) \in Seq(S) /\ Tail(s) # <<>> /\ Tail(s)[Len(Tail(s))] = s[Len(s)]
<1> DEFINE n == Len(s)
<1> DEFINE t == Tail(s)
<1>1. n \in Nat /\ n > 1
  BY EmptySeq
<1>2. /\ t \in Seq(S) /\ Len(t) = n - 1
      /\ \A i \in 1 .. Len(t) : t[i] = s[i + 1]
  BY HeadTailProperties
<1>3. n = Len(s) /\ t = Tail(s)
  OBVIOUS
<1> HIDE DEF n, t
<1>4. Len(t) # 0
  BY <1>1, <1>2
<1>5. t # <<>>
  BY <1>4
<1>6. t[n - 1] = s[(n - 1) + 1]
  BY <1>1, <1>2
<1>7. t[Len(t)] = s[n]
  BY <1>1, <1>2, <1>6
<1> QED BY <1>2, <1>3, <1>5, <1>7

\* The last of two sequences is the last of the second.
LEMMA ConcatKeepsLast ==
  ASSUME NEW S, NEW s \in Seq(S), NEW e \in S
  PROVE  s \o <<e>> \in Seq(S) /\ s \o <<e>> # <<>> /\ (s \o <<e>>)[Len(s \o <<e>>)] = e
<1> DEFINE n == Len(s)
<1> DEFINE t == s \o <<e>>
<1>1. n \in Nat
  BY LenProperties
<1>2. <<e>> \in Seq(S) /\ Len(<<e>>) = 1 /\ <<e>>[1] = e
  OBVIOUS
<1>3. /\ t \in Seq(S) /\ Len(t) = n + 1
      /\ \A i \in 1 .. n + 1 : t[i] = IF i <= n THEN s[i] ELSE <<e>>[i - n]
  BY <1>2, ConcatProperties
<1> HIDE DEF n, t
<1>4. t # <<>>
  BY <1>1, <1>3
<1>5. t[n + 1] = <<e>>[(n + 1) - n]
  BY <1>1, <1>3
<1>6. t[Len(t)] = e
  BY <1>1, <1>2, <1>3, <1>5
<1> QED BY <1>3, <1>4, <1>6 DEF t

\* A step of the work is done, with what it made.
LEMMA MainWorks ==
  ASSUME BridgeInv, CallInv', UNCHANGED <<job, disk, world, lost, stop, watcher>>,
         NEW what, Working(what), (StepDone /\ what # Product(CommandOf)) \/ Effect(what)
  PROVE  BridgeInv'
<1>1. IsEngine(engine) /\ WorkLeft /\ engine.pc = "work"
  BY DEF BridgeInv, EngineType, Working
<1>2. /\ IsEngine(engine') /\ engine'.pc = "work" /\ engine'.work = Tail(engine.work)
      /\ engine.effects \subseteq engine'.effects
      /\ what \in engine'.effects \/ what # Product(CommandOf)
  BY <1>1 DEF StepDone, Effect, IsEngine
<1>3. (Made => Made') /\ CommandOf' = CommandOf
  BY <1>2 DEF Made, CommandOf
<1>4. CASE Made
  BY <1>2, <1>3, <1>4, MainMoves DEF WorkLeft, RaisedFor
<1>5. CASE ~Made
  <2> DEFINE work == engine.work
  <2>1. work \in Seq(WorkStep) /\ work # <<>> /\ work[Len(work)].do = Product(CommandOf)
    BY <1>1, <1>5 DEF WorkLeft
  <2>2. Head(work).do = what /\ engine'.work = Tail(work)
    BY <1>2 DEF Working
  <2> HIDE DEF work
  <2>3. CASE Len(work) = 1
    <3>1. what = Product(CommandOf)
      BY <2>1, <2>2, <2>3
    <3>2. Made'
      BY <1>2, <1>3, <3>1 DEF Made
    <3> QED BY <1>2, <3>2, MainMoves DEF WorkLeft, RaisedFor
  <2>4. CASE Len(work) # 1
    <3>1. Tail(work) \in Seq(WorkStep) /\ Tail(work) # <<>>
          /\ Tail(work)[Len(Tail(work))] = work[Len(work)]
      BY <2>1, <2>4, TailKeepsLast
    <3> QED BY <1>2, <1>3, <2>1, <2>2, <3>1, MainMoves DEF WorkLeft, RaisedFor
  <2> QED BY <2>3, <2>4
<1> QED BY <1>4, <1>5

\* What a request makes the engine do ends with what the command is for.
LEMMA WorkEndsWithProduct ==
  ASSUME Product(CommandOf) # "nothing"
  PROVE  Work \in Seq(WorkStep) /\ Work # <<>> /\ Work[Len(Work)].do = Product(CommandOf)
<1>1. \A what \in {"event", "draft", "report", "check", "upload", "deliver"} :
        Do(what) \in WorkStep /\ Do(what).do = what
  BY DEF Do, WorkStep, WorkTask
<1>2. ASSUME NEW task \in WorkTask, NEW kind, NEW cached \in BOOLEAN
      PROVE  AskStep(task, kind, cached) \in WorkStep
  BY DEF AskStep, WorkStep
<1>3. CASE CommandOf = "run_daily"
  <2>1. ASSUME NEW task \in WorkTask PROVE DailyAsk(task) \in Seq(WorkStep)
    <3>1. AskStep(task, DailyKind(task), Payload.model_cache = "true") \in WorkStep
      BY <1>2
    <3> QED BY <3>1 DEF DailyAsk
  <2>2. DailyAsks \in Seq(WorkStep)
    BY <2>1, ConcatProperties DEF DailyAsks, WorkTask
  <2>3. Work = DailyAsks \o <<Do("report")>>
    BY <1>3 DEF Work
  <2> DEFINE asks == DailyAsks
  <2> DEFINE last == Do("report")
  <2>4. asks \in Seq(WorkStep) /\ last \in WorkStep /\ last.do = "report"
    BY <1>1, <2>2
  <2> HIDE DEF asks, last
  <2>5. asks \o <<last>> \in Seq(WorkStep) /\ asks \o <<last>> # <<>>
        /\ (asks \o <<last>>)[Len(asks \o <<last>>)] = last
    BY <2>4, ConcatKeepsLast
  <2>6. Work = asks \o <<last>>
    BY <2>3 DEF asks, last
  <2> QED BY <1>3, <2>4, <2>5, <2>6 DEF Product
<1>4. CASE CommandOf = "bootstrap_topic"
  <2> DEFINE ask == AskStep("topic_bootstrap",
                            ResolveRoute(Research, NoOverrides, "topic_bootstrap", FALSE), FALSE)
  <2>1. ask \in WorkStep
    BY <1>2 DEF WorkTask
  <2>2. Work = <<Do("event"), ask, Do("draft")>>
    BY <1>4 DEF Work
  <2> HIDE DEF ask
  <2> QED BY <1>1, <1>4, <2>1, <2>2 DEF Product
<1>5. CASE CommandOf = "upload_wechat_cover"
  <2>1. Work = <<Do("check"), Do("event"), Do("check"), Do("upload")>>
    BY <1>5 DEF Work
  <2> QED BY <1>1, <1>5, <2>1 DEF Product
<1>6. CASE CommandOf = "retry_delivery"
  <2>1. Work = <<Do("deliver")>>
    BY <1>6 DEF Work
  <2> QED BY <1>1, <1>6, <2>1 DEF Product
<1> QED BY <1>3, <1>4, <1>5, <1>6 DEF Product

\* Before its handler, and the steps that ask no model.
LEMMA MainPreserves ==
  ASSUME BridgeInv,
         \/ Load \/ StartWatcher \/ EstablishSession \/ Start \/ Configure
         \/ NothingToAsk \/ CheckFlag \/ WriteEvent \/ SearchProbed \/ Produced \/ SentOut
         \/ HandlerReturns \/ WriteCompleted \/ Leave
  PROVE  BridgeInv'
<1>a. CallInv /\ EngineType /\ WorkLeft /\ ResultMade
  BY DEF BridgeInv
<1>b. UNCHANGED <<job, lost, disk, world, callVars>>
  BY DEF Load, StartWatcher, EstablishSession, Start, Configure, NothingToAsk, CheckFlag,
         WriteEvent, SearchProbed, Produced, SentOut, HandlerReturns, WriteCompleted, Leave
<1>c. CallInv' /\ UNCHANGED <<job, disk, world, lost, stop>>
  BY <1>a, <1>b, CallsKept DEF callVars
<1>d. watcher' \in {watcher, "armed", "off"}
  BY DEF Load, StartWatcher, EstablishSession, Start, Configure, NothingToAsk, CheckFlag,
         WriteEvent, SearchProbed, Produced, SentOut, HandlerReturns, WriteCompleted, Leave
<1>e. ASSUME NEW pc \in {"watch", "session", "start", "configure", "exit", "closed"}, To(pc)
      PROVE  BridgeInv'
  BY <1>c, <1>d, <1>e, MainGoesTo
<1>f. ASSUME NEW exc \in EngineException \ {"cancelled"}, Raise(exc)
      PROVE  BridgeInv'
  BY <1>c, <1>d, <1>f, MainRaises
<1>g. ASSUME stop[Me], Raise("cancelled")
      PROVE  BridgeInv'
  <2>1. "cancelled" \in EngineException
    BY DEF EngineException
  <2> QED BY <1>c, <1>d, <1>g, <2>1, MainRaises
<1>h. {"protocol", "system", "config", "invalid_report_date", "codex_not_configured", "value",
       "radar"} \subseteq EngineException \ {"cancelled"}
  BY DEF EngineException
<1>1. CASE Load
  BY <1>1, <1>e, <1>f, <1>h DEF Load
<1>2. CASE StartWatcher
  BY <1>2, <1>e, <1>f, <1>h DEF StartWatcher
<1>3. CASE EstablishSession
  BY <1>3, <1>e, <1>f, <1>h DEF EstablishSession
<1>4. CASE Start
  BY <1>4, <1>e, <1>f, <1>g, <1>h DEF Start
<1>5. CASE Configure
  <2>1. CASE engine' = [engine EXCEPT !.pc = "work", !.work = Work]
    <3> DEFINE work == Work
    <3>1. engine' = [engine EXCEPT !.pc = "work", !.work = work]
      BY <2>1
    <3> HIDE DEF work
    <3>2. /\ IsEngine(engine') /\ engine'.pc = "work" /\ engine'.work = work
          /\ engine'.effects = engine.effects
      BY <1>a, <3>1 DEF EngineType, IsEngine
    <3>3. CommandOf' = CommandOf
      BY <1>c DEF CommandOf
    <3>4. WorkLeft'
      BY <3>2, <3>3, WorkEndsWithProduct DEF WorkLeft, Made, work
    <3> QED BY <1>c, <1>d, <3>2, <3>4, MainMoves DEF RaisedFor
  <2>2. ASSUME Raise(Refusal), Refusal # "none" PROVE BridgeInv'
    <3>1. DailyRefusal \in {"none", "codex_not_configured", "value", "radar"}
      BY DEF DailyRefusal
    <3>2. Refusal \in {"none", "codex_not_configured", "value", "radar"}
      BY <3>1 DEF Refusal
    <3> DEFINE exc == Refusal
    <3>3. Raise(exc) /\ exc \in {"codex_not_configured", "value", "radar"}
      BY <2>2, <3>2
    <3> HIDE DEF exc
    <3> QED BY <3>3, <1>f, <1>h
  <2> QED BY <1>5, <1>f, <1>h, <2>1, <2>2 DEF Configure
<1>6. CASE NothingToAsk \/ CheckFlag \/ WriteEvent \/ SearchProbed
  <2>1. ASSUME NEW what \in {"ask", "check", "event", "search"}, Working(what), StepDone,
               UNCHANGED watcher
        PROVE  BridgeInv'
    <3>1. what # Product(CommandOf)
      BY DEF Product
    <3> QED BY <1>c, <2>1, <3>1, MainWorks
  <2> QED BY <1>6, <1>f, <1>g, <1>h, <2>1 DEF NothingToAsk, CheckFlag, WriteEvent, SearchProbed
<1>7. CASE Produced
  <2>1. ASSUME NEW what \in {"draft", "report"}, Working(what), Effect(what) PROVE BridgeInv'
    BY <1>7, <1>c, <2>1, MainWorks DEF Produced
  <2> QED BY <1>7, <1>f, <1>h, <2>1 DEF Produced
<1>8. CASE SentOut
  <2>1. ASSUME NEW what \in {"upload", "deliver"}, Working(what), Effect(what) PROVE BridgeInv'
    BY <1>8, <1>c, <2>1, MainWorks DEF SentOut
  <2>2. ASSUME NEW what, NEW exc \in {"radar", "value", "system"},
               engine' = [engine EXCEPT !.pc = "raised", !.exc = exc, !.work = <<>>,
                                        !.effects = @ \cup {what}]
        PROVE  BridgeInv'
    <3>1. /\ IsEngine(engine') /\ engine'.pc = "raised" /\ engine'.exc = exc
          /\ engine.effects \subseteq engine'.effects
      BY <1>a, <2>2 DEF EngineType, IsEngine
    <3>2. WorkLeft' /\ RaisedFor'
      BY <1>h, <3>1 DEF WorkLeft, RaisedFor
    <3> QED BY <1>c, <1>d, <3>1, <3>2, MainMoves
  <2> QED BY <1>8, <1>f, <1>h, <2>1, <2>2 DEF SentOut
<1>9. CASE HandlerReturns
  <2>1. ASSUME To("result"), engine.pc = "work", engine.work = <<>> PROVE BridgeInv'
    <3>1. Made
      BY <1>a, <2>1 DEF WorkLeft
    <3> QED BY <1>c, <1>d, <2>1, <3>1, MainGoesTo
  <2> QED BY <1>9, <1>g, <2>1 DEF HandlerReturns
<1>10. CASE WriteCompleted
  BY <1>10, <1>e, <1>f, <1>h DEF WriteCompleted
<1>11. CASE Leave
  BY <1>11, <1>e DEF Leave
<1> QED BY <1>1, <1>2, <1>3, <1>4, <1>5, <1>6, <1>7, <1>8, <1>9, <1>10, <1>11

\* The steps that ask a model and take its answer.
LEMMA AskingPreserves ==
  ASSUME BridgeInv, CallModel \/ ModelAnswers
  PROVE  BridgeInv'
<1>a. CallInv /\ EngineType /\ ToldWhy
  BY DEF BridgeInv
<1>1. CASE CallModel
  <2>1. /\ Ask(Me, Head(engine.work).task, Head(engine.work).api, Head(engine.work).cached)
        /\ UNCHANGED engineVars
    BY <1>1 DEF CallModel
  <2>2. CallInv'
    BY <1>a, <2>1, MeCalls, AskPreserves
  <2>3. UNCHANGED <<job, engine, watcher, lost, session, disk, world, stop>>
    BY <2>1 DEF engineVars, Ask
  <2>4. ToldWhy' /\ DOMAIN world' = {"parent", "signalled"}
    BY <1>a, <2>3 DEF ToldWhy, EngineType
  <2> QED BY <2>2, <2>3, <2>4, OthersMoveOn
<1>2. CASE ModelAnswers
  <2>1. /\ UNCHANGED <<job, watcher, lost, session, disk, world, stop, cache>>
        /\ Step(Me, [NoCall EXCEPT !.late = call[Me].late])
        /\ Working("ask") /\ call[Me].pc = "done"
    BY <1>2 DEF ModelAnswers
  <2>2. CallInv'
    BY <1>a, <2>1, MeCalls, CallEnds
  <2>3. Orderly(call[Me], stop[Me])
    BY <1>a, MeCalls DEF CallInv, CallsOrderly
  <2>4. call[Me].out \in CallOutcome /\ (call[Me].out = "cancelled" => stop[Me])
    BY <2>1, <2>3 DEF Orderly
  <2>5. \/ StepDone
        \/ \E exc \in EngineException :
              Raise(exc) /\ (exc = "cancelled" => call[Me].out = "cancelled")
    BY <1>2, <2>4 DEF ModelAnswers, CallOutcome, Failure, EngineException
  <2>6. CASE StepDone
    <3>1. "ask" # Product(CommandOf)
      BY DEF Product
    <3> QED BY <2>1, <2>2, <2>6, <3>1, MainWorks
  <2>7. ASSUME NEW exc \in EngineException, Raise(exc),
               exc = "cancelled" => call[Me].out = "cancelled"
        PROVE  BridgeInv'
    BY <2>1, <2>2, <2>4, <2>7, MainRaises
  <2> QED BY <2>5, <2>6, <2>7
<1> QED BY <1>1, <1>2

\* What the main thread leaves.
LEMMA ArtifactPreserves ==
  ASSUME BridgeInv, WriteResultOnce \/ WriteError
  PROVE  BridgeInv'
<1>a. CallInv /\ EngineType /\ ResultMade /\ RaisedFor /\ ToldWhy /\ AtMostOne /\ TerminalEarned
  BY DEF BridgeInv
<1>b. UNCHANGED <<job, watcher, lost, session, world, callVars>>
  BY DEF WriteResultOnce, WriteError
<1>c. CallInv' /\ UNCHANGED <<job, watcher, world, lost, stop>> /\ CommandOf' = CommandOf
  BY <1>a, <1>b, CallsKept DEF callVars, CommandOf
<1>d. "system" \in EngineException /\ "cancelled" \in EngineException
  BY DEF EngineException
<1>1. CASE WriteResultOnce
  <2>1. Made
    BY <1>1, <1>a DEF WriteResultOnce, ResultMade
  <2>2. ASSUME UNCHANGED disk, NEW exc \in {"system", "cancelled"}, Raise(exc),
               exc = "cancelled" => stop[Me]
        PROVE  BridgeInv'
    BY <1>c, <1>d, <2>2, MainRaises
  <2>3. ASSUME ~Terminal, disk' = [disk EXCEPT !.result = "succeeded"],
               To("completed") \/ Raise("system")
        PROVE  BridgeInv'
    <3>1. /\ DOMAIN disk' = {"result", "error"} /\ disk'.result = "succeeded"
          /\ disk'.error = "none"
      BY <1>a, <2>3 DEF EngineType, Terminal
    <3>2. /\ IsEngine(engine') /\ engine'.effects = engine.effects
          /\ \/ engine'.pc = "completed"
             \/ engine'.pc = "raised" /\ engine'.exc = "system"
      BY <1>a, <2>3 DEF EngineType, IsEngine, To, Raise
    <3>3. Made'
      BY <1>c, <2>1, <3>2 DEF Made
    <3>4. EngineType' /\ WorkLeft' /\ ResultMade' /\ RaisedFor' /\ ToldWhy' /\ AtMostOne'
      BY <1>a, <1>c, <1>d, <3>1, <3>2, <3>3
         DEF EngineType, WorkLeft, ResultMade, RaisedFor, ToldWhy, AtMostOne
    <3>5. TerminalEarned'
      BY <1>c, <3>1, <3>3 DEF TerminalEarned, Made, Product
    <3> QED BY <1>c, <3>4, <3>5 DEF BridgeInv
  <2> QED BY <1>1, <2>2, <2>3 DEF WriteResultOnce
<1>2. CASE WriteError
  <2> DEFINE code == CodeOf(engine.exc)
  <2>1. /\ code = "parent_lost" => lost
        /\ code = "cancelled" => world.signalled
    <3>1. engine.exc \in EngineException /\ (engine.exc = "cancelled" => stop[Me])
      BY <1>2, <1>a DEF WriteError, RaisedFor
    <3> QED BY <1>a, <3>1 DEF CodeOf, EngineException, ToldWhy
  <2>2. /\ engine' = [engine EXCEPT !.code = code, !.pc = "exit"]
        /\ WriteErrorOnce(code) \/ UNCHANGED disk
    BY <1>2 DEF WriteError
  <2> HIDE DEF code
  <2>3. IsEngine(engine') /\ engine'.effects = engine.effects /\ engine'.pc = "exit"
    BY <1>a, <2>2 DEF EngineType, IsEngine
  <2>4. WorkLeft' /\ RaisedFor'
    BY <2>3 DEF WorkLeft, RaisedFor
  <2>5. CASE UNCHANGED disk
    BY <1>c, <2>3, <2>4, <2>5, MainMoves
  <2>6. CASE WriteErrorOnce(code)
    <3>1. watcher' \in {watcher, "off", "terminating"} /\ (watcher' = "terminating" => lost)
      BY <1>a, <1>c DEF ToldWhy
    <3>2. ~(engine'.pc \in {"result", "completed"})
      BY <2>3
    <3> QED BY <1>c, <2>1, <2>3, <2>4, <2>6, <3>1, <3>2, ErrorWritten
  <2> QED BY <2>2, <2>5, <2>6
<1> QED BY <1>1, <1>2

\* The watch of the App.
LEMMA WatchPreserves ==
  ASSUME BridgeInv, ParentLost \/ CancelForParent \/ ReportParentLost \/ TerminateGroup
  PROVE  BridgeInv'
<1>a. CallInv /\ EngineType /\ WorkLeft /\ ResultMade /\ RaisedFor /\ ToldWhy
  BY DEF BridgeInv
<1>1. CASE ParentLost
  <2>1. /\ watcher' = "told" /\ lost' = TRUE /\ ~world.parent
        /\ UNCHANGED <<job, engine, disk, world, stop, call, cache>>
    BY <1>1 DEF ParentLost, FirstFlag
  <2>2. CallInv'
    BY <1>a, <2>1, CallsKept DEF callVars
  <2>3. ToldWhy' /\ DOMAIN world' = {"parent", "signalled"}
    BY <1>a, <2>1 DEF ToldWhy, EngineType
  <2> QED BY <2>1, <2>2, <2>3, OthersMoveOn
<1>2. CASE CancelForParent
  <2>1. /\ watcher' = "reporting" /\ watcher = "told" /\ lost' = TRUE
        /\ stop' = [stop EXCEPT ![Me] = TRUE]
        /\ UNCHANGED <<job, engine, disk, world, call, cache>>
    BY <1>2 DEF CancelForParent
  <2>2. CallInv'
    BY <1>a, <2>1, MeCalls, FlagPreserves
  <2>3. stop'[Me]
    BY <1>a, <2>1, MeCalls DEF CallInv, CallType
  <2>4. ToldWhy' /\ DOMAIN world' = {"parent", "signalled"}
    BY <1>a, <2>1 DEF ToldWhy, EngineType
  <2> QED BY <2>1, <2>2, <2>3, <2>4, OthersMoveOn
<1>3. CASE ReportParentLost
  <2>1. /\ watcher = "reporting" /\ watcher' \in {"terminating", "off"}
        /\ WriteErrorOnce("parent_lost") \/ UNCHANGED disk
        /\ UNCHANGED <<job, engine, lost, world, callVars>>
    BY <1>3 DEF ReportParentLost
  <2>2. CallInv' /\ UNCHANGED stop
    BY <1>a, <2>1, CallsKept DEF callVars
  <2>3. lost /\ ToldWhy' /\ DOMAIN world' = {"parent", "signalled"}
    BY <1>a, <2>1, <2>2 DEF ToldWhy, EngineType
  <2>4. CASE UNCHANGED disk
    BY <2>1, <2>2, <2>3, <2>4, OthersMoveOn
  <2>5. CASE WriteErrorOnce("parent_lost")
    <3>1. IsEngine(engine') /\ WorkLeft' /\ RaisedFor'
      BY <1>a, <2>1, <2>2 DEF EngineType, WorkLeft, RaisedFor, Made, CommandOf
    <3>2. engine'.pc \in {"result", "completed"} => Made'
      BY <1>a, <2>1 DEF ResultMade, Made, CommandOf
    <3> QED BY <2>1, <2>2, <2>3, <2>5, <3>1, <3>2, ErrorWritten
  <2> QED BY <2>1, <2>4, <2>5
<1>4. CASE TerminateGroup
  <2>1. /\ watcher = "terminating" /\ watcher' = "killing"
        /\ To("gone") \/ UNCHANGED engine
        /\ UNCHANGED <<job, lost, disk, world, callVars>>
    BY <1>4 DEF TerminateGroup
  <2>2. CallInv' /\ UNCHANGED stop
    BY <1>a, <2>1, CallsKept DEF callVars
  <2>3. ToldWhy' /\ DOMAIN world' = {"parent", "signalled"}
    BY <1>a, <2>1, <2>2 DEF ToldWhy, EngineType
  <2>4. CASE UNCHANGED engine
    BY <2>1, <2>2, <2>3, <2>4, OthersMoveOn
  <2>5. CASE To("gone")
    <3>1. IsEngine(engine') /\ engine'.pc = "gone" /\ engine'.effects = engine.effects
      BY <1>a, <2>5 DEF To, EngineType, IsEngine
    <3>2. WorkLeft' /\ RaisedFor'
      BY <3>1 DEF WorkLeft, RaisedFor
    <3> QED BY <2>1, <2>2, <2>3, <3>1, <3>2, Moves
  <2> QED BY <2>1, <2>4, <2>5
<1> QED BY <1>1, <1>2, <1>3, <1>4

\* The end of the engine, by a signal or by its own watch, and of the App.
LEMMA EndPreserves ==
  ASSUME BridgeInv, KillGroup \/ Signal \/ Kill \/ AppDies
  PROVE  BridgeInv'
<1>a. CallInv /\ EngineType /\ ToldWhy
  BY DEF BridgeInv
<1>1. ASSUME End, world' = world \/ world' = [world EXCEPT !.signalled = TRUE]
      PROVE  BridgeInv'
  <2>1. UNCHANGED <<job, watcher, lost, session, disk, stop, cache>> /\ CallerDies(Me)
    BY <1>1 DEF End
  <2>2. CallInv'
    BY <1>a, <2>1, MeCalls, CallEnds
  <2>3. IsEngine(engine') /\ engine'.pc = "gone" /\ engine'.effects = engine.effects
    BY <1>a, <1>1 DEF End, EngineType, IsEngine
  <2>4. /\ DOMAIN world' = {"parent", "signalled"} /\ world'.parent = world.parent
        /\ world.signalled => world'.signalled
    BY <1>a, <1>1 DEF EngineType
  <2>5. WorkLeft' /\ RaisedFor' /\ ToldWhy'
    BY <1>a, <2>1, <2>3, <2>4 DEF WorkLeft, RaisedFor, ToldWhy
  <2> QED BY <2>1, <2>2, <2>3, <2>4, <2>5, Moves
<1>2. CASE KillGroup \/ Kill
  BY <1>1, <1>2 DEF KillGroup, Kill
<1>3. CASE Signal
  <2>1. ASSUME UNCHANGED <<job, engine, watcher, lost, session, disk, call, cache>>,
               stop' = [stop EXCEPT ![Me] = TRUE], world' = [world EXCEPT !.signalled = TRUE]
        PROVE  BridgeInv'
    <3>1. CallInv' /\ stop'[Me]
      BY <1>a, <2>1, MeCalls, FlagPreserves DEF CallInv, CallType
    <3>2. /\ DOMAIN world' = {"parent", "signalled"} /\ world'.signalled
          /\ world'.parent = world.parent
      BY <1>a, <2>1 DEF EngineType
    <3>3. ToldWhy'
      BY <1>a, <2>1, <3>2 DEF ToldWhy
    <3> QED BY <2>1, <3>1, <3>2, <3>3, OthersMoveOn
  <2> QED BY <1>1, <1>3, <2>1 DEF Signal
<1>4. CASE AppDies
  <2>1. /\ UNCHANGED <<job, engine, watcher, lost, session, disk, callVars>>
        /\ world' = [world EXCEPT !.parent = FALSE]
    BY <1>4 DEF AppDies
  <2>2. CallInv' /\ UNCHANGED stop
    BY <1>a, <2>1, CallsKept DEF callVars
  <2>3. /\ DOMAIN world' = {"parent", "signalled"} /\ ~world'.parent
        /\ world'.signalled = world.signalled
    BY <1>a, <2>1 DEF EngineType
  <2>4. ToldWhy'
    BY <1>a, <2>1, <2>2, <2>3 DEF ToldWhy
  <2> QED BY <2>1, <2>2, <2>3, <2>4, OthersMoveOn
<1> QED BY <1>2, <1>3, <1>4

\* The requests, and the other processes that use the cache.
LEMMA CallersPreserve ==
  ASSUME BridgeInv, NEW c \in Caller,
         Calls(c) \/ OtherEnds(c) \/ \E key \in Key, api \in BOOLEAN : OtherAsks(c, key, api)
  PROVE  BridgeInv'
<1>a. CallInv /\ EngineType /\ ToldWhy
  BY DEF BridgeInv
<1>1. UNCHANGED engineVars
  BY DEF Calls, OtherEnds, OtherAsks
<1>2. CallInv'
  <2>1. CASE Calls(c)
    BY <1>a, <2>1, CallStepPreserves DEF Calls
  <2>2. CASE OtherEnds(c)
    BY <1>a, <2>2, CallEnds DEF OtherEnds
  <2>3. ASSUME NEW key \in Key, NEW api \in BOOLEAN, OtherAsks(c, key, api) PROVE CallInv'
    BY <1>a, <2>3, AskPreserves DEF OtherAsks
  <2> QED BY <2>1, <2>2, <2>3
<1>3. UNCHANGED stop
  BY DEF Calls, OtherEnds, OtherAsks, Ask, CallStep, Lookup, Prepare, Send, Receive, Refused,
         Dropped, Wait, Open, Fill, WriteFails, Rename, List, Retire, RetireFails
<1>4. UNCHANGED <<job, engine, watcher, lost, disk, world>>
  BY <1>1 DEF engineVars
<1>5. ToldWhy' /\ DOMAIN world' = {"parent", "signalled"}
  BY <1>a, <1>3, <1>4 DEF ToldWhy, EngineType
<1> QED BY <1>2, <1>3, <1>4, <1>5, OthersMoveOn

\* The invariant of the process holds at first.
LEMMA BridgeStarts == Init => BridgeInv
<1> SUFFICES ASSUME Init PROVE BridgeInv
  OBVIOUS
<1>1. CallInv
  BY CallsStart DEF Init
<1>2. ~stop[Me]
  BY MeCalls DEF Init, CallsInit
<1>3. EngineType /\ WorkLeft /\ ResultMade /\ RaisedFor /\ ToldWhy /\ AtMostOne
  BY <1>2 DEF Init, EngineType, IsEngine, WorkLeft, ResultMade, RaisedFor, ToldWhy, AtMostOne
<1>4. TerminalEarned
  BY DEF Init, TerminalEarned
<1> QED BY <1>1, <1>3, <1>4 DEF BridgeInv

\* Every step of the process preserves it.
LEMMA BridgeStepPreserves == BridgeInv /\ [Next]_vars => BridgeInv'
<1> SUFFICES ASSUME BridgeInv, [Next]_vars PROVE BridgeInv'
  OBVIOUS
<1>1. CASE UNCHANGED vars
  <2>1. UNCHANGED <<job, engine, watcher, lost, disk, world, callVars>>
    BY <1>1 DEF vars, engineVars
  <2>2. CallInv' /\ UNCHANGED stop
    BY <2>1, CallsKept DEF BridgeInv, callVars
  <2>3. ToldWhy' /\ DOMAIN world' = {"parent", "signalled"}
    BY <2>1, <2>2 DEF BridgeInv, ToldWhy, EngineType
  <2> QED BY <2>1, <2>2, <2>3, OthersMoveOn
<1>2. CASE Main
  BY <1>2, MainPreserves, AskingPreserves, ArtifactPreserves DEF Main
<1>3. CASE ParentLost \/ CancelForParent \/ ReportParentLost \/ TerminateGroup
  BY <1>3, WatchPreserves
<1>4. CASE KillGroup \/ AppDies \/ Signal \/ Kill
  BY <1>4, EndPreserves
<1>5. ASSUME NEW c \in Caller,
             Calls(c) \/ OtherEnds(c) \/ \E key \in Key, api \in BOOLEAN : OtherAsks(c, key, api)
      PROVE  BridgeInv'
  BY <1>5, CallersPreserve
<1> QED BY <1>1, <1>2, <1>3, <1>4, <1>5 DEF Next

\* So it holds always.
LEMMA BridgeAlways == Spec => []BridgeInv
  BY BridgeStarts, BridgeStepPreserves, PTL DEF Spec

-----------------------------------------------------------------------------
\* Whatever the command, the signals and the end of the App do, a success is
\* written only for what was made, parent_lost only when the App is gone, and
\* cancelled only after a signal (runner.py).
THEOREM BridgeTerminalEarned == Spec => []TerminalEarned
  BY BridgeAlways, PTL DEF BridgeInv

\* An engine that is cancelled sends a chat completions API at most one more
\* request, however many tasks, retries and cache entries it goes through
\* (openai_compatible.py).
THEOREM BridgeCancelStops == Spec => []CancelStopsRequests
<1>1. BridgeInv => CancelStopsRequests
  BY DEF BridgeInv, CallInv, CallsOrderly, Late, CancelStopsRequests
<1> QED BY <1>1, BridgeAlways, PTL

\* A torn entry of the cache is one that two processes wrote at the same time:
\* no full disk, no end of a process and no clearing to the limit leaves one
\* (model_cache.py, files.py).
THEOREM BridgeTornOnlyByTwo == Spec => []TornOnlyByTwo
  BY BridgeAlways, PTL DEF BridgeInv, CallInv

\* There is never a result and an error, and what was written stays as it is
\* (runner.py).
THEOREM BridgeOneTerminal == Spec => OneTerminal
<1>1. BridgeInv /\ BridgeInv' /\ [Next]_vars =>
        [ /\ ~(disk'.result # "none" /\ disk'.error # "none")
          /\ Terminal => disk' = disk ]_vars
  <2> SUFFICES ASSUME BridgeInv', Next
               PROVE  /\ ~(disk'.result # "none" /\ disk'.error # "none")
                      /\ Terminal => disk' = disk
    OBVIOUS
  <2>1. ~(disk'.result # "none" /\ disk'.error # "none")
    BY DEF BridgeInv, AtMostOne
  <2>2. ASSUME Terminal PROVE disk' = disk
    <3>1. CASE Main
      BY <2>2, <3>1 DEF Main, Load, StartWatcher, EstablishSession, Start, Configure, CallModel,
         NothingToAsk, ModelAnswers, CheckFlag, WriteEvent, SearchProbed, Produced, SentOut,
         HandlerReturns, WriteResultOnce, WriteCompleted, WriteError, WriteErrorOnce, Leave,
         engineVars
    <3>2. CASE \/ ParentLost \/ CancelForParent \/ ReportParentLost \/ TerminateGroup
               \/ KillGroup \/ AppDies \/ Signal \/ Kill
      BY <2>2, <3>2 DEF ParentLost, CancelForParent, ReportParentLost, WriteErrorOnce,
         TerminateGroup, KillGroup, AppDies, Signal, Kill, End
    <3>3. CASE \E c \in Caller :
                 \/ Calls(c) \/ OtherEnds(c)
                 \/ \E key \in Key, api \in BOOLEAN : OtherAsks(c, key, api)
      BY <3>3 DEF Calls, OtherEnds, OtherAsks, engineVars
    <3> QED BY <3>1, <3>2, <3>3 DEF Next
  <2> QED BY <2>1, <2>2
<1> QED BY <1>1, BridgeAlways, PTL DEF Spec, OneTerminal
=============================================================================
