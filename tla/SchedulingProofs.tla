-------------------------- MODULE SchedulingProofs --------------------------
(***************************************************************************)
(* Theorems about AppScheduling: what Quit ends stays ended, a topic is    *)
(* scheduled once a day, and only the topics that are on; and, while no    *)
(* more than one write fails, the timer fires in time for each of them.    *)
(*                                                                         *)
(* The first three rest on the order of the queue's mail.  A refresh that  *)
(* was overtaken may still have an enqueue in the mail, which the queue    *)
(* will serve; but the jobs its successor asks for, the barrier of whoever *)
(* blocks the scheduling, and the one Quit waits behind, all come later.   *)
(***************************************************************************)
EXTENDS AppScheduling, ListFacts

-----------------------------------------------------------------------------
(* The inductive invariant.                                                *)

\* Each waits once in a queue s; who does, and who waits in front of whom.
Once(s)         == \A i, j \in 1 .. Len(s) : s[i] = s[j] => i = j
Waits(s, x)     == \E i \in 1 .. Len(s) : s[i] = x
Before(s, x, y) == \E i, j \in 1 .. Len(s) : i < j /\ s[i] = x /\ s[j] = y

IsTask(r) ==
  /\ DOMAIN r = {"pc", "by", "latest", "told", "snap", "at", "todo", "topic", "woke"}
  /\ r.latest \in BOOLEAN /\ r.at \in 0 .. End /\ r.snap \subseteq Topics

TaskTypes == DOMAIN task = Tasks /\ \A p \in Tasks : IsTask(task[p])

Types ==
  /\ TaskTypes
  /\ now \in 0 .. End /\ on \subseteq Topics /\ inputs \subseteq Topics
  /\ job \in [Topics \X Days -> {"none", "open", "ended"}]
  /\ mail \in Seq(Tasks \cup {"quit", "drain"})
  /\ faulted \in BOOLEAN /\ recon \in BOOLEAN

Enqueues(p) == task[p].pc = "enqueue"

\* Each waits once, and is known to wait.
Mailbox ==
  /\ Once(mail)
  /\ \A p \in Tasks : Waits(mail, p) <=> task[p].pc \in {"jobs", "enqueue", "barrier"}
  /\ Waits(mail, "quit") <=> quit = "barrier"
  /\ Waits(mail, "drain") <=> drain = "barrier"

\* Quit stops the coordinator, waits behind the last enqueue, and then
\* cancels the timer.
Stopping ==
  /\ lifecycle = "stopped" <=> quit \in {"barrier", "cancel", "stopped"}
  /\ quit = "stopped" => timer = {}
  /\ \A p \in Tasks : Enqueues(p) => quit \notin {"cancel", "stopped"}
  /\ \A p \in Tasks : Enqueues(p) /\ quit = "barrier" => Before(mail, p, "quit")

\* One refresh is the latest.  What another has in the mail comes before the
\* jobs that the latest asks for.
OneLatest ==
  /\ \A p, q \in Tasks : task[p].latest /\ task[q].latest => p = q
  /\ \A p \in Tasks : task[p].latest => lifecycle = "active"
  /\ \A p, q \in Tasks : Enqueues(p) /\ Enqueues(q) => p = q
  /\ \A p, q \in Tasks :
       Enqueues(p) /\ task[q].latest /\ p # q =>
         \/ task[q].pc \in {"inputs", "evaluate"}
         \/ task[q].pc = "jobs" /\ Before(mail, p, q)

NotScheduled(p, t) == job[<<t, DayOf(task[p].at)>>] = "none"

\* What a refresh is about to enqueue has not been scheduled since it looked.
Work ==
  /\ \A p \in Tasks : Enqueues(p) => \E t \in Topics : task[p].topic = {t} /\ NotScheduled(p, t)
  /\ \A p \in Tasks :
       task[p].latest /\ task[p].pc \in {"loop", "enqueue"} =>
         \A t \in task[p].todo : NotScheduled(p, t) /\ (Enqueues(p) => t \notin task[p].topic)
  /\ \A p \in Tasks : task[p].pc \in {"loop", "enqueue"} => task[p].todo \subseteq task[p].snap
  /\ \A p \in Tasks : Enqueues(p) => task[p].topic \subseteq task[p].snap

Recovers(p) == task[p].by = "recover"

Refreshing == {"inputs", "evaluate", "jobs", "loop", "enqueue", "wake", "await", "arm", "return"}

\* One recovery at a time; it brings the inputs up to date, and the settings
\* do not change until it is over.
Recovering ==
  /\ \A p \in Tasks : Recovers(p) => task[p].pc \notin {"idle", "launch", "asked", "fired"}
  /\ \A p \in Tasks : task[p].pc \in {"validate", "reactivate"} => Recovers(p)
  /\ \A p, q \in Tasks : Recovers(p) /\ Recovers(q) => p = q
  /\ \A p \in Tasks :
       Recovers(p) /\ task[p].pc \in Refreshing \cup {"reactivate", "refresh"} => inputs = on
  /\ \A p \in Tasks :
       task[p].pc \in {"validate", "reactivate"} /\ drain = "barrier" => faulted

\* Someone whose turn in the mail is after p's enqueue, and who makes that
\* enqueue legitimate: a newer refresh, or a fault that is being shown.
Behind(p) ==
  \/ Quitting
  \/ \E q \in Tasks : task[q].latest /\ q # p /\ task[q].pc \in {"inputs", "evaluate", "jobs"}
  \/ \E q \in Tasks : task[q].pc = "barrier" /\ Before(mail, p, q)
  \/ /\ drain = "barrier" /\ Before(mail, p, "drain")
     /\ recon \/ \E q \in Tasks : Recovers(q) /\ task[q].pc \in {"reactivate", "block"}

Looks(p) == task[p].latest /\ task[p].pc \in {"evaluate", "jobs", "loop", "enqueue"}

\* A refresh that a change of the settings asked for is still to come.
ToCome == \E q \in Tasks : task[q].pc \in {"asked", "refresh"}

\* The inputs of the coordinator, of its latest refresh, and of an enqueue in
\* the mail are the settings, or are known to be old.
Follows ==
  /\ inputs = on \/ Quitting \/ faulted \/ \E q \in Tasks : task[q].pc = "asked"
  /\ \A p \in Tasks : Looks(p) => task[p].snap \subseteq on \/ Quitting \/ faulted \/ ToCome
  /\ \A p \in Tasks : Enqueues(p) => task[p].topic \subseteq on \/ Behind(p) \/ faulted \/ ToCome
  /\ \A p \in Tasks : Enqueues(p) /\ lifecycle # "active" => Behind(p)

\* Nothing is old when a recovery has got past its own first step, or when
\* only a failed reconciliation is shown.
Renewed ==
  (\E s \in Tasks : Recovers(s) /\ task[s].pc \in Refreshing) \/ (recon /\ ~faulted) =>
    /\ inputs = on
    /\ \A p \in Tasks : Looks(p) => task[p].snap \subseteq on \/ Quitting
    /\ \A p \in Tasks : Enqueues(p) => task[p].topic \subseteq on \/ Behind(p)

SchedulingInv ==
  Types /\ Mailbox /\ Stopping /\ OneLatest /\ Work /\ Recovering /\ Follows /\ Renewed

-----------------------------------------------------------------------------
(* Its steps.                                                              *)

\* The fields of a refresh that a step leaves alone.
Keeps(q) ==
  /\ task'[q].pc = task[q].pc /\ task'[q].by = task[q].by /\ task'[q].snap = task[q].snap
  /\ task'[q].at = task[q].at /\ task'[q].todo = task[q].todo /\ task'[q].topic = task[q].topic
  /\ task'[q].latest => task[q].latest

\* The clock ends on a natural number.
LEMMA EndIsNat == End \in Nat
  BY DayAssumption, BoundAssumption DEF End

\* The day of any time of the clock.
LEMMA DayIsADay ==
  ASSUME NEW at \in 0 .. End
  PROVE  DayOf(at) \in Days
  BY DayAssumption, BoundAssumption DEF DayOf, Days, End

\* A refresh that begins, and one that moves on.
LEMMA Becomes ==
  ASSUME TaskTypes, NEW p \in Tasks, NEW r, IsTask(r), task' = [task EXCEPT ![p] = r]
  PROVE  TaskTypes' /\ task'[p] = r /\ \A q \in Tasks : q # p => task'[q] = task[q]
  BY DEF TaskTypes

\* A refresh that is idle, and one that was asked for.
LEMMA Fresh ==
  /\ IsTask(Idle) /\ Idle.pc = "idle" /\ Idle.by = "start" /\ ~Idle.latest
  /\ IsTask(Asked) /\ Asked.pc = "asked" /\ Asked.by = "start" /\ ~Asked.latest
  BY EndIsNat DEF IsTask, Idle, Asked

\* A refresh that goes on to its next step.
LEMMA MovesOn ==
  ASSUME TaskTypes, NEW p \in Tasks, NEW pc, Move(p, pc)
  PROVE  /\ TaskTypes' /\ \A q \in Tasks : q # p => task'[q] = task[q]
         /\ task'[p].pc = pc /\ task'[p].by = task[p].by /\ task'[p].latest = task[p].latest
         /\ task'[p].snap = task[p].snap /\ task'[p].at = task[p].at
         /\ task'[p].todo = task[p].todo /\ task'[p].topic = task[p].topic
  BY DEF TaskTypes, IsTask, Move

\* Work is not disturbed by a step that schedules nothing and begins no loop.
LEMMA WorkFrame ==
  ASSUME Types, Work, \A td \in Topics \X Days : job[td] = "none" => job'[td] = "none",
         \A q \in Tasks : task'[q].pc \in {"loop", "enqueue"} => Keeps(q)
  PROVE  Work'
<1>1. ASSUME NEW q \in Tasks, Enqueues(q)'
      PROVE  \E t \in Topics : task'[q].topic = {t} /\ NotScheduled(q, t)'
  <2>1. Keeps(q) /\ Enqueues(q)
    BY <1>1 DEF Enqueues, Keeps
  <2>2. PICK t \in Topics : task[q].topic = {t} /\ NotScheduled(q, t)
    BY <2>1 DEF Work
  <2>3. <<t, DayOf(task[q].at)>> \in Topics \X Days
    BY DayIsADay DEF Types, TaskTypes, IsTask
  <2> QED BY <2>1, <2>2, <2>3 DEF Keeps, NotScheduled
<1>2. ASSUME NEW q \in Tasks, task'[q].latest, task'[q].pc \in {"loop", "enqueue"},
             NEW t \in task'[q].todo
      PROVE  NotScheduled(q, t)' /\ (Enqueues(q)' => t \notin task'[q].topic)
  <2>1. Keeps(q)
    BY <1>2
  <2>2. task[q].latest /\ task[q].pc \in {"loop", "enqueue"} /\ t \in task[q].todo
    BY <1>2, <2>1 DEF Keeps
  <2>3. NotScheduled(q, t) /\ (Enqueues(q) => t \notin task[q].topic)
    BY <2>2 DEF Work
  <2>4. <<t, DayOf(task[q].at)>> \in Topics \X Days
    BY <2>2, DayIsADay DEF Types, TaskTypes, IsTask, Work
  <2> QED BY <2>1, <2>3, <2>4 DEF Keeps, NotScheduled, Enqueues
<1>3. ASSUME NEW q \in Tasks, task'[q].pc \in {"loop", "enqueue"}
      PROVE  /\ task'[q].todo \subseteq task'[q].snap
             /\ Enqueues(q)' => task'[q].topic \subseteq task'[q].snap
  <2>1. Keeps(q)
    BY <1>3
  <2>2. task[q].pc \in {"loop", "enqueue"}
    BY <1>3, <2>1 DEF Keeps
  <2> QED BY <2>1, <2>2 DEF Keeps, Work, Enqueues
<1> QED BY <1>1, <1>2, <1>3 DEF Work, Enqueues

\* A call that is made waits behind all others.
LEMMA AppendWaits ==
  ASSUME NEW S, NEW s \in Seq(S), NEW e \in S, NEW x, NEW y
  PROVE  /\ Waits(Append(s, e), x) <=> Waits(s, x) \/ x = e
         /\ Before(s, x, y) => Before(Append(s, e), x, y)
         /\ Waits(s, x) => Before(Append(s, e), x, e)
         /\ Once(s) /\ ~Waits(s, e) => Once(Append(s, e))
         /\ Append(s, e) \in Seq(S)
<1>1. /\ Len(Append(s, e)) = Len(s) + 1 /\ Len(s) \in Nat
      /\ \A i \in 1 .. Len(s) : Append(s, e)[i] = s[i]
      /\ Append(s, e)[Len(s) + 1] = e
      /\ Append(s, e) \in Seq(S)
  OBVIOUS
<1> DEFINE r == Append(s, e)
<1> HIDE DEF r
<1>2. /\ Len(r) = Len(s) + 1 /\ Len(s) \in Nat
      /\ \A i \in 1 .. Len(s) : r[i] = s[i]
      /\ r[Len(s) + 1] = e
      /\ r \in Seq(S)
  BY <1>1 DEF r
<1>3. Waits(r, x) <=> Waits(s, x) \/ x = e
  BY <1>2 DEF Waits
<1>4. Before(s, x, y) => Before(r, x, y)
  BY <1>2 DEF Before
<1>5. Waits(s, x) => Before(r, x, e)
  BY <1>2 DEF Waits, Before
<1>6. Once(s) /\ ~Waits(s, e) => Once(r)
  BY <1>2 DEF Waits, Once
<1> QED BY <1>2, <1>3, <1>4, <1>5, <1>6 DEF r

\* A call that is served was in front of all others.
LEMMA TailWaits ==
  ASSUME NEW S, NEW s \in Seq(S), s # <<>>, Once(s), NEW x, NEW y
  PROVE  /\ Waits(Tail(s), x) <=> Waits(s, x) /\ x # Head(s)
         /\ Before(s, x, y) /\ x # Head(s) => Before(Tail(s), x, y)
         /\ ~Before(s, x, Head(s))
         /\ Waits(s, Head(s)) /\ Head(s) \in S
         /\ Once(Tail(s)) /\ Tail(s) \in Seq(S)
<1>1. /\ Len(s) \in Nat \ {0} /\ Len(Tail(s)) = Len(s) - 1 /\ Head(s) = s[1]
      /\ \A i \in 1 .. Len(s) - 1 : Tail(s)[i] = s[i + 1]
      /\ Tail(s) \in Seq(S) /\ Head(s) \in S
  OBVIOUS
<1> DEFINE r == Tail(s)
           h == Head(s)
<1> HIDE DEF r, h
<1>2. /\ Len(s) \in Nat \ {0} /\ Len(r) = Len(s) - 1 /\ h = s[1]
      /\ \A i \in 1 .. Len(s) - 1 : r[i] = s[i + 1]
      /\ r \in Seq(S) /\ h \in S
  BY <1>1 DEF r, h
<1>3. ASSUME NEW i \in 1 .. Len(s), s[i] # h
      PROVE  i - 1 \in 1 .. Len(r) /\ r[i - 1] = s[i]
  BY <1>2, <1>3
<1>4. ASSUME NEW i \in 1 .. Len(r)
      PROVE  i + 1 \in 1 .. Len(s) /\ r[i] = s[i + 1] /\ s[i + 1] # h
  BY <1>2 DEF Once
<1>5. Waits(r, x) <=> Waits(s, x) /\ x # h
  BY <1>3, <1>4 DEF Waits
<1>6. ~Before(s, x, h)
  BY <1>2 DEF Before, Once
<1>7. Before(s, x, y) /\ x # h => Before(r, x, y)
  <2>1. SUFFICES ASSUME Before(s, x, y), x # h PROVE Before(r, x, y)
    OBVIOUS
  <2>2. PICK i, j \in 1 .. Len(s) : i < j /\ s[i] = x /\ s[j] = y
    BY <2>1 DEF Before
  <2>3. s[j] # h
    BY <1>2, <2>2 DEF Once
  <2>4. i - 1 \in 1 .. Len(r) /\ r[i - 1] = x /\ j - 1 \in 1 .. Len(r) /\ r[j - 1] = y /\ i - 1 < j - 1
    BY <1>3, <2>1, <2>2, <2>3
  <2> QED BY <2>4 DEF Before
<1>8. Waits(s, h) /\ Once(r)
  BY <1>2 DEF Waits, Once
<1> QED BY <1>2, <1>5, <1>6, <1>7, <1>8 DEF r, h

InMail == {"jobs", "enqueue", "barrier"}

\* A refresh p moves, and none of the calls to the queue is made or served.
Moves(p) ==
  /\ \A q \in Tasks : q # p => task'[q] = task[q]
  /\ task[p].pc \notin InMail /\ task'[p].pc \notin InMail \cup {"loop"}
  /\ task'[p].latest => task[p].latest
  /\ task'[p].latest /\ task[p].pc \in {"inputs", "evaluate"} => task'[p].pc \in {"inputs", "evaluate"}
  /\ UNCHANGED <<job, mail, quit>>
  /\ drain' = "barrier" <=> drain = "barrier"
  /\ lifecycle' = "stopped" <=> lifecycle = "stopped"
  /\ lifecycle' # "active" => lifecycle' = lifecycle
  /\ quit = "stopped" => timer' \in {timer, {}}

\* What is then left to show.
LEMMA MovesKeeps ==
  ASSUME SchedulingInv, NEW p \in Tasks, Moves(p)
  PROVE  /\ Mailbox' /\ Stopping' /\ OneLatest' /\ Work'
         /\ \A q \in Tasks : Enqueues(q)' => Enqueues(q) /\ q # p
<1>1. Mailbox'
  BY DEF SchedulingInv, Mailbox, Moves, InMail
<1>2. Stopping'
  BY DEF SchedulingInv, Stopping, Enqueues, Moves, InMail
<1>3. OneLatest'
  BY DEF SchedulingInv, OneLatest, Enqueues, Moves, InMail
<1>4. Work'
  <2>1. \A q \in Tasks : task'[q].pc \in {"loop", "enqueue"} => Keeps(q)
    BY DEF Moves, Keeps, InMail
  <2> QED BY <2>1, WorkFrame DEF SchedulingInv, Moves
<1> QED BY <1>1, <1>2, <1>3, <1>4 DEF Moves, InMail, Enqueues

\* A step that leaves the settings alone, and in which nobody reads inputs,
\* enters the mail, takes a fault back, or drops a refresh that is to come.
Steady ==
  /\ on' = on /\ inputs' \in {inputs, on}
  /\ faulted => faulted'
  /\ Quitting => Quitting'
  /\ inputs' = on' \/ \A q \in Tasks : task[q].pc = "asked" => task'[q].pc = "asked"
  /\ ToCome => ToCome'
  /\ \A q \in Tasks : Looks(q)' => Looks(q) /\ task'[q].snap = task[q].snap
  /\ \A q \in Tasks : Enqueues(q)' => Enqueues(q) /\ task'[q].topic = task[q].topic
  /\ \A q \in Tasks : Enqueues(q)' /\ Behind(q) => Behind(q)'
  /\ lifecycle' \in {lifecycle, "active"}

Past == \E s \in Tasks : Recovers(s) /\ task[s].pc \in Refreshing

\* What a steady step keeps of the settings.
LEMMA SteadyFollows ==
  ASSUME Follows, Steady
  PROVE  Follows'
<1>1. inputs' = on' \/ Quitting' \/ faulted' \/ \E q \in Tasks : task'[q].pc = "asked"
  BY DEF Follows, Steady
<1>2. \A q \in Tasks : Looks(q)' => task'[q].snap \subseteq on' \/ Quitting' \/ faulted' \/ ToCome'
  BY DEF Follows, Steady
<1>3. \A q \in Tasks : Enqueues(q)' => task'[q].topic \subseteq on' \/ Behind(q)' \/ faulted' \/ ToCome'
  BY DEF Follows, Steady
<1>4. \A q \in Tasks : Enqueues(q)' /\ lifecycle' # "active" => Behind(q)'
  BY DEF Follows, Steady
<1> QED BY <1>1, <1>2, <1>3, <1>4 DEF Follows

\* The same while a recovery, or a failed reconciliation, is on.
LEMMA SteadyRenewed ==
  ASSUME Renewed, Steady, Past' \/ (recon' /\ ~faulted') => Past \/ (recon /\ ~faulted)
  PROVE  Renewed'
<1>1. SUFFICES ASSUME Past' \/ (recon' /\ ~faulted')
               PROVE  /\ inputs' = on'
                      /\ \A q \in Tasks : Looks(q)' => task'[q].snap \subseteq on' \/ Quitting'
                      /\ \A q \in Tasks : Enqueues(q)' => task'[q].topic \subseteq on' \/ Behind(q)'
  BY DEF Renewed, Past
<1>2. /\ inputs = on
      /\ \A q \in Tasks : Looks(q) => task[q].snap \subseteq on \/ Quitting
      /\ \A q \in Tasks : Enqueues(q) => task[q].topic \subseteq on \/ Behind(q)
  BY <1>1 DEF Renewed, Past
<1> QED BY <1>2 DEF Steady

\* Event preserves the invariant.
LEMMA EventStep ==
  ASSUME SchedulingInv, NEW p \in Tasks, Event(p)
  PROVE  SchedulingInv'
<1>1. /\ TaskTypes' /\ task'[p] = Asked /\ \A q \in Tasks : q # p => task'[q] = task[q]
  BY Becomes, Fresh DEF Event, SchedulingInv, Types
<1>2. /\ task[p].pc = "idle" /\ task'[p].pc = "asked" /\ task'[p].by = "start" /\ ~task'[p].latest
      /\ UNCHANGED <<now, on, inputs, job, lifecycle, timer, mail, drain, faulted, recon, quit>>
  BY <1>1, Fresh DEF Event, Begin, queueVars, coordVars, drainVars, shown
<1>3. Types'
  BY <1>1, <1>2 DEF SchedulingInv, Types
<1>4. Moves(p)
  BY <1>1, <1>2 DEF Moves, InMail
<1>5. \A q \in Tasks : Behind(q) => Behind(q)'
  BY <1>1, <1>2 DEF SchedulingInv, Behind, Quitting, Recovers
<1>6. Recovering'
  BY <1>1, <1>2 DEF SchedulingInv, Recovering, Recovers, Refreshing
<1>7. Steady
  BY <1>1, <1>2, <1>5 DEF Steady, Looks, ToCome, Enqueues, Quitting
<1>8. Past' => Past
  BY <1>1, <1>2 DEF Past, Recovers, Refreshing
<1> QED BY <1>2, <1>3, <1>4, <1>6, <1>7, <1>8, MovesKeeps, SteadyFollows, SteadyRenewed DEF SchedulingInv

\* Change preserves the invariant.
LEMMA ChangeStep ==
  ASSUME SchedulingInv, NEW p \in Tasks, NEW topics \in SUBSET Topics, Change(p, topics)
  PROVE  SchedulingInv'
<1>1. /\ TaskTypes' /\ task'[p] = Asked /\ \A q \in Tasks : q # p => task'[q] = task[q]
  BY Becomes, Fresh DEF Change, SchedulingInv, Types
<1>2. /\ task[p].pc = "idle" /\ task'[p].pc = "asked" /\ task'[p].by = "start" /\ ~task'[p].latest
      /\ UNCHANGED <<now, inputs, job, lifecycle, timer, mail, drain, faulted, recon, quit>>
      /\ on' = topics
  BY <1>1, Fresh DEF Change, Begin, queueVars, coordVars, drainVars, shown
<1>3. /\ ~recon
      /\ \A q \in Tasks : task[q].pc \in {"idle", "launch", "asked", "fired", "report"}
                          /\ (task[q].pc = "report" => task[q].by = "timer")
  BY DEF Change, behaviorChangesBlocked, Admitted
<1>4. Types'
  BY <1>1, <1>2 DEF SchedulingInv, Types
<1>5. Moves(p)
  BY <1>1, <1>2 DEF Moves, InMail
<1>6. Recovering'
  BY <1>1, <1>2, <1>3 DEF SchedulingInv, Recovering, Recovers, Refreshing
<1>7. Follows'
  BY <1>1, <1>2, <1>3 DEF Follows, Looks, Enqueues, ToCome
<1>8. Renewed'
  BY <1>1, <1>2, <1>3 DEF Renewed, Recovers, Refreshing
<1> QED BY <1>4, <1>5, <1>6, <1>7, <1>8, MovesKeeps DEF SchedulingInv

\* StartScheduling preserves the invariant.
LEMMA StartStep ==
  ASSUME SchedulingInv, NEW p \in Tasks, StartScheduling(p)
  PROVE  SchedulingInv'
<1>1. /\ task[p].pc = "asked"
      /\ UNCHANGED <<now, on, job, lifecycle, timer, mail, drain, faulted, recon, quit>>
  BY DEF StartScheduling, clockVars, queueVars, coordVars, drainVars, shown
<1>2. /\ TaskTypes' /\ \A q \in Tasks : q # p => task'[q] = task[q]
      /\ \/ /\ Quitting \/ recon \/ faulted
            /\ task'[p] = Idle /\ inputs' = inputs
         \/ /\ task'[p].pc = "refresh" /\ task'[p].by = task[p].by
            /\ task'[p].latest = task[p].latest
            /\ inputs' = on
  <2>1. CASE Quitting \/ recon \/ faulted
    BY <2>1, Becomes, Fresh DEF StartScheduling, SchedulingInv, Types
  <2>2. CASE ~(Quitting \/ recon \/ faulted)
    BY <2>2, MovesOn DEF StartScheduling, SchedulingInv, Types
  <2> QED BY <2>1, <2>2
<1>3. task'[p].pc \in {"idle", "refresh"} /\ (task'[p].latest => task[p].latest)
  BY <1>2, Fresh
<1>4. Types'
  BY <1>1, <1>2 DEF SchedulingInv, Types
<1>5. Moves(p)
  BY <1>1, <1>2, <1>3 DEF Moves, InMail
<1>6. \A q \in Tasks : Enqueues(q) /\ Behind(q) => Behind(q)'
  BY <1>1, <1>2, <1>3 DEF SchedulingInv, Behind, Enqueues, Quitting, Recovers
<1>7. Recovering'
  BY <1>1, <1>2, <1>3, Fresh DEF SchedulingInv, Recovering, Recovers, Refreshing
<1>8. ASSUME ~Quitting, ~faulted
      PROVE  /\ inputs' = on
             /\ task'[p].pc = "idle" => recon
  BY <1>1, <1>2, <1>3, <1>8 DEF SchedulingInv, Renewed, Follows
<1>9. Follows'
  <2>1. inputs' = on' \/ Quitting' \/ faulted'
    BY <1>1, <1>8 DEF Quitting
  <2>2. ToCome => ToCome' \/ Quitting \/ faulted \/ (recon /\ ~faulted)
    BY <1>1, <1>2 DEF ToCome
  <2>3. \A q \in Tasks : Looks(q)' => Looks(q) /\ task'[q].snap = task[q].snap
    BY <1>1, <1>2, Fresh DEF Looks
  <2>4. \A q \in Tasks : Looks(q)' => task'[q].snap \subseteq on' \/ Quitting' \/ faulted' \/ ToCome'
    BY <1>1, <2>2, <2>3 DEF SchedulingInv, Follows, Renewed, Quitting
  <2>5. \A q \in Tasks : Enqueues(q)' => Enqueues(q) /\ task'[q].topic = task[q].topic
    BY <1>1, <1>2, <1>3 DEF Enqueues
  <2>6. \A q \in Tasks : Enqueues(q)' => task'[q].topic \subseteq on' \/ Behind(q)' \/ faulted' \/ ToCome'
    <3>1. Quitting => Quitting' /\ \A q \in Tasks : Behind(q)'
      BY <1>1 DEF Quitting, Behind
    <3> QED BY <1>1, <1>6, <2>2, <2>5, <3>1 DEF SchedulingInv, Follows, Renewed
  <2> QED BY <1>1, <1>6, <2>1, <2>4, <2>5, <2>6 DEF SchedulingInv, Follows
<1>10. Renewed'
  BY <1>1, <1>2, <1>3, <1>6 DEF SchedulingInv, Renewed, Recovering, Looks, Recovers, Enqueues, Refreshing, Quitting
<1> QED BY <1>4, <1>5, <1>7, <1>9, <1>10, MovesKeeps DEF SchedulingInv

\* RunOther preserves the invariant.
LEMMA RunOtherStep ==
  ASSUME SchedulingInv, RunOther
  PROVE  SchedulingInv'
<1>1. /\ UNCHANGED <<now, on, inputs, job, task, lifecycle, timer, mail, faulted, recon, quit>>
      /\ drain' = "barrier" <=> drain = "barrier"
  BY DEF RunOther, RequestDrain, coordVars, shown, drainVars
<1>2. /\ Types' /\ Mailbox' /\ Stopping' /\ OneLatest' /\ Recovering'
  BY <1>1 DEF SchedulingInv, Types, TaskTypes, Mailbox, Stopping, OneLatest, Recovering, Enqueues, Recovers
<1>3. Work'
  BY <1>1, WorkFrame DEF SchedulingInv, Keeps
<1>4. \A q \in Tasks : Behind(q) => Behind(q)'
  BY <1>1 DEF Behind, Quitting, Recovers
<1>5. Steady
  BY <1>1, <1>4 DEF Steady, Looks, ToCome, Enqueues, Quitting
<1>6. Past' => Past
  BY <1>1 DEF Past, Recovers
<1> QED BY <1>1, <1>2, <1>3, <1>5, <1>6, SteadyFollows, SteadyRenewed DEF SchedulingInv

\* Recover preserves the invariant.
LEMMA RecoverStep ==
  ASSUME SchedulingInv, NEW p \in Tasks, Recover(p)
  PROVE  SchedulingInv'
<1> DEFINE r == [Idle EXCEPT !.pc = "validate", !.by = "recover"]
<1>1. /\ IsTask(r) /\ r.pc = "validate" /\ r.by = "recover" /\ ~r.latest
  BY Fresh, EndIsNat DEF Idle, IsTask
<1>2. task' = [task EXCEPT ![p] = r]
  BY DEF Recover
<1> HIDE DEF r
<1>3. /\ TaskTypes' /\ task'[p] = r /\ \A q \in Tasks : q # p => task'[q] = task[q]
  BY <1>1, <1>2, Becomes DEF SchedulingInv, Types
<1>4. /\ task[p].pc = "idle" /\ drain = "none"
      /\ UNCHANGED <<now, on, inputs, job, lifecycle, timer, mail, drain, faulted, recon, quit>>
      /\ \A q \in Tasks : task[q].pc \in {"idle", "launch", "asked", "fired", "report"}
                          /\ (task[q].pc = "report" => task[q].by = "timer")
  BY DEF Recover, Begin, Admitted, clockVars, queueVars, coordVars, drainVars, shown
<1>5. Types'
  BY <1>3, <1>4 DEF SchedulingInv, Types
<1>6. Moves(p)
  BY <1>1, <1>3, <1>4 DEF Moves, InMail
<1>7. \A q \in Tasks : Behind(q) => Behind(q)'
  BY <1>1, <1>3, <1>4 DEF Behind, Quitting, Recovers
<1>8. \A q \in Tasks : ~Recovers(q)
  BY <1>4 DEF SchedulingInv, Recovering, Recovers
<1>9. Recovering'
  BY <1>1, <1>3, <1>4, <1>8 DEF SchedulingInv, Recovering, Recovers, Refreshing
<1>10. Steady
  BY <1>1, <1>3, <1>4, <1>7 DEF Steady, Looks, ToCome, Enqueues, Quitting
<1>11. Past' => Past
  BY <1>1, <1>3, <1>4, <1>8 DEF Past, Recovers, Refreshing
<1> QED BY <1>4, <1>5, <1>6, <1>9, <1>10, <1>11, MovesKeeps, SteadyFollows, SteadyRenewed DEF SchedulingInv

\* A fault that is found in the validation is shown at once; after one that
\* succeeds the inputs are the settings.
LEMMA ValidateStep ==
  ASSUME SchedulingInv, NEW p \in Tasks, Validate(p)
  PROVE  SchedulingInv'
<1>1. /\ task[p].pc = "validate" /\ Recovers(p)
      /\ UNCHANGED <<now, on, job, lifecycle, timer, mail, drain, quit>>
  BY DEF Validate, SchedulingInv, Recovering, clockVars, coordVars, drainVars
<1>2. /\ TaskTypes' /\ \A q \in Tasks : q # p => task'[q] = task[q]
      /\ ~task'[p].latest \/ task'[p].latest = task[p].latest
      /\ \/ /\ task'[p].pc = "block" /\ task'[p].by = task[p].by
            /\ faulted' = TRUE /\ recon' \in BOOLEAN /\ inputs' = inputs
         \/ /\ task'[p].pc = "idle" /\ task'[p].by = "start"
            /\ UNCHANGED <<faulted, recon, inputs>>
         \/ /\ task'[p].pc = "reactivate" /\ task'[p].by = task[p].by
            /\ recon' = FALSE /\ faulted' = faulted /\ inputs' = on
  <2>1. CASE task' = [task EXCEPT ![p].pc = "block", ![p].told = TRUE] /\ faulted' = TRUE
             /\ recon' \in {recon, FALSE} /\ UNCHANGED inputs
    BY <2>1 DEF SchedulingInv, Types, TaskTypes, IsTask
  <2>2. CASE task' = [task EXCEPT ![p] = Idle] /\ UNCHANGED <<shown, inputs>>
    BY <2>2, Becomes, Fresh DEF SchedulingInv, Types, shown
  <2>3. CASE Move(p, "reactivate") /\ recon' = FALSE /\ inputs' = on /\ faulted' = faulted
    BY <2>3, MovesOn DEF SchedulingInv, Types
  <2> QED BY <2>1, <2>2, <2>3 DEF Validate
<1>3. Types'
  BY <1>1, <1>2 DEF SchedulingInv, Types
<1>4. Moves(p)
  BY <1>1, <1>2 DEF Moves, InMail
<1>5. \A q \in Tasks : Behind(q) => Behind(q)'
  BY <1>1, <1>2 DEF SchedulingInv, Behind, Quitting, Recovers
<1>6. Recovering'
  BY <1>1, <1>2 DEF SchedulingInv, Recovering, Recovers, Refreshing
<1>7. Steady
  BY <1>1, <1>2, <1>5 DEF Steady, Looks, ToCome, Enqueues, Quitting
<1>8. /\ Past' => Past
      /\ recon' /\ ~faulted' => recon /\ ~faulted
  BY <1>1, <1>2 DEF Past, Recovers, Refreshing
<1> QED BY <1>3, <1>4, <1>6, <1>7, <1>8, MovesKeeps, SteadyFollows, SteadyRenewed DEF SchedulingInv

\* Reactivate preserves the invariant.
LEMMA ReactivateStep ==
  ASSUME SchedulingInv, NEW p \in Tasks, Reactivate(p)
  PROVE  SchedulingInv'
<1>1. /\ task[p].pc = "reactivate" /\ Recovers(p)
      /\ UNCHANGED <<now, on, inputs, job, timer, mail, drain, faulted, recon, quit>>
      /\ \/ /\ Move(p, "return") /\ lifecycle' = lifecycle
            /\ Quitting
         \/ /\ Move(p, "refresh") /\ lifecycle' = "active"
            /\ lifecycle # "stopped"
  BY DEF Reactivate, SchedulingInv, Recovering, Stopping, Quitting, clockVars, queueVars, drainVars, shown
<1>2. /\ TaskTypes' /\ \A q \in Tasks : q # p => task'[q] = task[q]
      /\ task'[p].pc \in {"return", "refresh"} /\ task'[p].by = task[p].by
      /\ task'[p].latest = task[p].latest
  BY <1>1, MovesOn DEF SchedulingInv, Types
<1>3. Types'
  BY <1>1, <1>2 DEF SchedulingInv, Types
<1>4. Moves(p)
  BY <1>1, <1>2 DEF Moves, InMail
<1>5. Recovering'
  BY <1>1, <1>2 DEF SchedulingInv, Recovering, Recovers, Refreshing
<1>6. CASE Quitting
  <2>1. \A q \in Tasks : Behind(q)'
    BY <1>1, <1>6 DEF Behind, Quitting
  <2>2. Follows' /\ Renewed'
    <3>1. inputs' = on'
      BY <1>1 DEF SchedulingInv, Recovering
    <3> QED BY <1>1, <1>6, <2>1, <3>1 DEF Follows, Renewed, Quitting
  <2> QED BY <1>3, <1>4, <1>5, <2>2, MovesKeeps DEF SchedulingInv
<1>7. CASE ~Quitting
  <2>1. /\ task'[p].pc = "refresh" /\ lifecycle' = "active"
    BY <1>1, <1>2, <1>7, MovesOn DEF SchedulingInv, Types
  <2>2. ToCome'
    BY <2>1 DEF ToCome
  <2>3. \A q \in Tasks : Looks(q)' => Looks(q) /\ task'[q].snap = task[q].snap
    BY <1>1, <1>2, <2>1 DEF Looks
  <2>4. \A q \in Tasks : Enqueues(q)' => Enqueues(q) /\ task'[q].topic = task[q].topic
    BY <1>1, <1>2, <2>1 DEF Enqueues
  <2>5. inputs' = on'
    BY <1>1 DEF SchedulingInv, Recovering
  <2>6. Follows'
    BY <2>1, <2>2, <2>5 DEF Follows
  <2>7. ~Past
    BY <1>1 DEF SchedulingInv, Recovering, Recovers, Past, Refreshing
  <2>8. Past' => Past
    BY <1>2, <2>1 DEF Past, Recovers, Refreshing
  <2>9. \A q \in Tasks : recon /\ Behind(q) => Behind(q)'
    BY <1>1, <1>2, <2>1 DEF Behind, Quitting
  <2>10. Renewed'
    BY <1>1, <2>3, <2>4, <2>5, <2>7, <2>8, <2>9 DEF SchedulingInv, Renewed, Past, Quitting
  <2> QED BY <1>3, <1>4, <1>5, <2>6, <2>10, MovesKeeps DEF SchedulingInv
<1> QED BY <1>6, <1>7

\* FireTimer preserves the invariant.
LEMMA FireStep ==
  ASSUME SchedulingInv, NEW p \in Tasks, FireTimer(p)
  PROVE  SchedulingInv'
<1> DEFINE r == [Idle EXCEPT !.pc = "fired", !.by = "timer"]
<1>1. /\ IsTask(r) /\ r.pc = "fired" /\ r.by = "timer" /\ ~r.latest
  BY Fresh, EndIsNat DEF Idle, IsTask
<1>2. task' = [task EXCEPT ![p] = r]
  BY DEF FireTimer
<1> HIDE DEF r
<1>3. /\ TaskTypes' /\ task'[p] = r /\ \A q \in Tasks : q # p => task'[q] = task[q]
  BY <1>1, <1>2, Becomes DEF SchedulingInv, Types
<1>4. /\ task[p].pc = "idle" /\ timer' = {}
      /\ UNCHANGED <<now, on, inputs, job, lifecycle, mail, drain, faulted, recon, quit>>
  BY DEF FireTimer, Begin, clockVars, queueVars, drainVars, shown
<1>5. Types'
  BY <1>3, <1>4 DEF SchedulingInv, Types
<1>6. Moves(p)
  BY <1>1, <1>3, <1>4 DEF Moves, InMail
<1>7. \A q \in Tasks : Behind(q) => Behind(q)'
  BY <1>1, <1>3, <1>4 DEF Behind, Quitting, Recovers
<1>8. Recovering'
  BY <1>1, <1>3, <1>4 DEF SchedulingInv, Recovering, Recovers, Refreshing
<1>9. Steady
  BY <1>1, <1>3, <1>4, <1>7 DEF Steady, Looks, ToCome, Enqueues, Quitting
<1>10. Past' => Past
  BY <1>1, <1>3, <1>4 DEF Past, Recovers, Refreshing
<1> QED BY <1>4, <1>5, <1>6, <1>8, <1>9, <1>10, MovesKeeps, SteadyFollows, SteadyRenewed DEF SchedulingInv

\* Steps of a refresh that reads no inputs and sends the queue nothing.
Passes(p, from, to) ==
  /\ task[p].pc \in from /\ task'[p].pc \in to
  /\ task'[p].by = task[p].by /\ task'[p].latest = task[p].latest /\ task'[p].snap = task[p].snap
  /\ \A q \in Tasks : q # p => task'[q] = task[q]
  /\ TaskTypes'
  /\ UNCHANGED <<now, on, inputs, job, lifecycle, mail, faulted, recon, quit>>
  /\ drain' = "barrier" <=> drain = "barrier"
  /\ quit = "stopped" => timer' = timer

\* A refresh that passes a step without reading or calling anything.
LEMMA PassesInv ==
  ASSUME SchedulingInv, NEW p \in Tasks,
         \/ Passes(p, {"fired"}, {"refresh"})
         \/ Passes(p, {"loop", "wake", "await", "arm"}, {"wake", "await", "arm", "return"})
         \/ Passes(p, {"refresh", "evaluate"}, {"return"}) /\ lifecycle # "active"
         \/ Passes(p, {"evaluate"}, {"return"}) /\ ~task[p].latest
  PROVE  SchedulingInv'
<1>1. /\ \A q \in Tasks : q # p => task'[q] = task[q]
      /\ task'[p].by = task[p].by /\ task'[p].latest = task[p].latest /\ task'[p].snap = task[p].snap
      /\ UNCHANGED <<now, on, inputs, job, lifecycle, mail, faulted, recon, quit>>
      /\ drain' = "barrier" <=> drain = "barrier"
      /\ quit = "stopped" => timer' = timer
      /\ TaskTypes'
  BY DEF Passes
<1>2. /\ task[p].pc \in {"fired", "loop", "wake", "await", "arm", "refresh", "evaluate"}
      /\ task'[p].pc \in {"refresh", "wake", "await", "arm", "return"}
      /\ task[p].pc = "fired" <=> task'[p].pc = "refresh"
      /\ task[p].pc = "refresh" => lifecycle # "active"
      /\ task[p].pc = "evaluate" => ~task[p].latest
  BY DEF Passes, SchedulingInv, OneLatest
<1>3. Types'
  BY <1>1 DEF SchedulingInv, Types
<1>4. Moves(p)
  BY <1>1, <1>2 DEF Moves, InMail
<1>5. Recovering'
  BY <1>1, <1>2 DEF SchedulingInv, Recovering, Recovers, Refreshing
<1>6. \A q \in Tasks : Behind(q) => Behind(q)'
  BY <1>1, <1>2 DEF Behind, Quitting, Recovers
<1>7. Looks(p)' => FALSE
  BY <1>2 DEF Looks
<1>8. /\ \A q \in Tasks : Looks(q)' => Looks(q) /\ task'[q].snap = task[q].snap
      /\ \A q \in Tasks : Enqueues(q)' => Enqueues(q) /\ task'[q].topic = task[q].topic
  BY <1>1, <1>2 DEF Looks, Enqueues
<1>9. Follows'
  <2>1. CASE task[p].pc = "refresh"
    <3>1. \A q \in Tasks : ~Looks(q)'
      BY <1>1, <1>2, <1>8, <2>1 DEF SchedulingInv, OneLatest, Looks
    <3>2. \A q \in Tasks : Enqueues(q)' => Behind(q)'
      BY <1>2, <1>6, <1>8, <2>1 DEF SchedulingInv, Follows
    <3>3. \A q \in Tasks : task[q].pc = "asked" => task'[q].pc = "asked"
      BY <1>1, <2>1
    <3> QED BY <1>1, <3>1, <3>2, <3>3 DEF SchedulingInv, Follows, Quitting
  <2>2. CASE task[p].pc # "refresh"
    <3>1. Steady
      BY <1>1, <1>2, <1>6, <1>8, <2>2 DEF Steady, ToCome, Quitting
    <3> QED BY <3>1, SteadyFollows DEF SchedulingInv
  <2> QED BY <2>1, <2>2
<1>10. Renewed'
  <2>1. CASE task[p].pc = "refresh"
    <3>1. \A q \in Tasks : ~Looks(q)'
      BY <1>1, <1>2, <1>8, <2>1 DEF SchedulingInv, OneLatest, Looks
    <3>2. \A q \in Tasks : Enqueues(q)' => Behind(q)'
      BY <1>2, <1>6, <1>8, <2>1 DEF SchedulingInv, Follows
    <3>3. Past' \/ (recon' /\ ~faulted') => inputs' = on'
      BY <1>1, <1>2 DEF SchedulingInv, Renewed, Recovering, Recovers, Refreshing, Past
    <3> QED BY <3>1, <3>2, <3>3 DEF Renewed, Past
  <2>2. CASE task[p].pc # "refresh"
    <3>1. Steady
      BY <1>1, <1>2, <1>6, <1>8, <2>2 DEF Steady, ToCome, Quitting
    <3>2. Past' => Past
      BY <1>1, <1>2, <2>2 DEF Past, Recovers, Refreshing, SchedulingInv, Recovering
    <3> QED BY <1>1, <3>1, <3>2, SteadyRenewed DEF SchedulingInv
  <2> QED BY <2>1, <2>2
<1> QED BY <1>3, <1>4, <1>5, <1>9, <1>10, MovesKeeps DEF SchedulingInv

\* HandleTimerFire preserves the invariant.
LEMMA HandleStep ==
  ASSUME SchedulingInv, NEW p \in Tasks, HandleTimerFire(p)
  PROVE  SchedulingInv'
<1>1. Passes(p, {"fired"}, {"refresh"})
  BY MovesOn DEF HandleTimerFire, Passes, SchedulingInv, Types, clockVars, queueVars, coordVars, drainVars, shown
<1> QED BY <1>1, PassesInv

\* Wake preserves the invariant.
LEMMA WakeStep ==
  ASSUME SchedulingInv, NEW p \in Tasks, Wake(p)
  PROVE  SchedulingInv'
<1>1. /\ drain' = "barrier" <=> drain = "barrier"
      /\ UNCHANGED <<now, on, inputs, job, lifecycle, timer, mail, faulted, recon, quit>>
      /\ task[p].pc = "wake" /\ \E pc \in {"arm", "await"} : Move(p, pc)
  BY DEF Wake, RequestDrain, clockVars, queueVars, coordVars, drainVars, shown
<1>2. PICK pc \in {"arm", "await"} : Move(p, pc)
  BY <1>1
<1>3. Passes(p, {"wake"}, {"await", "arm"})
  BY <1>1, <1>2, MovesOn DEF Passes, SchedulingInv, Types
<1>4. Passes(p, {"loop", "wake", "await", "arm"}, {"wake", "await", "arm", "return"})
  BY <1>3 DEF Passes
<1> QED BY <1>4, PassesInv

\* EndLoop preserves the invariant.
LEMMA EndLoopStep ==
  ASSUME SchedulingInv, NEW p \in Tasks, EndLoop(p),
         UNCHANGED <<clockVars, inputs, queueVars, coordVars, drainVars, shown, quit>>
  PROVE  SchedulingInv'
<1>1. /\ UNCHANGED <<now, on, inputs, job, lifecycle, timer, mail, drain, faulted, recon, quit>>
      /\ task[p].pc = "loop" /\ \E pc \in {"return", "wake", "arm"} : Move(p, pc)
  BY DEF EndLoop, clockVars, queueVars, coordVars, drainVars, shown
<1>2. PICK pc \in {"return", "wake", "arm"} : Move(p, pc)
  BY <1>1
<1>3. Passes(p, {"loop"}, {"return", "wake", "arm"})
  BY <1>1, <1>2, MovesOn DEF Passes, SchedulingInv, Types
<1>4. Passes(p, {"loop", "wake", "await", "arm"}, {"wake", "await", "arm", "return"})
  BY <1>3 DEF Passes
<1> QED BY <1>4, PassesInv

\* The steps of a refresh that becomes the latest, that reads the inputs, that
\* asks the queue for its jobs, and that arms the timer.
BecomesLatest(p) ==
  /\ task[p].pc = "refresh" /\ lifecycle = "active"
  /\ task' = [Superseded(task) EXCEPT ![p].latest = TRUE, ![p].pc = "inputs"]
  /\ UNCHANGED <<now, on, inputs, job, lifecycle, timer, mail, drain, faulted, recon, quit>>

\* A refresh that becomes the latest preserves the invariant.
LEMMA BeginRefreshStep ==
  ASSUME SchedulingInv, NEW p \in Tasks, BecomesLatest(p)
  PROVE  SchedulingInv'
<1>1. /\ TaskTypes'
      /\ task'[p].pc = "inputs" /\ task'[p].by = task[p].by /\ task'[p].latest
      /\ \A q \in Tasks : q # p => Keeps(q) /\ ~task'[q].latest
  BY DEF BecomesLatest, SchedulingInv, Types, TaskTypes, IsTask, Superseded, Keeps
<1>2. /\ task[p].pc = "refresh" /\ lifecycle = "active"
      /\ UNCHANGED <<now, on, inputs, job, lifecycle, timer, mail, drain, faulted, recon, quit>>
  BY DEF BecomesLatest
<1>3. Types'
  BY <1>1, <1>2 DEF SchedulingInv, Types
<1>4. Mailbox' /\ Stopping'
  BY <1>1, <1>2 DEF SchedulingInv, Mailbox, Stopping, Enqueues, Keeps
<1>5. OneLatest'
  BY <1>1, <1>2 DEF SchedulingInv, OneLatest, Enqueues, Keeps
<1>6. Work'
  <2>1. \A q \in Tasks : task'[q].pc \in {"loop", "enqueue"} => Keeps(q)
    BY <1>1
  <2> QED BY <1>2, <2>1, WorkFrame DEF SchedulingInv
<1>7. Recovering'
  BY <1>1, <1>2 DEF SchedulingInv, Recovering, Recovers, Refreshing, Keeps
<1>8. \A q \in Tasks : Enqueues(q)' => Behind(q)'
  BY <1>1 DEF Behind, Enqueues
<1>9. \A q \in Tasks : ~Looks(q)'
  BY <1>1 DEF Looks
<1>10. Follows'
  <2>1. \A q \in Tasks : task[q].pc = "asked" => task'[q].pc = "asked"
    BY <1>1, <1>2 DEF Keeps
  <2> QED BY <1>2, <1>8, <1>9, <2>1 DEF SchedulingInv, Follows, Quitting
<1>11. Renewed'
  <2>1. Past' \/ (recon' /\ ~faulted') => inputs' = on'
    BY <1>1, <1>2 DEF SchedulingInv, Renewed, Recovering, Recovers, Refreshing, Past, Keeps
  <2> QED BY <1>8, <1>9, <2>1 DEF Renewed, Past
<1> QED BY <1>3, <1>4, <1>5, <1>6, <1>7, <1>10, <1>11 DEF SchedulingInv

ReadsInputs(p) ==
  /\ task[p].pc = "inputs"
  /\ task' = [task EXCEPT ![p].snap = inputs, ![p].pc = "evaluate"]
  /\ UNCHANGED <<now, on, inputs, job, lifecycle, timer, mail, drain, faulted, recon, quit>>

\* A refresh that copies the inputs preserves the invariant.
LEMMA ReadInputsStep ==
  ASSUME SchedulingInv, NEW p \in Tasks, ReadsInputs(p)
  PROVE  SchedulingInv'
<1>1. /\ TaskTypes' /\ task[p].pc = "inputs"
      /\ task'[p].pc = "evaluate" /\ task'[p].by = task[p].by /\ task'[p].latest = task[p].latest
      /\ task'[p].snap = inputs
      /\ \A q \in Tasks : q # p => task'[q] = task[q]
  BY DEF ReadsInputs, SchedulingInv, Types, TaskTypes, IsTask
<1>2. UNCHANGED <<now, on, inputs, job, lifecycle, timer, mail, drain, faulted, recon, quit>>
  BY DEF ReadsInputs
<1>3. Types'
  BY <1>1, <1>2 DEF SchedulingInv, Types
<1>4. Moves(p)
  BY <1>1, <1>2 DEF Moves, InMail
<1>5. Recovering'
  BY <1>1, <1>2 DEF SchedulingInv, Recovering, Recovers, Refreshing
<1>6. \A q \in Tasks : Behind(q) => Behind(q)'
  BY <1>1, <1>2 DEF Behind, Quitting, Recovers
<1>7. \A q \in Tasks : Looks(q)' /\ q # p => Looks(q) /\ task'[q].snap = task[q].snap
  BY <1>1 DEF Looks
<1>8. \A q \in Tasks : Enqueues(q)' => Enqueues(q) /\ task'[q].topic = task[q].topic
  BY <1>1 DEF Enqueues
<1>9. /\ ToCome => ToCome'
      /\ \A q \in Tasks : task[q].pc = "asked" => task'[q].pc = "asked" /\ ToCome'
  BY <1>1 DEF ToCome
<1>10. Follows'
  <2>1. inputs = on \/ Quitting \/ faulted \/ \E q \in Tasks : task[q].pc = "asked"
    BY DEF SchedulingInv, Follows
  <2>2. inputs' = on' \/ Quitting' \/ faulted' \/ \E q \in Tasks : task'[q].pc = "asked"
    BY <1>2, <1>9, <2>1 DEF Quitting
  <2>3. \A q \in Tasks : Looks(q)' => task'[q].snap \subseteq on' \/ Quitting' \/ faulted' \/ ToCome'
    BY <1>1, <1>2, <1>7, <1>9, <2>1 DEF SchedulingInv, Follows, Quitting
  <2>4. \A q \in Tasks : Enqueues(q)' => task'[q].topic \subseteq on' \/ Behind(q)' \/ faulted' \/ ToCome'
    BY <1>2, <1>6, <1>8, <1>9 DEF SchedulingInv, Follows
  <2> QED BY <1>2, <1>6, <1>8, <2>2, <2>3, <2>4 DEF SchedulingInv, Follows
<1>11. Renewed'
  <2>1. Past' => Past
    BY <1>1 DEF Past, Recovers, Refreshing
  <2>2. SUFFICES ASSUME Past \/ (recon /\ ~faulted)
                 PROVE  /\ inputs' = on'
                        /\ \A q \in Tasks : Looks(q)' => task'[q].snap \subseteq on' \/ Quitting'
                        /\ \A q \in Tasks : Enqueues(q)' => task'[q].topic \subseteq on' \/ Behind(q)'
    BY <1>2, <2>1 DEF Renewed, Past
  <2>3. /\ inputs = on
        /\ \A q \in Tasks : Looks(q) => task[q].snap \subseteq on \/ Quitting
        /\ \A q \in Tasks : Enqueues(q) => task[q].topic \subseteq on \/ Behind(q)
    BY <2>2 DEF SchedulingInv, Renewed, Past
  <2> QED BY <1>1, <1>2, <1>6, <1>7, <1>8, <2>3 DEF Quitting
<1> QED BY <1>3, <1>4, <1>5, <1>10, <1>11, MovesKeeps DEF SchedulingInv

\* A call is made: it waits behind all others.
LEMMA MailGrows ==
  ASSUME SchedulingInv, NEW e \in Tasks \cup {"quit", "drain"}, ~Waits(mail, e), mail' = Append(mail, e)
  PROVE  /\ mail' \in Seq(Tasks \cup {"quit", "drain"}) /\ Once(mail')
         /\ \A x \in Tasks \cup {"quit", "drain"} : Waits(mail', x) <=> Waits(mail, x) \/ x = e
         /\ \A x, y \in Tasks \cup {"quit", "drain"} : Before(mail, x, y) => Before(mail', x, y)
         /\ \A x \in Tasks \cup {"quit", "drain"} : Waits(mail, x) => Before(mail', x, e)
<1> DEFINE Names == Tasks \cup {"quit", "drain"}
<1>1. mail \in Seq(Names) /\ e \in Names /\ Once(mail)
  BY DEF SchedulingInv, Types, Mailbox
<1> HIDE DEF Names
<1>2. ASSUME NEW x \in Names, NEW y \in Names
      PROVE  /\ Waits(mail', x) <=> Waits(mail, x) \/ x = e
             /\ Before(mail, x, y) => Before(mail', x, y)
             /\ Waits(mail, x) => Before(mail', x, e)
  BY <1>1, AppendWaits, Zenon
<1>3. Once(mail') /\ mail' \in Seq(Names)
  BY <1>1, AppendWaits, Zenon
<1> QED BY <1>2, <1>3 DEF Names

\* Quit and the drain wait in the mail under names of their own.
LEMMA NoTaskName == "quit" \notin Tasks /\ "drain" \notin Tasks
  BY TasksAssumption

AsksJobs(p) ==
  /\ task[p].pc = "evaluate" /\ Current(p)
  /\ task' = [task EXCEPT ![p].at = now, ![p].pc = "jobs"]
  /\ mail' = Append(mail, p)
  /\ UNCHANGED <<now, on, inputs, job, lifecycle, timer, drain, faulted, recon, quit>>

\* A refresh that asks for the jobs preserves the invariant.
LEMMA AskJobsStep ==
  ASSUME SchedulingInv, NEW p \in Tasks, AsksJobs(p)
  PROVE  SchedulingInv'
<1>1. /\ TaskTypes' /\ task[p].pc = "evaluate"
      /\ task'[p].pc = "jobs" /\ task'[p].by = task[p].by /\ task'[p].latest = task[p].latest
      /\ task'[p].snap = task[p].snap /\ task[p].latest
      /\ \A q \in Tasks : q # p => task'[q] = task[q]
  BY DEF AsksJobs, SchedulingInv, Types, TaskTypes, IsTask, Current
<1>2. /\ UNCHANGED <<now, on, inputs, job, lifecycle, timer, drain, faulted, recon, quit>>
      /\ mail' = Append(mail, p)
  BY DEF AsksJobs
<1>3. ~Waits(mail, p)
  BY <1>1 DEF SchedulingInv, Mailbox
<1>4. /\ mail' \in Seq(Tasks \cup {"quit", "drain"}) /\ Once(mail')
      /\ \A x \in Tasks \cup {"quit", "drain"} : Waits(mail', x) <=> Waits(mail, x) \/ x = p
      /\ \A x, y \in Tasks \cup {"quit", "drain"} : Before(mail, x, y) => Before(mail', x, y)
      /\ \A x \in Tasks \cup {"quit", "drain"} : Waits(mail, x) => Before(mail', x, p)
  BY <1>2, <1>3, MailGrows
<1>5. Types'
  BY <1>1, <1>2, <1>4 DEF SchedulingInv, Types
<1>6. Mailbox'
  BY <1>1, <1>2, <1>4, NoTaskName DEF SchedulingInv, Mailbox
<1>7. Stopping'
  BY <1>1, <1>2, <1>4 DEF SchedulingInv, Stopping, Enqueues
<1>8. OneLatest'
  BY <1>1, <1>2, <1>4 DEF SchedulingInv, OneLatest, Enqueues, Mailbox
<1>9. Work'
  <2>1. \A q \in Tasks : task'[q].pc \in {"loop", "enqueue"} => Keeps(q)
    BY <1>1 DEF Keeps
  <2> QED BY <1>2, <2>1, WorkFrame DEF SchedulingInv
<1>10. Recovering'
  BY <1>1, <1>2 DEF SchedulingInv, Recovering, Recovers, Refreshing
<1>11. \A q \in Tasks : Behind(q) => Behind(q)'
  BY <1>1, <1>2, <1>4 DEF Behind, Quitting, Recovers
<1>12. Steady
  BY <1>1, <1>2, <1>11 DEF Steady, Looks, ToCome, Enqueues, Quitting
<1>13. Past' => Past
  BY <1>1 DEF Past, Recovers, Refreshing
<1> QED BY <1>2, <1>5, <1>6, <1>7, <1>8, <1>9, <1>10, <1>12, <1>13, SteadyFollows, SteadyRenewed DEF SchedulingInv

\* Refresh preserves the invariant.
LEMMA RefreshStep ==
  ASSUME SchedulingInv, NEW p \in Tasks, Refresh(p)
  PROVE  SchedulingInv'
<1>1. UNCHANGED <<now, on, inputs, job, lifecycle, drain, faulted, recon, quit>>
  BY DEF Refresh, clockVars, queueVars, drainVars, shown
<1>2. CASE task[p].pc = "refresh"
  <2>1. CASE lifecycle = "active"
    <3>1. BecomesLatest(p)
      BY <1>1, <1>2, <2>1 DEF Refresh, BecomesLatest
    <3> QED BY <3>1, BeginRefreshStep
  <2>2. CASE lifecycle # "active"
    <3>1. Move(p, "return") /\ UNCHANGED <<mail, timer>>
      BY <1>2, <2>2 DEF Refresh
    <3>2. Passes(p, {"refresh", "evaluate"}, {"return"})
      BY <1>1, <1>2, <3>1, MovesOn DEF Passes, SchedulingInv, Types
    <3> QED BY <2>2, <3>2, PassesInv
  <2> QED BY <2>1, <2>2
<1>3. CASE task[p].pc = "inputs"
  <2>1. ReadsInputs(p)
    BY <1>1, <1>3 DEF Refresh, ReadsInputs
  <2> QED BY <2>1, ReadInputsStep
<1>4. CASE task[p].pc = "evaluate"
  <2>1. CASE Current(p)
    <3>1. AsksJobs(p)
      BY <1>1, <1>4, <2>1 DEF Refresh, AsksJobs
    <3> QED BY <3>1, AskJobsStep
  <2>2. CASE ~Current(p)
    <3>1. Move(p, "return") /\ UNCHANGED <<mail, timer>>
      BY <1>4, <2>2 DEF Refresh
    <3>2. Passes(p, {"refresh", "evaluate"}, {"return"}) /\ Passes(p, {"evaluate"}, {"return"})
      BY <1>1, <1>4, <3>1, MovesOn DEF Passes, SchedulingInv, Types
    <3> QED BY <2>2, <3>2, PassesInv DEF Current
  <2> QED BY <2>1, <2>2
<1>5. CASE task[p].pc = "arm"
  <2>1. /\ Move(p, "return") /\ UNCHANGED mail
        /\ timer' = IF Current(p) THEN NextFire(task[p].snap, task[p].at) ELSE timer
    BY <1>5 DEF Refresh
  <2>2. quit = "stopped" => timer' = timer
    BY <2>1 DEF SchedulingInv, Stopping, Current
  <2>3. Passes(p, {"loop", "wake", "await", "arm"}, {"wake", "await", "arm", "return"})
    BY <1>1, <1>5, <2>1, <2>2, MovesOn DEF Passes, SchedulingInv, Types
  <2> QED BY <2>3, PassesInv
<1> QED BY <1>2, <1>3, <1>4, <1>5 DEF Refresh

\* Only the latest refresh sends an enqueue: no other is in the mail then.
LEMMA EnqueueStep ==
  ASSUME SchedulingInv, NEW p \in Tasks, Enqueue(p),
         UNCHANGED <<now, on, inputs, job, lifecycle, timer, drain, faulted, recon, quit>>
  PROVE  SchedulingInv'
<1>1. PICK t \in task[p].todo :
        task' = [task EXCEPT ![p].topic = {t}, ![p].todo = @ \ {t}, ![p].pc = "enqueue"]
  BY DEF Enqueue
<1>2. /\ TaskTypes' /\ task[p].pc = "loop" /\ task[p].latest /\ lifecycle = "active"
      /\ task'[p].pc = "enqueue" /\ task'[p].by = task[p].by /\ task'[p].latest = task[p].latest
      /\ task'[p].snap = task[p].snap /\ task'[p].at = task[p].at
      /\ task'[p].topic = {t} /\ task'[p].todo = task[p].todo \ {t}
      /\ \A q \in Tasks : q # p => task'[q] = task[q]
      /\ mail' = Append(mail, p)
  BY <1>1 DEF Enqueue, SchedulingInv, Types, TaskTypes, IsTask, Current
<1>3. ~Waits(mail, p)
  BY <1>2 DEF SchedulingInv, Mailbox
<1>4. /\ mail' \in Seq(Tasks \cup {"quit", "drain"}) /\ Once(mail')
      /\ \A x \in Tasks \cup {"quit", "drain"} : Waits(mail', x) <=> Waits(mail, x) \/ x = p
      /\ \A x, y \in Tasks \cup {"quit", "drain"} : Before(mail, x, y) => Before(mail', x, y)
  BY <1>2, <1>3, MailGrows
<1>5. Types'
  BY <1>2, <1>4 DEF SchedulingInv, Types
<1>6. Mailbox'
  BY <1>2, <1>4, NoTaskName DEF SchedulingInv, Mailbox
<1>7. quit \notin {"barrier", "cancel", "stopped"}
  BY <1>2 DEF SchedulingInv, Stopping
<1>8. Stopping'
  BY <1>2, <1>7 DEF SchedulingInv, Stopping, Enqueues
<1>9. \A q \in Tasks : ~Enqueues(q)
  BY <1>2 DEF SchedulingInv, OneLatest, Enqueues
<1>10. OneLatest'
  BY <1>2, <1>9 DEF SchedulingInv, OneLatest, Enqueues
<1>11. /\ NotScheduled(p, t) /\ t \in task[p].snap
       /\ \A u \in task[p].todo : NotScheduled(p, u) /\ u \in task[p].snap
  BY <1>2 DEF SchedulingInv, Work
<1>12. Work'
  <2>1. t \in Topics
    BY <1>2, <1>11 DEF SchedulingInv, Types, TaskTypes, IsTask
  <2>2. \A u : NotScheduled(p, u)' <=> NotScheduled(p, u)
    BY <1>2 DEF NotScheduled
  <2>3. \A q \in Tasks : q # p => (task'[q].latest => FALSE) /\ ~Enqueues(q)'
    BY <1>2, <1>9 DEF SchedulingInv, OneLatest, Enqueues
  <2>4. \A q \in Tasks : Enqueues(q)' => \E u \in Topics : task'[q].topic = {u} /\ NotScheduled(q, u)'
    BY <1>2, <1>11, <2>1, <2>2, <2>3
  <2>5. \A q \in Tasks :
          task'[q].latest /\ task'[q].pc \in {"loop", "enqueue"} =>
            \A u \in task'[q].todo : NotScheduled(q, u)' /\ (Enqueues(q)' => u \notin task'[q].topic)
    BY <1>2, <1>11, <2>2, <2>3
  <2>6. \A q \in Tasks :
          /\ task'[q].pc \in {"loop", "enqueue"} => task'[q].todo \subseteq task'[q].snap
          /\ Enqueues(q)' => task'[q].topic \subseteq task'[q].snap
    BY <1>2, <1>11, <2>3 DEF SchedulingInv, Work
  <2> QED BY <2>4, <2>5, <2>6 DEF Work
<1>13. Recovering'
  BY <1>2 DEF SchedulingInv, Recovering, Recovers, Refreshing
<1>14. Looks(p) /\ task'[p].topic \subseteq task[p].snap
  BY <1>2, <1>11 DEF Looks
<1>15. ToCome => ToCome'
  BY <1>2 DEF ToCome
<1>16. \A q \in Tasks : Looks(q)' => Looks(q) /\ task'[q].snap = task[q].snap
  BY <1>2 DEF Looks
<1>17. \A q \in Tasks : Enqueues(q)' => q = p
  BY <1>2, <1>9 DEF Enqueues
<1>18. Follows'
  <2>1. inputs' = on' \/ Quitting' \/ faulted' \/ \E q \in Tasks : task'[q].pc = "asked"
    BY <1>2 DEF SchedulingInv, Follows, Quitting
  <2>2. \A q \in Tasks : Looks(q)' => task'[q].snap \subseteq on' \/ Quitting' \/ faulted' \/ ToCome'
    BY <1>15, <1>16 DEF SchedulingInv, Follows, Quitting
  <2>3. task'[p].topic \subseteq on' \/ Behind(p)' \/ faulted' \/ ToCome'
    BY <1>14, <1>15 DEF SchedulingInv, Follows, Quitting, Behind
  <2> QED BY <1>2, <1>17, <2>1, <2>2, <2>3 DEF Follows
<1>19. Renewed'
  <2>1. Past' => Past
    BY <1>2 DEF Past, Recovers, Refreshing
  <2>2. SUFFICES ASSUME Past \/ (recon /\ ~faulted)
                 PROVE  /\ inputs' = on'
                        /\ \A q \in Tasks : Looks(q)' => task'[q].snap \subseteq on' \/ Quitting'
                        /\ \A q \in Tasks : Enqueues(q)' => task'[q].topic \subseteq on' \/ Behind(q)'
    BY <2>1 DEF Renewed, Past
  <2>3. /\ inputs = on
        /\ \A q \in Tasks : Looks(q) => task[q].snap \subseteq on \/ Quitting
    BY <2>2 DEF SchedulingInv, Renewed, Past
  <2>4. task'[p].topic \subseteq on' \/ Behind(p)'
    BY <1>14, <2>3 DEF Behind, Quitting
  <2> QED BY <1>16, <1>17, <2>3, <2>4 DEF Quitting
<1> QED BY <1>5, <1>6, <1>8, <1>10, <1>12, <1>13, <1>18, <1>19 DEF SchedulingInv

\* Loop preserves the invariant.
LEMMA LoopStep ==
  ASSUME SchedulingInv, NEW p \in Tasks, Loop(p)
  PROVE  SchedulingInv'
<1>1. /\ UNCHANGED <<clockVars, inputs, queueVars, coordVars, drainVars, shown, quit>>
      /\ UNCHANGED <<now, on, inputs, job, lifecycle, timer, drain, faulted, recon, quit>>
  BY DEF Loop, clockVars, queueVars, coordVars, drainVars, shown
<1>2. CASE Enqueue(p)
  BY <1>1, <1>2, EnqueueStep
<1>3. CASE EndLoop(p)
  BY <1>1, <1>3, EndLoopStep
<1> QED BY <1>2, <1>3 DEF Loop

\* timerGeneration += 1 takes from the refreshes only that one is the latest.
LEMMA SupersededKeeps ==
  ASSUME TaskTypes
  PROVE  /\ DOMAIN Superseded(task) = Tasks
         /\ \A q \in Tasks :
              LET r == Superseded(task)[q]
              IN  /\ IsTask(r) /\ ~r.latest
                  /\ r.pc = task[q].pc /\ r.by = task[q].by /\ r.snap = task[q].snap
                  /\ r.at = task[q].at /\ r.todo = task[q].todo /\ r.topic = task[q].topic
  BY DEF TaskTypes, IsTask, Superseded

\* Someone closes the scheduling: no refresh is the latest any more, and what
\* it still has in the mail comes before the barrier.
Closes(e) ==
  /\ mail' = Append(mail, e) /\ ~Waits(mail, e)
  /\ TaskTypes'
  /\ \A q \in Tasks : ~task'[q].latest
  /\ \A q \in Tasks : q # e => Keeps(q)
  /\ UNCHANGED <<now, on, inputs, timer>>
  /\ job' \in [Topics \X Days -> {"none", "open", "ended"}]
  /\ \A td \in Topics \X Days : job[td] = "none" => job'[td] = "none"
  /\ faulted => faulted'
  /\ recon => recon'
  /\ faulted' \in BOOLEAN /\ recon' \in BOOLEAN
  /\ lifecycle' # "active" /\ lifecycle # "stopped"

\* Closing keeps the rest, and puts the barrier behind every enqueue.
LEMMA ClosesKeeps ==
  ASSUME SchedulingInv, NEW e \in Tasks \cup {"quit", "drain"}, Closes(e),
         e \in Tasks => /\ task[e].pc = "block" /\ task'[e].pc = "barrier" /\ task'[e].by = task[e].by
  PROVE  /\ Types' /\ OneLatest' /\ Work'
         /\ Once(mail')
         /\ \A x \in Tasks \cup {"quit", "drain"} : Waits(mail', x) <=> Waits(mail, x) \/ x = e
         /\ \A q \in Tasks : Enqueues(q)' => Enqueues(q) /\ q # e /\ Before(mail', q, e)
         /\ \A x, y \in Tasks \cup {"quit", "drain"} : Before(mail, x, y) => Before(mail', x, y)
<1>1. /\ mail' = Append(mail, e) /\ ~Waits(mail, e)
      /\ TaskTypes'
      /\ \A q \in Tasks : ~task'[q].latest
      /\ \A q \in Tasks : q # e => Keeps(q)
      /\ UNCHANGED <<now, on, inputs>>
      /\ job' \in [Topics \X Days -> {"none", "open", "ended"}]
      /\ \A td \in Topics \X Days : job[td] = "none" => job'[td] = "none"
      /\ faulted' \in BOOLEAN /\ recon' \in BOOLEAN
  BY DEF Closes
<1>2. /\ mail' \in Seq(Tasks \cup {"quit", "drain"}) /\ Once(mail')
      /\ \A x \in Tasks \cup {"quit", "drain"} : Waits(mail', x) <=> Waits(mail, x) \/ x = e
      /\ \A x, y \in Tasks \cup {"quit", "drain"} : Before(mail, x, y) => Before(mail', x, y)
      /\ \A x \in Tasks \cup {"quit", "drain"} : Waits(mail, x) => Before(mail', x, e)
  BY <1>1, MailGrows
<1>3. Types'
  BY <1>1, <1>2 DEF SchedulingInv, Types
<1>4. \A q \in Tasks : Enqueues(q)' => Enqueues(q) /\ q # e
  BY <1>1 DEF Enqueues, Keeps
<1>5. \A q \in Tasks : Enqueues(q)' => Before(mail', q, e)
  BY <1>2, <1>4 DEF SchedulingInv, Mailbox, Enqueues
<1>6. OneLatest'
  BY <1>1, <1>4 DEF SchedulingInv, OneLatest
<1>7. \A q \in Tasks : task'[q].pc \in {"loop", "enqueue"} => Keeps(q)
  BY <1>1
<1>8. Work'
  BY <1>1, <1>7, WorkFrame DEF SchedulingInv
<1> QED BY <1>2, <1>3, <1>4, <1>5, <1>6, <1>8

\* With a reason of its own in the mail, nothing old is hidden.
LEMMA ClosesFollows ==
  ASSUME SchedulingInv, NEW e \in Tasks \cup {"quit", "drain"}, Closes(e),
         e \in Tasks => /\ task[e].pc = "block" /\ task'[e].pc = "barrier" /\ task'[e].by = task[e].by,
         Quitting => Quitting',
         \A q \in Tasks : Enqueues(q)' => Behind(q)',
         faulted' \/ (recon' => recon)
  PROVE  Follows' /\ Renewed'
<1>1. /\ \A q \in Tasks : ~Looks(q)'
      /\ on' = on /\ inputs' = inputs
      /\ \A q \in Tasks : q # e => Keeps(q)
      /\ faulted => faulted'
  BY DEF Closes, Looks
<1>2. \A q \in Tasks : task[q].pc = "asked" => task'[q].pc = "asked"
  BY <1>1 DEF Keeps
<1>3. Follows'
  BY <1>1, <1>2 DEF SchedulingInv, Follows
<1>4. Past' => Past
  BY <1>1 DEF Past, Recovers, Refreshing, Keeps
<1>5. Past' \/ (recon' /\ ~faulted') => Past \/ (recon /\ ~faulted)
  BY <1>1, <1>4
<1>6. Renewed'
  BY <1>1, <1>5 DEF SchedulingInv, Renewed, Past
<1> QED BY <1>3, <1>6

\* Block preserves the invariant.
LEMMA BlockStep ==
  ASSUME SchedulingInv, NEW p \in Tasks, Block(p)
  PROVE  SchedulingInv'
<1>1. /\ task[p].pc = "block"
      /\ UNCHANGED <<now, on, inputs, job, timer, drain, faulted, recon, quit>>
  BY DEF Block, clockVars, queueVars, drainVars, shown
<1>2. CASE lifecycle = "stopped"
  <2>1. task' = Blocked(p) /\ UNCHANGED <<lifecycle, mail>>
    BY <1>2 DEF Block
  <2>2. /\ TaskTypes' /\ \A q \in Tasks : q # p => task'[q] = task[q]
        /\ task'[p].pc \in {"idle", "report"} /\ (task'[p].latest => task[p].latest)
        /\ task'[p].by \in {"start", task[p].by} /\ (task'[p].pc = "idle" => task'[p].by = "start")
    <3>1. CASE task[p].told
      <4>1. task' = [task EXCEPT ![p] = Idle]
        BY <2>1, <3>1 DEF Blocked
      <4> QED BY <4>1, Becomes, Fresh DEF SchedulingInv, Types
    <3>2. CASE ~task[p].told
      <4>1. Move(p, "report")
        BY <2>1, <3>2 DEF Blocked, Move, SchedulingInv, Types, TaskTypes
      <4> QED BY <4>1, MovesOn DEF SchedulingInv, Types
    <3> QED BY <3>1, <3>2
  <2>3. Types' /\ Moves(p)
    BY <1>1, <2>1, <2>2 DEF SchedulingInv, Types, Moves, InMail
  <2>4. Recovering'
    BY <1>1, <2>2 DEF SchedulingInv, Recovering, Recovers, Refreshing
  <2>5. Quitting' /\ \A q \in Tasks : Behind(q)'
    BY <1>1, <1>2 DEF SchedulingInv, Stopping, Quitting, Behind
  <2>6. Past' => Past
    BY <1>1, <2>2 DEF Past, Recovers, Refreshing
  <2>7. Follows' /\ Renewed'
    BY <1>1, <2>5, <2>6 DEF SchedulingInv, Follows, Renewed, Past
  <2> QED BY <2>3, <2>4, <2>7, MovesKeeps DEF SchedulingInv
<1>3. CASE lifecycle # "stopped"
  <2>1. /\ task' = [Superseded(task) EXCEPT ![p].pc = "barrier"]
        /\ lifecycle' = "blocked" /\ mail' = Append(mail, p)
    BY <1>3 DEF Block, Close
  <2>2. /\ TaskTypes' /\ \A q \in Tasks : ~task'[q].latest
        /\ \A q \in Tasks : q # p => Keeps(q)
        /\ task'[p].pc = "barrier" /\ task'[p].by = task[p].by
    <3> DEFINE s == Superseded(task)
    <3>1. /\ DOMAIN s = Tasks /\ \A q \in Tasks : IsTask(s[q]) /\ ~s[q].latest
          /\ \A q \in Tasks :
               /\ s[q].pc = task[q].pc /\ s[q].by = task[q].by /\ s[q].snap = task[q].snap
               /\ s[q].at = task[q].at /\ s[q].todo = task[q].todo /\ s[q].topic = task[q].topic
      BY SupersededKeeps DEF SchedulingInv, Types
    <3>2. task' = [s EXCEPT ![p].pc = "barrier"]
      BY <2>1
    <3> HIDE DEF s
    <3> QED BY <3>1, <3>2 DEF TaskTypes, IsTask, Keeps
  <2>3. ~Waits(mail, p)
    BY <1>1 DEF SchedulingInv, Mailbox
  <2>4. Closes(p)
    BY <1>1, <1>3, <2>1, <2>2, <2>3 DEF Closes, SchedulingInv, Types
  <2>5. /\ Types' /\ OneLatest' /\ Work' /\ Once(mail')
        /\ \A x \in Tasks \cup {"quit", "drain"} : Waits(mail', x) <=> Waits(mail, x) \/ x = p
        /\ \A q \in Tasks : Enqueues(q)' => Enqueues(q) /\ q # p /\ Before(mail', q, p)
    BY <1>1, <2>2, <2>4, ClosesKeeps
  <2>6. Mailbox'
    BY <1>1, <2>2, <2>5, NoTaskName DEF SchedulingInv, Mailbox, Keeps
  <2>7. Stopping'
    BY <1>1, <1>3, <2>1, <2>5 DEF SchedulingInv, Stopping
  <2>8. Recovering'
    BY <1>1, <2>2 DEF SchedulingInv, Recovering, Recovers, Refreshing, Keeps
  <2>9. \A q \in Tasks : Enqueues(q)' => Behind(q)'
    BY <2>2, <2>5 DEF Behind
  <2>10. Follows' /\ Renewed'
    BY <1>1, <2>2, <2>4, <2>9, ClosesFollows DEF Quitting
  <2> QED BY <2>5, <2>6, <2>7, <2>8, <2>10 DEF SchedulingInv
<1> QED BY <1>2, <1>3

\* CancelTimer preserves the invariant.
LEMMA CancelStep ==
  ASSUME SchedulingInv, NEW p \in Tasks, CancelTimer(p)
  PROVE  SchedulingInv'
<1>1. /\ task[p].pc = "cancel" /\ task' = Blocked(p) /\ timer' = {}
      /\ UNCHANGED <<now, on, inputs, job, lifecycle, mail, drain, faulted, recon, quit>>
  BY DEF CancelTimer, clockVars, queueVars, drainVars, shown
<1>2. /\ TaskTypes' /\ \A q \in Tasks : q # p => task'[q] = task[q]
      /\ task'[p].pc \in {"idle", "report"} /\ (task'[p].latest => task[p].latest)
      /\ task'[p].by \in {"start", task[p].by} /\ (task'[p].pc = "idle" => task'[p].by = "start")
  <2>1. CASE task[p].told
    <3>1. task' = [task EXCEPT ![p] = Idle]
      BY <1>1, <2>1 DEF Blocked
    <3> QED BY <3>1, Becomes, Fresh DEF SchedulingInv, Types
  <2>2. CASE ~task[p].told
    <3>1. Move(p, "report")
      BY <1>1, <2>2 DEF Blocked, Move, SchedulingInv, Types, TaskTypes
    <3> QED BY <3>1, MovesOn DEF SchedulingInv, Types
  <2> QED BY <2>1, <2>2
<1>3. Types' /\ Moves(p)
  BY <1>1, <1>2 DEF SchedulingInv, Types, Moves, InMail
<1>4. Recovering'
  BY <1>1, <1>2 DEF SchedulingInv, Recovering, Recovers, Refreshing
<1>5. \A q \in Tasks : Behind(q) => Behind(q)'
  BY <1>1, <1>2 DEF Behind, Quitting, Recovers
<1>6. Steady
  BY <1>1, <1>2, <1>5 DEF Steady, Looks, ToCome, Enqueues, Quitting
<1>7. Past' => Past
  BY <1>1, <1>2 DEF Past, Recovers, Refreshing
<1> QED BY <1>1, <1>3, <1>4, <1>6, <1>7, MovesKeeps, SteadyFollows, SteadyRenewed DEF SchedulingInv

\* ReportFailure preserves the invariant.
LEMMA ReportStep ==
  ASSUME SchedulingInv, NEW p \in Tasks, ReportFailure(p)
  PROVE  SchedulingInv'
<1>1. /\ task[p].pc = "report" /\ faulted' = TRUE
      /\ UNCHANGED <<now, on, inputs, job, lifecycle, timer, mail, drain, recon, quit>>
  BY DEF ReportFailure, Report, clockVars, queueVars, coordVars, drainVars
<1>2. /\ TaskTypes' /\ \A q \in Tasks : q # p => task'[q] = task[q]
      /\ task'[p].pc \in {"idle", "block"} /\ (task'[p].latest => task[p].latest)
      /\ task'[p].by \in {"start", task[p].by} /\ (task'[p].pc = "idle" => task'[p].by = "start")
  <2>1. CASE task[p].by = "timer"
    <3>1. task' = [task EXCEPT ![p] = Idle]
      BY <2>1 DEF ReportFailure, Report
    <3> QED BY <3>1, Becomes, Fresh DEF SchedulingInv, Types
  <2>2. CASE task[p].by # "timer"
    <3>1. task' = [task EXCEPT ![p] = [@ EXCEPT !.pc = "block", !.told = TRUE]]
      BY <2>2 DEF ReportFailure, Report
    <3> QED BY <3>1 DEF SchedulingInv, Types, TaskTypes, IsTask
  <2> QED BY <2>1, <2>2
<1>3. Types' /\ Moves(p)
  BY <1>1, <1>2 DEF SchedulingInv, Types, Moves, InMail
<1>4. Recovering'
  BY <1>1, <1>2 DEF SchedulingInv, Recovering, Recovers, Refreshing
<1>5. \A q \in Tasks : Behind(q) => Behind(q)'
  BY <1>1, <1>2 DEF Behind, Quitting, Recovers
<1>6. Steady
  BY <1>1, <1>2, <1>5 DEF Steady, Looks, ToCome, Enqueues, Quitting
<1>7. Past' => Past
  BY <1>1, <1>2 DEF Past, Recovers, Refreshing
<1> QED BY <1>1, <1>3, <1>4, <1>6, <1>7, MovesKeeps, SteadyFollows, SteadyRenewed DEF SchedulingInv

\* A recovery takes the fault back: Renewed says that nothing is old then.
LEMMA ReturnStep ==
  ASSUME SchedulingInv, NEW p \in Tasks, Return(p)
  PROVE  SchedulingInv'
<1>1. /\ task[p].pc = "return"
      /\ UNCHANGED <<now, on, inputs, job, lifecycle, timer, mail, recon, quit>>
      /\ task' = [task EXCEPT ![p] = Idle]
      /\ drain' = "barrier" <=> drain = "barrier"
      /\ Recovers(p) /\ ~Quitting => faulted' = FALSE
      /\ ~(Recovers(p) /\ ~Quitting) => faulted' = faulted
      /\ faulted' \in BOOLEAN
  BY DEF Return, RequestDrain, Recovers, SchedulingInv, Types, clockVars, queueVars, coordVars, drainVars
<1>2. /\ TaskTypes' /\ \A q \in Tasks : q # p => task'[q] = task[q]
      /\ task'[p].pc = "idle" /\ ~task'[p].latest /\ task'[p].by = "start"
  BY <1>1, Becomes, Fresh DEF SchedulingInv, Types
<1>3. Types' /\ Moves(p)
  BY <1>1, <1>2 DEF SchedulingInv, Types, Moves, InMail
<1>4. \A q \in Tasks : Behind(q) => Behind(q)'
  BY <1>1, <1>2 DEF Behind, Quitting, Recovers
<1>5. Recovering'
  BY <1>1, <1>2 DEF SchedulingInv, Recovering, Recovers, Refreshing
<1>6. /\ \A q \in Tasks : Looks(q)' => Looks(q) /\ task'[q].snap = task[q].snap
      /\ \A q \in Tasks : Enqueues(q)' => Enqueues(q) /\ task'[q].topic = task[q].topic
      /\ Past' => Past
      /\ ToCome => ToCome'
      /\ \A q \in Tasks : task[q].pc = "asked" => task'[q].pc = "asked"
  BY <1>1, <1>2 DEF Looks, Enqueues, Past, ToCome, Recovers
<1>7. CASE Recovers(p) /\ ~Quitting
  <2>1. Past
    BY <1>1, <1>7 DEF Past, Refreshing
  <2>2. /\ inputs' = on'
        /\ \A q \in Tasks : Looks(q)' => task'[q].snap \subseteq on' \/ Quitting'
        /\ \A q \in Tasks : Enqueues(q)' => task'[q].topic \subseteq on' \/ Behind(q)'
    BY <1>1, <1>4, <1>6, <2>1 DEF SchedulingInv, Renewed, Past, Quitting
  <2>3. \A q \in Tasks : Enqueues(q)' /\ lifecycle' # "active" => Behind(q)'
    BY <1>1, <1>4, <1>6 DEF SchedulingInv, Follows
  <2>4. Follows' /\ Renewed'
    BY <2>2, <2>3 DEF Follows, Renewed
  <2> QED BY <1>3, <1>5, <2>4, MovesKeeps DEF SchedulingInv
<1>8. CASE ~(Recovers(p) /\ ~Quitting)
  <2>1. Steady
    BY <1>1, <1>4, <1>6, <1>8 DEF Steady, Quitting
  <2> QED BY <1>1, <1>3, <1>5, <1>6, <1>8, <2>1, MovesKeeps, SteadyFollows, SteadyRenewed DEF SchedulingInv
<1> QED BY <1>7, <1>8

\* A call is served: who came behind its caller still does.
LEMMA MailShrinks ==
  ASSUME SchedulingInv, mail # <<>>, mail' = Tail(mail)
  PROVE  /\ Head(mail) \in Tasks \cup {"quit", "drain"} /\ Waits(mail, Head(mail))
         /\ mail' \in Seq(Tasks \cup {"quit", "drain"}) /\ Once(mail')
         /\ \A x \in Tasks \cup {"quit", "drain"} : Waits(mail', x) <=> Waits(mail, x) /\ x # Head(mail)
         /\ \A x, y \in Tasks \cup {"quit", "drain"} :
              Before(mail, x, y) => y # Head(mail) /\ (x = Head(mail) \/ Before(mail', x, y))
<1> DEFINE Names == Tasks \cup {"quit", "drain"}
<1>1. mail \in Seq(Names) /\ Once(mail) /\ mail # <<>>
  BY DEF SchedulingInv, Types, Mailbox
<1> HIDE DEF Names
<1>2. ASSUME NEW x \in Names, NEW y \in Names
      PROVE  /\ Waits(Tail(mail), x) <=> Waits(mail, x) /\ x # Head(mail)
             /\ Before(mail, x, y) /\ x # Head(mail) => Before(Tail(mail), x, y)
             /\ ~Before(mail, x, Head(mail))
  BY <1>1, TailWaits, Zenon
<1>3. /\ Waits(mail, Head(mail)) /\ Head(mail) \in Names
      /\ Once(Tail(mail)) /\ Tail(mail) \in Seq(Names)
  BY <1>1, TailWaits, Zenon
<1> QED BY <1>2, <1>3 DEF Names

\* The barrier of Quit, or of the drain, is served.
LEMMA ServeStoreStep ==
  ASSUME SchedulingInv, mail # <<>>, mail' = Tail(mail),
         UNCHANGED <<now, on, inputs, job, task, lifecycle, timer, faulted, recon>>,
         \/ Head(mail) = "quit" /\ quit' = "cancel" /\ drain' = drain
         \/ Head(mail) = "drain" /\ drain' = "cancel" /\ quit' = quit
  PROVE  SchedulingInv'
<1>1. /\ mail' \in Seq(Tasks \cup {"quit", "drain"}) /\ Once(mail') /\ Waits(mail, Head(mail))
      /\ \A x \in Tasks \cup {"quit", "drain"} : Waits(mail', x) <=> Waits(mail, x) /\ x # Head(mail)
      /\ \A x, y \in Tasks \cup {"quit", "drain"} :
           Before(mail, x, y) => y # Head(mail) /\ (x = Head(mail) \/ Before(mail', x, y))
      /\ Head(mail) \notin Tasks
  BY MailShrinks, NoTaskName
<1>2. /\ Head(mail) = "quit" => quit = "barrier"
      /\ Head(mail) = "drain" => drain = "barrier"
  BY <1>1 DEF SchedulingInv, Mailbox
<1>3. Types'
  BY <1>1 DEF SchedulingInv, Types, TaskTypes
<1>4. Mailbox'
  BY <1>1, <1>2 DEF SchedulingInv, Mailbox
<1>5. Stopping'
  BY <1>1, <1>2 DEF SchedulingInv, Stopping, Enqueues
<1>6. OneLatest'
  BY <1>1 DEF SchedulingInv, OneLatest, Enqueues
<1>7. Work'
  BY WorkFrame DEF SchedulingInv, Keeps
<1>8. Recovering'
  BY <1>2 DEF SchedulingInv, Recovering, Recovers
<1>9. \A q \in Tasks : Enqueues(q) /\ Behind(q) => Behind(q)'
  <2>1. Quitting => Quitting'
    BY DEF Quitting
  <2>2. ASSUME NEW q \in Tasks, drain = "barrier", Before(mail, q, "drain")
        PROVE  drain' = "barrier" /\ Before(mail', q, "drain")
    BY <1>1, <2>2
  <2>3. ASSUME NEW q \in Tasks, NEW s \in Tasks, Before(mail, q, s)
        PROVE  Before(mail', q, s)
    BY <1>1, <2>3
  <2> QED BY <2>1, <2>2, <2>3 DEF Behind, Recovers
<1>10. Steady
  BY <1>9 DEF Steady, Looks, ToCome, Enqueues, Quitting
<1>11. Past' => Past
  BY DEF Past, Recovers
<1> QED BY <1>3, <1>4, <1>5, <1>6, <1>7, <1>8, <1>10, <1>11, SteadyFollows, SteadyRenewed DEF SchedulingInv

\* A refresh is served.
Served(p) ==
  /\ mail # <<>> /\ mail' = Tail(mail) /\ Head(mail) = p
  /\ TaskTypes'
  /\ \A q \in Tasks : q # p => task'[q] = task[q]
  /\ task'[p].by = task[p].by /\ task'[p].latest = task[p].latest
  /\ task'[p].snap = task[p].snap /\ task'[p].at = task[p].at
  /\ UNCHANGED <<now, on, inputs, lifecycle, timer, faulted, recon, quit, drain>>
  /\ job' \in [Topics \X Days -> {"none", "open", "ended"}]

\* What holds whatever the queue did for it, because it was the first.
LEMMA ServedKeeps ==
  ASSUME SchedulingInv, NEW p \in Tasks, Served(p),
         \/ task[p].pc = "jobs" /\ task'[p].pc = "loop"
         \/ task[p].pc = "enqueue" /\ task'[p].pc \in {"loop", "block"}
         \/ task[p].pc = "barrier" /\ task'[p].pc = "cancel"
  PROVE  /\ Types' /\ Mailbox' /\ Stopping' /\ OneLatest' /\ Recovering' /\ Follows' /\ Renewed'
         /\ task[p].pc \in {"jobs", "barrier"} /\ task[p].latest => \A q \in Tasks : ~Enqueues(q)
<1>1. /\ mail' \in Seq(Tasks \cup {"quit", "drain"}) /\ Once(mail')
      /\ \A x \in Tasks \cup {"quit", "drain"} : Waits(mail', x) <=> Waits(mail, x) /\ x # p
      /\ \A x, y \in Tasks \cup {"quit", "drain"} :
           Before(mail, x, y) => y # p /\ (x = p \/ Before(mail', x, y))
  BY MailShrinks DEF Served
<1>2. /\ TaskTypes'
      /\ \A q \in Tasks : q # p => task'[q] = task[q]
      /\ task'[p].by = task[p].by /\ task'[p].latest = task[p].latest
      /\ task'[p].snap = task[p].snap /\ task'[p].at = task[p].at
      /\ UNCHANGED <<now, on, inputs, lifecycle, timer, faulted, recon, quit, drain>>
      /\ job' \in [Topics \X Days -> {"none", "open", "ended"}]
      /\ task[p].pc \in InMail
      /\ task'[p].pc \in {"loop", "block", "cancel"}
  BY DEF Served, InMail
<1>3. Types'
  BY <1>1, <1>2 DEF SchedulingInv, Types
<1>4. Mailbox'
  BY <1>1, <1>2, NoTaskName DEF SchedulingInv, Mailbox, InMail
<1>5. \A q \in Tasks : Enqueues(q)' => Enqueues(q) /\ q # p /\ task'[q].topic = task[q].topic
  BY <1>2 DEF Enqueues
<1>6. Stopping'
  BY <1>1, <1>2, <1>5 DEF SchedulingInv, Stopping
<1>7. ASSUME NEW q \in Tasks, Enqueues(q), q # p, task[p].latest
      PROVE  FALSE
  <2>1. task[p].pc = "jobs" /\ Before(mail, q, p)
    BY <1>2, <1>7 DEF SchedulingInv, OneLatest, InMail
  <2> QED BY <1>1, <2>1
<1>8. OneLatest'
  BY <1>1, <1>2, <1>5, <1>7 DEF SchedulingInv, OneLatest
<1>9. Recovering'
  BY <1>2 DEF SchedulingInv, Recovering, Recovers, Refreshing, InMail
<1>10. ASSUME NEW q \in Tasks, Enqueues(q), q # p, Behind(q)
       PROVE  Behind(q)'
  <2>1. CASE Quitting
    BY <1>2, <2>1 DEF Behind, Quitting
  <2>2. CASE \E s \in Tasks : task[s].latest /\ s # q /\ task[s].pc \in {"inputs", "evaluate", "jobs"}
    BY <1>2, <1>7, <1>10, <2>2 DEF Behind
  <2>3. CASE \E s \in Tasks : task[s].pc = "barrier" /\ Before(mail, q, s)
    BY <1>1, <1>2, <1>10, <2>3 DEF Behind
  <2>4. CASE /\ drain = "barrier" /\ Before(mail, q, "drain")
             /\ recon \/ \E s \in Tasks : Recovers(s) /\ task[s].pc \in {"reactivate", "block"}
    BY <1>1, <1>2, <1>10, <2>4 DEF Behind, Recovers, InMail
  <2> QED BY <1>10, <2>1, <2>2, <2>3, <2>4 DEF Behind
<1>11. Steady
  <2>1. \A q \in Tasks : Looks(q)' => Looks(q) /\ task'[q].snap = task[q].snap
    BY <1>2 DEF Looks, InMail, SchedulingInv, OneLatest
  <2> QED BY <1>2, <1>5, <1>10, <2>1 DEF Steady, ToCome, Quitting, InMail
<1>12. Past' => Past
  BY <1>2 DEF Past, Recovers, Refreshing, InMail
<1> QED BY <1>2, <1>3, <1>4, <1>6, <1>7, <1>8, <1>9, <1>11, <1>12, SteadyFollows, SteadyRenewed
        DEF SchedulingInv, Enqueues

\* The jobs show what is not scheduled yet, and stays so for the latest: any
\* other enqueue has been served before.
LEMMA ServeJobsStep ==
  ASSUME SchedulingInv, NEW p \in Tasks, Served(p), job' = job,
         task[p].pc = "jobs", task'[p].pc = "loop",
         task'[p].todo = DueTopics(task[p].snap, task[p].at)
  PROVE  SchedulingInv'
<1>1. /\ Types' /\ Mailbox' /\ Stopping' /\ OneLatest' /\ Recovering' /\ Follows' /\ Renewed'
  BY ServedKeeps
<1>2. /\ task'[p].at = task[p].at /\ task'[p].snap = task[p].snap
      /\ \A q \in Tasks : q # p => task'[q] = task[q]
  BY DEF Served
<1>3. \A t \in task'[p].todo : t \in task'[p].snap /\ NotScheduled(p, t)'
  BY <1>2 DEF DueTopics, NotScheduled
<1>4. ASSUME NEW q \in Tasks, q # p
      PROVE  /\ Enqueues(q)' => \E t \in Topics : task'[q].topic = {t} /\ NotScheduled(q, t)'
             /\ task'[q].latest /\ task'[q].pc \in {"loop", "enqueue"} =>
                  \A t \in task'[q].todo : NotScheduled(q, t)' /\ (Enqueues(q)' => t \notin task'[q].topic)
             /\ task'[q].pc \in {"loop", "enqueue"} => task'[q].todo \subseteq task'[q].snap
             /\ Enqueues(q)' => task'[q].topic \subseteq task'[q].snap
  <2>1. task'[q] = task[q] /\ \A t : NotScheduled(q, t)' <=> NotScheduled(q, t)
    BY <1>2, <1>4 DEF NotScheduled
  <2> QED BY <2>1 DEF SchedulingInv, Work, Enqueues
<1>5. Work'
  BY <1>2, <1>3, <1>4 DEF Work, Enqueues
<1> QED BY <1>1, <1>5 DEF SchedulingInv

\* The queue schedules the topic, or cannot write: nobody else is about to
\* enqueue it.
LEMMA ServeEnqueueStep ==
  ASSUME SchedulingInv, NEW p \in Tasks, Served(p), task[p].pc = "enqueue",
         task'[p].todo = task[p].todo, task'[p].topic = {},
         \/ /\ task'[p].pc = "loop"
            /\ \E t \in task[p].topic : job' = [job EXCEPT ![<<t, DayOf(task[p].at)>>] = "open"]
         \/ task'[p].pc = "block" /\ job' = job
  PROVE  SchedulingInv'
<1>1. /\ Types' /\ Mailbox' /\ Stopping' /\ OneLatest' /\ Recovering' /\ Follows' /\ Renewed'
  BY ServedKeeps
<1>2. /\ task'[p].at = task[p].at /\ task'[p].snap = task[p].snap /\ task'[p].latest = task[p].latest
      /\ \A q \in Tasks : q # p => task'[q] = task[q]
  BY DEF Served
<1>3. ASSUME NEW q \in Tasks, q # p
      PROVE  ~Enqueues(q) /\ ~(task[q].latest /\ task[q].pc = "loop")
  BY <1>3 DEF SchedulingInv, OneLatest, Enqueues
<1>4. \A t : t \in task[p].todo /\ task[p].latest => NotScheduled(p, t) /\ t \notin task[p].topic
  BY DEF SchedulingInv, Work, Enqueues
<1>5. \A t : t \in task[p].todo /\ task[p].latest /\ task'[p].pc = "loop" => NotScheduled(p, t)'
  <2>1. SUFFICES ASSUME NEW t \in task[p].todo, task[p].latest, task'[p].pc = "loop"
                 PROVE  NotScheduled(p, t)'
    OBVIOUS
  <2>2. PICK u \in task[p].topic : job' = [job EXCEPT ![<<u, DayOf(task[p].at)>>] = "open"]
    BY <2>1
  <2>3. t # u /\ NotScheduled(p, t)
    BY <1>4, <2>1
  <2>4. /\ task[p].at \in 0 .. End /\ t \in Topics
        /\ job \in [Topics \X Days -> {"none", "open", "ended"}]
    BY <2>1 DEF SchedulingInv, Types, TaskTypes, IsTask, Work
  <2>5. <<t, DayOf(task[p].at)>> \in Topics \X Days
    BY <2>4, DayIsADay
  <2> QED BY <1>2, <2>2, <2>3, <2>4, <2>5 DEF NotScheduled
<1>6. task[p].todo \subseteq task[p].snap
  BY DEF SchedulingInv, Work
<1>7. Work'
  <2>1. \A q \in Tasks : ~Enqueues(q)'
    BY <1>2, <1>3 DEF Enqueues
  <2>2. \A q \in Tasks :
          task'[q].latest /\ task'[q].pc \in {"loop", "enqueue"} =>
            \A t \in task'[q].todo : NotScheduled(q, t)' /\ (Enqueues(q)' => t \notin task'[q].topic)
    BY <1>2, <1>3, <1>5 DEF Enqueues
  <2>3. \A q \in Tasks :
          task'[q].pc \in {"loop", "enqueue"} => task'[q].todo \subseteq task'[q].snap
    BY <1>2, <1>6 DEF SchedulingInv, Work
  <2> QED BY <2>1, <2>2, <2>3 DEF Work, Enqueues
<1> QED BY <1>1, <1>7 DEF SchedulingInv

\* Serve preserves the invariant.
LEMMA ServeStep ==
  ASSUME SchedulingInv, Serve
  PROVE  SchedulingInv'
<1>1. /\ mail # <<>> /\ mail' = Tail(mail)
      /\ UNCHANGED <<now, on, inputs, lifecycle, timer, faulted, recon>>
  BY DEF Serve, clockVars, coordVars, shown
<1>2. Head(mail) \in Tasks \cup {"quit", "drain"} /\ Waits(mail, Head(mail))
  BY <1>1, MailShrinks
<1>3. CASE Head(mail) \in {"quit", "drain"}
  <2>1. /\ UNCHANGED <<task, job>>
        /\ \/ Head(mail) = "quit" /\ quit' = "cancel" /\ drain' = drain
           \/ Head(mail) = "drain" /\ drain' = "cancel" /\ quit' = quit
    BY <1>3 DEF Serve
  <2> QED BY <1>1, <2>1, ServeStoreStep
<1>4. ASSUME NEW p \in Tasks, Head(mail) = p
      PROVE  SchedulingInv'
  <2>1. p # "quit" /\ p # "drain" /\ task[p].pc \in InMail
    BY <1>2, <1>4, NoTaskName DEF SchedulingInv, Mailbox, InMail
  <2>2. /\ UNCHANGED <<quit, drain>>
        /\ task[p].pc = "jobs" =>
             /\ task' = [task EXCEPT ![p].pc = "loop", ![p].todo = DueTopics(task[p].snap, task[p].at)]
             /\ job' = job
        /\ task[p].pc = "enqueue" => EnqueueServed(p)
        /\ task[p].pc = "barrier" => Move(p, "cancel") /\ job' = job
    BY <1>4, <2>1 DEF Serve, InMail
  <2>3. DOMAIN task = Tasks /\ \A q \in Tasks : IsTask(task[q])
        /\ job \in [Topics \X Days -> {"none", "open", "ended"}]
    BY DEF SchedulingInv, Types, TaskTypes
  <2>4. CASE task[p].pc = "jobs"
    <3> DEFINE due == DueTopics(task[p].snap, task[p].at)
    <3>1. task' = [task EXCEPT ![p].pc = "loop", ![p].todo = due] /\ job' = job
      BY <2>2, <2>4
    <3> HIDE DEF due
    <3>2. /\ TaskTypes' /\ \A q \in Tasks : q # p => task'[q] = task[q]
          /\ task'[p].pc = "loop" /\ task'[p].todo = due
          /\ task'[p].by = task[p].by /\ task'[p].latest = task[p].latest
          /\ task'[p].snap = task[p].snap /\ task'[p].at = task[p].at
      BY <2>3, <3>1 DEF TaskTypes, IsTask
    <3>3. Served(p)
      BY <1>1, <1>4, <2>2, <2>3, <3>1, <3>2 DEF Served
    <3> QED BY <2>4, <3>1, <3>2, <3>3, ServeJobsStep DEF due
  <2>5. CASE task[p].pc = "enqueue"
    <3>1. PICK t \in Topics : task[p].topic = {t}
      BY <2>5 DEF SchedulingInv, Work, Enqueues
    <3>2. (CHOOSE x \in task[p].topic : TRUE) = t
      BY <3>1
    <3>3. \/ /\ job' = [job EXCEPT ![<<t, DayOf(task[p].at)>>] = "open"]
             /\ \/ task' = [task EXCEPT ![p].pc = "loop", ![p].topic = {}]
                \/ task' = [[task EXCEPT ![p].pc = "loop", ![p].topic = {}] EXCEPT ![p].woke = TRUE]
          \/ /\ job' = job
             /\ task' = [task EXCEPT ![p].pc = "block", ![p].topic = {}]
      BY <2>2, <2>5, <3>2 DEF EnqueueServed
    <3>4. /\ TaskTypes' /\ \A q \in Tasks : q # p => task'[q] = task[q]
          /\ task'[p].by = task[p].by /\ task'[p].latest = task[p].latest
          /\ task'[p].snap = task[p].snap /\ task'[p].at = task[p].at
          /\ task'[p].todo = task[p].todo /\ task'[p].topic = {}
          /\ \/ /\ task'[p].pc = "loop"
                /\ \E u \in task[p].topic : job' = [job EXCEPT ![<<u, DayOf(task[p].at)>>] = "open"]
             \/ task'[p].pc = "block" /\ job' = job
      BY <2>3, <3>1, <3>3 DEF TaskTypes, IsTask
    <3>5. Served(p)
      BY <1>1, <1>4, <2>2, <2>3, <3>4 DEF Served
    <3> QED BY <2>5, <3>4, <3>5, ServeEnqueueStep
  <2>6. CASE task[p].pc = "barrier"
    <3>1. Move(p, "cancel") /\ job' = job
      BY <2>2, <2>6
    <3>2. /\ TaskTypes' /\ \A q \in Tasks : q # p => task'[q] = task[q]
          /\ task'[p].pc = "cancel" /\ task'[p].by = task[p].by /\ task'[p].latest = task[p].latest
          /\ task'[p].snap = task[p].snap /\ task'[p].at = task[p].at
      BY <3>1, MovesOn DEF SchedulingInv, Types
    <3>3. Served(p)
      BY <1>1, <1>4, <2>2, <2>3, <3>1, <3>2 DEF Served
    <3>4. /\ Types' /\ Mailbox' /\ Stopping' /\ OneLatest' /\ Recovering' /\ Follows' /\ Renewed'
      BY <2>6, <3>2, <3>3, ServedKeeps
    <3>5. \A q \in Tasks : task'[q].pc \in {"loop", "enqueue"} => Keeps(q)
      BY <3>2 DEF Keeps
    <3>6. Work'
      BY <3>1, <3>5, WorkFrame DEF SchedulingInv
    <3> QED BY <3>4, <3>6 DEF SchedulingInv
  <2> QED BY <2>1, <2>4, <2>5, <2>6 DEF InMail
<1> QED BY <1>2, <1>3, <1>4

\* A job that ends changes no other.
LEMMA OneEndsKeeps ==
  ASSUME SchedulingInv, OneEnds \/ UNCHANGED <<job, other>>
  PROVE  /\ job' \in [Topics \X Days -> {"none", "open", "ended"}]
         /\ \A td \in Topics \X Days : job[td] = "none" => job'[td] = "none"
         /\ \A td \in Topics \X Days : job[td] = "ended" => job'[td] = "ended"
<1>1. job \in [Topics \X Days -> {"none", "open", "ended"}]
  BY DEF SchedulingInv, Types
<1>2. job' = job \/ \E td \in Topics \X Days : job[td] = "open" /\ job' = [job EXCEPT ![td] = "ended"]
  BY DEF OneEnds, Open
<1>3. ASSUME NEW td \in Topics \X Days, job[td] = "open", job' = [job EXCEPT ![td] = "ended"]
      PROVE  /\ job' \in [Topics \X Days -> {"none", "open", "ended"}]
             /\ \A u \in Topics \X Days : job[u] = "none" => job'[u] = "none"
             /\ \A u \in Topics \X Days : job[u] = "ended" => job'[u] = "ended"
  <2>1. job' \in [Topics \X Days -> {"none", "open", "ended"}]
    BY <1>1, <1>3
  <2>2. ASSUME NEW u \in Topics \X Days, job[u] # "open"
        PROVE  job'[u] = job[u]
    BY <1>1, <1>3, <2>2
  <2> QED BY <2>1, <2>2
<1> QED BY <1>1, <1>2, <1>3

\* The drain runs a job, ends, or cancels the timer, and Quit begins.
LEMMA StoreStep ==
  ASSUME SchedulingInv, UNCHANGED <<now, on, inputs, task, lifecycle, mail, faulted, recon>>,
         job' \in [Topics \X Days -> {"none", "open", "ended"}],
         \A td \in Topics \X Days : job[td] = "none" => job'[td] = "none",
         drain' = "barrier" <=> drain = "barrier",
         timer' \in {timer, {}},
         \/ quit' = quit
         \/ quit = "no" /\ quit' = "stop"
         \/ quit = "cancel" /\ quit' = "stopped" /\ timer' = {}
  PROVE  SchedulingInv'
<1>1. /\ Types' /\ Mailbox' /\ Stopping' /\ OneLatest' /\ Recovering'
  BY DEF SchedulingInv, Types, TaskTypes, Mailbox, Stopping, OneLatest, Recovering, Enqueues, Recovers
<1>2. Work'
  BY WorkFrame DEF SchedulingInv, Keeps
<1>3. Quitting => Quitting'
  BY DEF Quitting
<1>4. \A q \in Tasks : Behind(q) => Behind(q)'
  BY <1>3 DEF Behind, Recovers
<1>5. Steady
  BY <1>3, <1>4 DEF Steady, Looks, ToCome, Enqueues
<1>6. Past' => Past
  BY DEF Past, Recovers
<1> QED BY <1>1, <1>2, <1>5, <1>6, SteadyFollows, SteadyRenewed DEF SchedulingInv

\* The clock.
LEMMA TickStep ==
  ASSUME SchedulingInv, Tick
  PROVE  SchedulingInv'
<1>1. /\ UNCHANGED <<on, inputs, job, task, lifecycle, timer, mail, drain, faulted, recon, quit>>
      /\ now < End /\ now' = now + 1
  BY DEF Tick, queueVars, coordVars, drainVars, shown
<1>2. Types'
  BY <1>1, EndIsNat DEF SchedulingInv, Types, TaskTypes
<1>3. Mailbox' /\ Stopping' /\ OneLatest' /\ Recovering' /\ Work' /\ Follows' /\ Renewed'
  BY <1>1 DEF SchedulingInv, Mailbox, Stopping, OneLatest, Recovering, Work, Follows, Renewed,
              Enqueues, Recovers, NotScheduled, Behind, Looks, ToCome, Quitting
<1> QED BY <1>2, <1>3 DEF SchedulingInv

\* RunJob preserves the invariant.
LEMMA RunJobStep ==
  ASSUME SchedulingInv, RunJob
  PROVE  SchedulingInv'
<1>1. /\ UNCHANGED <<now, on, inputs, task, lifecycle, timer, mail, drain, faulted, recon, quit>>
      /\ OneEnds
  BY DEF RunJob, clockVars, coordVars, drainVars, shown
<1> QED BY <1>1, OneEndsKeeps, StoreStep

\* What is closed: the latest refresh, in favour of the caller's barrier.
LEMMA ClosingTasks ==
  ASSUME SchedulingInv, task' = Superseded(task)
  PROVE  /\ TaskTypes' /\ \A q \in Tasks : ~task'[q].latest /\ Keeps(q)
         /\ \A q \in Tasks : Recovers(q)' <=> Recovers(q)
<1>1. TaskTypes
  BY DEF SchedulingInv, Types
<1> DEFINE s == Superseded(task)
<1>2. /\ DOMAIN s = Tasks /\ \A q \in Tasks : IsTask(s[q]) /\ ~s[q].latest
      /\ \A q \in Tasks :
           /\ s[q].pc = task[q].pc /\ s[q].by = task[q].by /\ s[q].snap = task[q].snap
           /\ s[q].at = task[q].at /\ s[q].todo = task[q].todo /\ s[q].topic = task[q].topic
  BY <1>1, SupersededKeeps
<1>3. task' = s
  OBVIOUS
<1> HIDE DEF s
<1> QED BY <1>2, <1>3 DEF TaskTypes, Keeps, Recovers

\* DrainFails preserves the invariant.
LEMMA DrainFailsStep ==
  ASSUME SchedulingInv, DrainFails
  PROVE  SchedulingInv'
<1>1. /\ UNCHANGED <<now, on, inputs, timer, quit>>
      /\ drain = "busy" /\ recon' = TRUE /\ faulted' = TRUE
      /\ OneEnds \/ UNCHANGED <<job, other>>
  BY DEF DrainFails, clockVars
<1>2. /\ job' \in [Topics \X Days -> {"none", "open", "ended"}]
      /\ \A td \in Topics \X Days : job[td] = "none" => job'[td] = "none"
  BY <1>1, OneEndsKeeps
<1>3. CASE lifecycle = "stopped"
  <2>1. drain' = "failed" /\ UNCHANGED <<task, lifecycle, mail>>
    BY <1>3 DEF DrainFails
  <2>2. /\ Types' /\ Mailbox' /\ Stopping' /\ OneLatest' /\ Recovering'
    BY <1>1, <1>2, <2>1
       DEF SchedulingInv, Types, TaskTypes, Mailbox, Stopping, OneLatest, Recovering, Enqueues, Recovers
  <2>3. Work'
    BY <1>2, <2>1, WorkFrame DEF SchedulingInv, Keeps
  <2>4. Quitting /\ Quitting' /\ \A q \in Tasks : Behind(q)'
    BY <1>1, <1>3 DEF SchedulingInv, Stopping, Quitting, Behind
  <2>5. Past' => Past
    BY <2>1 DEF Past, Recovers
  <2>6. Follows' /\ Renewed'
    BY <1>1, <2>4, <2>5 DEF SchedulingInv, Follows, Renewed, Past
  <2> QED BY <2>2, <2>3, <2>6 DEF SchedulingInv
<1>4. CASE lifecycle # "stopped"
  <2>1. /\ drain' = "barrier" /\ task' = Superseded(task)
        /\ lifecycle' = "blocked" /\ mail' = Append(mail, "drain")
    BY <1>4 DEF DrainFails, Close
  <2>2. /\ TaskTypes' /\ \A q \in Tasks : ~task'[q].latest /\ Keeps(q)
        /\ \A q \in Tasks : Recovers(q)' <=> Recovers(q)
    BY <2>1, ClosingTasks
  <2>3. ~Waits(mail, "drain")
    BY <1>1 DEF SchedulingInv, Mailbox
  <2>4. Closes("drain")
    BY <1>1, <1>2, <1>4, <2>1, <2>2, <2>3 DEF Closes
  <2>5. /\ Types' /\ OneLatest' /\ Work' /\ Once(mail')
        /\ \A x \in Tasks \cup {"quit", "drain"} : Waits(mail', x) <=> Waits(mail, x) \/ x = "drain"
        /\ \A q \in Tasks : Enqueues(q)' => Enqueues(q) /\ q # "drain" /\ Before(mail', q, "drain")
        /\ \A x, y \in Tasks \cup {"quit", "drain"} : Before(mail, x, y) => Before(mail', x, y)
    BY <2>4, ClosesKeeps, NoTaskName
  <2>6. Mailbox'
    BY <1>1, <2>1, <2>2, <2>5, NoTaskName DEF SchedulingInv, Mailbox, Keeps
  <2>7. Stopping'
    BY <1>1, <1>4, <2>1, <2>5 DEF SchedulingInv, Stopping
  <2>8. Recovering'
    BY <1>1, <2>2 DEF SchedulingInv, Recovering, Refreshing, Keeps
  <2>9. \A q \in Tasks : Enqueues(q)' => Behind(q)'
    BY <1>1, <2>1, <2>5 DEF Behind
  <2>10. Follows' /\ Renewed'
    BY <1>1, <2>4, <2>9, ClosesFollows, NoTaskName DEF Quitting
  <2> QED BY <2>5, <2>6, <2>7, <2>8, <2>10 DEF SchedulingInv
<1> QED BY <1>3, <1>4

\* What awaited the drain goes on, with the inputs brought up to date.
LEMMA DrainExitsStep ==
  ASSUME SchedulingInv, DrainExits
  PROVE  SchedulingInv'
<1>1. /\ UNCHANGED <<now, on, job, lifecycle, timer, mail, faulted, recon, quit>>
      /\ inputs' = on
      /\ drain # "barrier" /\ drain' # "barrier"
  BY DEF DrainExits, clockVars, queueVars, coordVars, shown
<1> DEFINE next(p) == CASE task[p].pc = "await"  -> [task[p] EXCEPT !.pc = "arm"]
                        [] task[p].pc = "launch" -> [task[p] EXCEPT !.pc = "asked"]
                        [] OTHER                 -> task[p]
<1>2. task' = [p \in Tasks |-> next(p)]
  BY DEF DrainExits
<1>3. ASSUME NEW q \in Tasks
      PROVE  /\ IsTask(next(q))
             /\ next(q).by = task[q].by /\ next(q).latest = task[q].latest
             /\ next(q).snap = task[q].snap /\ next(q).at = task[q].at
             /\ next(q).todo = task[q].todo /\ next(q).topic = task[q].topic
             /\ \/ task[q].pc = "await" /\ next(q).pc = "arm"
                \/ task[q].pc = "launch" /\ next(q).pc = "asked"
                \/ task[q].pc \notin {"await", "launch"} /\ next(q).pc = task[q].pc
  <2>1. IsTask(task[q])
    BY DEF SchedulingInv, Types, TaskTypes
  <2>2. CASE task[q].pc = "await"
    <3>1. next(q) = [task[q] EXCEPT !.pc = "arm"]
      BY <2>2
    <3> HIDE DEF next
    <3> QED BY <2>1, <2>2, <3>1 DEF IsTask
  <2>3. CASE task[q].pc = "launch"
    <3>1. next(q) = [task[q] EXCEPT !.pc = "asked"]
      BY <2>3
    <3> HIDE DEF next
    <3> QED BY <2>1, <2>3, <3>1 DEF IsTask
  <2>4. CASE task[q].pc \notin {"await", "launch"}
    <3>1. next(q) = task[q]
      BY <2>4
    <3> HIDE DEF next
    <3> QED BY <2>1, <2>4, <3>1
  <2> QED BY <2>2, <2>3, <2>4
<1> HIDE DEF next
<1>4. /\ TaskTypes'
      /\ \A q \in Tasks :
           /\ task'[q].by = task[q].by /\ task'[q].latest = task[q].latest
           /\ task'[q].snap = task[q].snap /\ task'[q].at = task[q].at
           /\ task'[q].todo = task[q].todo /\ task'[q].topic = task[q].topic
           /\ \/ task[q].pc = "await" /\ task'[q].pc = "arm"
              \/ task[q].pc = "launch" /\ task'[q].pc = "asked"
              \/ task[q].pc \notin {"await", "launch"} /\ task'[q].pc = task[q].pc
  BY <1>2, <1>3 DEF TaskTypes
<1>5. Types'
  BY <1>1, <1>4 DEF SchedulingInv, Types
<1>6. Mailbox'
  BY <1>1, <1>4 DEF SchedulingInv, Mailbox
<1>7. \A q \in Tasks : Enqueues(q)' <=> Enqueues(q)
  BY <1>4 DEF Enqueues
<1>8. Stopping'
  BY <1>1, <1>7 DEF SchedulingInv, Stopping
<1>9. OneLatest'
  BY <1>1, <1>4, <1>7 DEF SchedulingInv, OneLatest
<1>10. Work'
  <2>1. \A q \in Tasks : task'[q].pc \in {"loop", "enqueue"} => Keeps(q)
    BY <1>4 DEF Keeps
  <2> QED BY <1>1, <2>1, WorkFrame DEF SchedulingInv
<1>11. Recovering'
  BY <1>1, <1>4 DEF SchedulingInv, Recovering, Recovers, Refreshing
<1>12. \A q \in Tasks : Behind(q) => Behind(q)'
  BY <1>1, <1>4 DEF Behind, Quitting, Recovers
<1>13. Steady
  BY <1>1, <1>4, <1>7, <1>12 DEF Steady, Looks, ToCome, Quitting
<1>14. Past' => Past
  BY <1>4 DEF Past, Recovers, Refreshing
<1> QED BY <1>1, <1>5, <1>6, <1>8, <1>9, <1>10, <1>11, <1>13, <1>14, SteadyFollows, SteadyRenewed
        DEF SchedulingInv

\* Every step of the drain preserves the invariant.
LEMMA DrainStep ==
  ASSUME SchedulingInv, Drain \/ DrainFails
  PROVE  SchedulingInv'
<1>1. CASE DrainCancelsTimer
  <2>1. /\ UNCHANGED <<now, on, inputs, job, task, lifecycle, mail, faulted, recon, quit>>
        /\ timer' = {} /\ drain # "barrier" /\ drain' # "barrier"
    BY <1>1 DEF DrainCancelsTimer, clockVars, queueVars, shown
  <2>2. job \in [Topics \X Days -> {"none", "open", "ended"}]
    BY DEF SchedulingInv, Types
  <2> QED BY <2>1, <2>2, StoreStep
<1>2. CASE DrainEnds
  <2>1. /\ UNCHANGED <<now, on, inputs, job, task, lifecycle, timer, mail, faulted, recon, quit>>
        /\ drain # "barrier" /\ drain' # "barrier"
    BY <1>2 DEF DrainEnds, clockVars, queueVars, coordVars, shown
  <2>2. job \in [Topics \X Days -> {"none", "open", "ended"}]
    BY DEF SchedulingInv, Types
  <2> QED BY <2>1, <2>2, StoreStep
<1> QED BY <1>1, <1>2, RunJobStep, DrainExitsStep, DrainFailsStep DEF Drain

\* Quit preserves the invariant.
LEMMA QuitStep ==
  ASSUME SchedulingInv, Quit
  PROVE  SchedulingInv'
<1>1. /\ UNCHANGED <<now, on, inputs, job, task, lifecycle, timer, mail, drain, faulted, recon>>
      /\ quit = "no" /\ quit' = "stop"
  BY DEF Quit, clockVars, queueVars, coordVars, drainVars, shown
<1>2. job \in [Topics \X Days -> {"none", "open", "ended"}]
  BY DEF SchedulingInv, Types
<1> QED BY <1>1, <1>2, StoreStep

\* Quit waits behind every enqueue that the queue has in its mail.
LEMMA StopStep ==
  ASSUME SchedulingInv, StopScheduling
  PROVE  SchedulingInv'
<1>1. UNCHANGED <<now, on, inputs, job, drain, faulted, recon>>
  BY DEF StopScheduling, clockVars, queueVars, drainVars, shown
<1>2. job \in [Topics \X Days -> {"none", "open", "ended"}]
  BY DEF SchedulingInv, Types
<1>3. CASE quit = "stop"
  <2>1. /\ quit' = "barrier" /\ lifecycle' = "stopped" /\ mail' = Append(mail, "quit")
        /\ task' = Superseded(task) /\ timer' = timer
    BY <1>3 DEF StopScheduling, Stop, Close
  <2>2. /\ TaskTypes' /\ \A q \in Tasks : ~task'[q].latest /\ Keeps(q)
        /\ \A q \in Tasks : Recovers(q)' <=> Recovers(q)
    BY <2>1, ClosingTasks
  <2>3. ~Waits(mail, "quit") /\ lifecycle # "stopped"
    BY <1>3 DEF SchedulingInv, Mailbox, Stopping
  <2>4. Closes("quit")
    BY <1>1, <1>2, <2>1, <2>2, <2>3 DEF Closes, SchedulingInv, Types
  <2>5. /\ Types' /\ OneLatest' /\ Work' /\ Once(mail')
        /\ \A x \in Tasks \cup {"quit", "drain"} : Waits(mail', x) <=> Waits(mail, x) \/ x = "quit"
        /\ \A q \in Tasks : Enqueues(q)' => Enqueues(q) /\ q # "quit" /\ Before(mail', q, "quit")
    BY <2>4, ClosesKeeps, NoTaskName
  <2>6. Mailbox'
    BY <1>1, <1>3, <2>1, <2>2, <2>5, NoTaskName DEF SchedulingInv, Mailbox, Keeps
  <2>7. Stopping'
    BY <2>1, <2>5 DEF SchedulingInv, Stopping
  <2>8. Recovering'
    BY <1>1, <2>2 DEF SchedulingInv, Recovering, Refreshing, Keeps
  <2>9. Quitting' /\ \A q \in Tasks : Behind(q)'
    BY <2>1 DEF Behind, Quitting
  <2>10. Follows' /\ Renewed'
    BY <1>1, <2>4, <2>9, ClosesFollows, NoTaskName
  <2> QED BY <2>5, <2>6, <2>7, <2>8, <2>10 DEF SchedulingInv
<1>4. CASE quit = "cancel"
  <2>1. quit' = "stopped" /\ timer' = {} /\ UNCHANGED <<lifecycle, task, mail>>
    BY <1>4 DEF StopScheduling, Stop
  <2> QED BY <1>1, <1>2, <1>4, <2>1, StoreStep
<1> QED BY <1>3, <1>4 DEF StopScheduling, Stop

-----------------------------------------------------------------------------
(* Theorems.                                                               *)

\* The invariant holds when the App was launched.
LEMMA SchedulingInitially == Init => SchedulingInv
<1>1. SUFFICES ASSUME Init PROVE SchedulingInv
  OBVIOUS
<1>2. /\ now = 0 /\ on \subseteq Topics /\ inputs = on
      /\ job = [td \in Topics \X Days |-> "none"]
      /\ lifecycle = "active" /\ timer = {} /\ mail = <<>>
      /\ faulted = FALSE /\ quit = "no" /\ recon \in BOOLEAN /\ drain # "barrier"
  BY <1>1 DEF Init
<1>3. /\ TaskTypes
      /\ \A q \in Tasks : /\ task[q].pc \in {"idle", "launch", "asked"}
                          /\ task[q].by = "start" /\ ~task[q].latest
  <2>1. PICK p \in Tasks :
          task = [q \in Tasks |-> IF q # p \/ recon THEN Idle
                                  ELSE [Asked EXCEPT !.pc = IF drain = "busy" THEN "launch" ELSE "asked"]]
    BY <1>1 DEF Init
  <2>2. PICK pc \in {"launch", "asked"} : pc = IF drain = "busy" THEN "launch" ELSE "asked"
    OBVIOUS
  <2> DEFINE r == [Asked EXCEPT !.pc = pc]
  <2>3. IsTask(r) /\ r.pc = pc /\ r.by = "start" /\ ~r.latest
    BY Fresh, EndIsNat DEF Asked, Idle, IsTask
  <2>4. task = [q \in Tasks |-> IF q # p \/ recon THEN Idle ELSE r]
    BY <2>1, <2>2
  <2> HIDE DEF r
  <2> QED BY <2>2, <2>3, <2>4, Fresh DEF TaskTypes
<1>4. Types
  <2>1. mail \in Seq(Tasks \cup {"quit", "drain"})
    BY <1>2
  <2>2. job \in [Topics \X Days -> {"none", "open", "ended"}]
    BY <1>2
  <2>3. now \in 0 .. End
    BY <1>2, EndIsNat
  <2> QED BY <1>2, <1>3, <2>1, <2>2, <2>3 DEF Types
<1>5. Once(mail) /\ \A x : ~Waits(mail, x)
  BY <1>2 DEF Once, Waits
<1>6. Mailbox
  BY <1>2, <1>3, <1>5 DEF Mailbox
<1>7. Stopping /\ OneLatest /\ Work /\ Recovering
  BY <1>2, <1>3 DEF Stopping, OneLatest, Work, Recovering, Enqueues, Recovers, Refreshing
<1>8. Follows /\ Renewed
  BY <1>2, <1>3 DEF Follows, Renewed, Looks, Enqueues, Recovers, Refreshing
<1> QED BY <1>4, <1>6, <1>7, <1>8 DEF SchedulingInv

\* Every step preserves it.
LEMMA SchedulingSteps == SchedulingInv /\ [Next]_vars => SchedulingInv'
<1>1. SUFFICES ASSUME SchedulingInv, [Next]_vars PROVE SchedulingInv'
  OBVIOUS
<1>2. CASE UNCHANGED vars
  <2>1. UNCHANGED <<now, on, inputs, job, task, lifecycle, timer, mail, drain, faulted, recon, quit>>
    BY <1>2 DEF vars
  <2>2. Types' /\ Mailbox' /\ Stopping' /\ OneLatest'
    BY <1>1, <2>1 DEF SchedulingInv, Types, TaskTypes, Mailbox, Stopping, OneLatest, Enqueues
  <2>3. Work' /\ Recovering'
    BY <1>1, <2>1 DEF SchedulingInv, Work, Recovering, Enqueues, Recovers, NotScheduled
  <2>4. Follows' /\ Renewed'
    BY <1>1, <2>1 DEF SchedulingInv, Follows, Renewed, Enqueues, Recovers, Behind, Looks, ToCome, Quitting
  <2> QED BY <2>2, <2>3, <2>4 DEF SchedulingInv
<1>3. CASE User
  BY <1>1, <1>3, RunOtherStep, QuitStep, EventStep, RecoverStep, ChangeStep DEF User
<1>4. CASE \E p \in Tasks : Step(p)
  <2>1. PICK p \in Tasks : Step(p)
    BY <1>4
  <2> QED BY <1>1, <2>1, StartStep, ValidateStep, ReactivateStep, HandleStep, RefreshStep, LoopStep,
             WakeStep, BlockStep, CancelStep, ReportStep, ReturnStep DEF Step
<1> QED BY <1>1, <1>2, <1>3, <1>4, TickStep, FireStep, ServeStep, DrainStep, StopStep DEF Next, Act, Timer

\* In every reachable state the refreshes, the mail and the settings are as
\* described above, for any number of refreshes, topics, days and failures.
THEOREM SchedulingInvariant == Spec => []SchedulingInv
  BY SchedulingInitially, SchedulingSteps, PTL DEF Spec

\* ScheduleCoordinator.stop: nothing is enqueued or armed once Quit is done
\* with the scheduling, whatever was suspended at an await.
THEOREM ScheduleStopIsFinal == Spec => []StopIsFinal
<1>1. SchedulingInv => StopIsFinal
  BY DEF SchedulingInv, Stopping, StopIsFinal, Enqueues
<1> QED BY <1>1, SchedulingInvariant, PTL

\* What a refresh enqueues has not been scheduled for that day: an overtaken
\* one is served before its successor looks at the jobs.
LEMMA OnlyNewIsScheduled ==
  ASSUME SchedulingInv, [Next]_vars, job' # job
  PROVE  \/ OneEnds
         \/ \E p \in Tasks, t \in Topics :
              /\ Enqueues(p) /\ NotScheduled(p, t) /\ task[p].topic = {t}
              /\ job' = [job EXCEPT ![<<t, DayOf(task[p].at)>>] = "open"]
              /\ mail # <<>> /\ mail' = Tail(mail) /\ Head(mail) = p
<1>1. OneEnds \/ Serve
  BY DEF vars, Next, Tick, Act, User, RunOther, Quit, Event, Recover, Change, Timer, FireTimer,
         Drain, RunJob, DrainCancelsTimer, DrainEnds, DrainExits, DrainFails, StopScheduling, Step,
         StartScheduling, Validate, Reactivate, HandleTimerFire, Refresh, Loop, Wake, Block,
         CancelTimer, ReportFailure, Return, queueVars
<1>2. CASE Serve
  <2>1. mail # <<>> /\ mail' = Tail(mail)
    BY <1>2 DEF Serve
  <2>2. PICK p \in Tasks : Head(mail) = p /\ task[p].pc = "enqueue" /\ EnqueueServed(p)
    <3>1. Head(mail) \in Tasks \cup {"quit", "drain"} /\ Waits(mail, Head(mail))
      BY <2>1, MailShrinks
    <3>2. Head(mail) \in Tasks
      BY <1>2, <3>1 DEF Serve
    <3>3. task[Head(mail)].pc \in InMail
      BY <3>1, <3>2 DEF SchedulingInv, Mailbox, InMail
    <3> QED BY <1>2, <3>2, <3>3, NoTaskName DEF Serve, InMail
  <2>3. PICK t \in Topics : task[p].topic = {t} /\ NotScheduled(p, t)
    BY <2>2 DEF SchedulingInv, Work, Enqueues
  <2>4. (CHOOSE x \in task[p].topic : TRUE) = t
    BY <2>3
  <2>5. job' = [job EXCEPT ![<<t, DayOf(task[p].at)>>] = "open"]
    BY <2>2, <2>4 DEF EnqueueServed
  <2> QED BY <2>1, <2>2, <2>3, <2>5 DEF Enqueues
<1> QED BY <1>1, <1>2

\* A topic's work of a day that has ended is never scheduled again.
THEOREM ScheduleOnceADay == Spec => ScheduledOnce
<1>1. ASSUME SchedulingInv, [Next]_vars, job' # job, NEW td \in Topics \X Days, job[td] = "ended"
      PROVE  job'[td] = "ended"
  <2>1. CASE OneEnds
    BY <1>1, <2>1, OneEndsKeeps
  <2>2. ASSUME NEW p \in Tasks, NEW t \in Topics, NotScheduled(p, t),
               job' = [job EXCEPT ![<<t, DayOf(task[p].at)>>] = "open"]
        PROVE  job'[td] = "ended"
    BY <1>1, <2>2 DEF NotScheduled, SchedulingInv, Types
  <2> QED BY <1>1, <2>1, <2>2, OnlyNewIsScheduled
<1>2. SchedulingInv /\ [Next]_vars =>
        [\A td \in Topics \X Days : job[td] = "ended" => job'[td] = "ended"]_job
  BY <1>1
<1> QED BY <1>2, SchedulingInvariant, PTL DEF Spec, ScheduledOnce

\* AppStore.startScheduling: the settings a refresh works from are those of
\* the user, or another refresh is still to come, or the user is shown why not.
THEOREM ScheduleFollowsSettings == Spec => FollowsSettings
<1>1. ASSUME SchedulingInv, [Next]_vars, NEW t \in Topics, NEW d \in Days,
             job[<<t, d>>] = "none", job'[<<t, d>>] = "open"
      PROVE  \/ t \in on \/ Quitting \/ FaultShows
             \/ \E p \in Tasks : task[p].pc \in {"asked", "refresh", "inputs", "evaluate", "jobs"}
  <2>1. ~OneEnds
    BY <1>1, OneEndsKeeps
  <2>2. PICK p \in Tasks, u \in Topics :
          /\ Enqueues(p) /\ task[p].topic = {u}
          /\ job' = [job EXCEPT ![<<u, DayOf(task[p].at)>>] = "open"]
    BY <1>1, <2>1, OnlyNewIsScheduled
  <2>3. t = u
    BY <1>1, <2>2 DEF SchedulingInv, Types
  <2>4. task[p].topic \subseteq on \/ Behind(p) \/ faulted \/ ToCome
    BY <1>1, <2>2 DEF SchedulingInv, Follows
  <2>5. CASE Behind(p)
    BY <1>1, <2>5 DEF Behind, FaultShows, SchedulingInv, Recovering
  <2> QED BY <2>2, <2>3, <2>4, <2>5 DEF FaultShows, ToCome
<1>2. SchedulingInv /\ [Next]_vars =>
        [\A t \in Topics, d \in Days :
           job[<<t, d>>] = "none" /\ job'[<<t, d>>] = "open" =>
             \/ t \in on \/ Quitting \/ FaultShows
             \/ \E p \in Tasks : task[p].pc \in {"asked", "refresh", "inputs", "evaluate", "jobs"}]_job
  BY <1>1
<1> QED BY <1>2, SchedulingInvariant, PTL DEF Spec, FollowsSettings

-----------------------------------------------------------------------------
(* The timer, while no more than one write fails.                          *)
(*                                                                         *)
(* The failure that blocks the coordinator is then the only one: what it   *)
(* began is over before a recovery begins, and nothing cuts in on the      *)
(* recovery.  So whoever cancels the timer does so while the coordinator   *)
(* is not active, and the refresh of the recovery is not overtaken but by  *)
(* one that arms the timer itself.                                         *)

Fails(p) == task[p].pc \in {"block", "barrier", "cancel", "report"}

\* A recovery that has found everything in order.
Resumes(p) == Recovers(p) /\ task[p].pc # "validate"

\* Where a recovery is that nothing cuts in on.
Recovery == {"validate", "reactivate", "refresh"} \cup Refreshing

\* What a failed write has begun ends before a recovery begins.
OneFailure ==
  /\ failures \in 0 .. MaxFailures
  /\ \A p \in Tasks : task[p].told => task[p].pc \in {"block", "barrier", "cancel"}
  /\ \A p \in Tasks : Fails(p) \/ Recovers(p) => failures = 1
  /\ drain \in {"barrier", "cancel"} \/ faulted \/ recon => failures = 1
  /\ \A p, q \in Tasks : Fails(p) => ~Recovers(q) /\ (Fails(q) => p = q)
  /\ \A p \in Tasks : Recovers(p) => drain \notin {"barrier", "cancel"} /\ task[p].pc \in Recovery
  /\ \A p \in Tasks : Fails(p) /\ ~task[p].told => ~faulted /\ ~recon

\* Until the recovery has made it active again, the coordinator is not.
Inactive ==
  /\ \A p \in Tasks : Fails(p) /\ (task[p].pc = "block" => task[p].told) => lifecycle # "active"
  /\ drain \in {"barrier", "cancel"} => lifecycle # "active"
  /\ \A p \in Tasks : Resumes(p) => ~recon
  /\ \A p \in Tasks : task[p].pc = "validate" => faulted \/ recon
  /\ recon /\ lifecycle = "active" =>
       timer = {} /\ \A p \in Tasks : task[p].pc \in {"idle", "asked", "validate"}
  /\ faulted /\ lifecycle = "active" =>
       Quitting \/ \E p \in Tasks : Resumes(p) /\ task[p].pc # "reactivate"

\* A refresh that has read the settings and will arm the timer.
WillArm(p) ==
  task[p].latest /\ task[p].pc \in {"evaluate", "jobs", "loop", "enqueue", "wake", "await", "arm"}

\* It works from the settings, or another is to come; during a recovery, from
\* the settings.
SnapsAreNew ==
  ~Quitting => \A p \in Tasks : WillArm(p) =>
    /\ task[p].snap = on \/ ToCome
    /\ task[p].snap = on \/ \A q \in Tasks : ~Recovers(q)

Scheduled(t, at) == job[<<t, DayOf(at)>>] # "none"

Taken(p, t) ==
  \/ Scheduled(t, task[p].at)
  \/ task[p].pc \in {"loop", "enqueue"} /\ t \in task[p].todo
  \/ task[p].pc = "enqueue" /\ t \in task[p].topic

\* What was due when it looked is scheduled, or is going to be.
DueIsTaken ==
  \A p \in Tasks : WillArm(p) =>
    /\ task[p].pc # "evaluate" => task[p].at <= now
    /\ task[p].pc \in {"loop", "enqueue", "wake", "await", "arm"} =>
         \A t \in task[p].snap : Due(t, DayOf(task[p].at)) <= task[p].at => Taken(p, t)

\* When a topic is to be scheduled next.
NextDue(t) == IF job[<<t, DayOf(now)>>] = "none" THEN Due(t, DayOf(now)) ELSE Due(t, DayOf(now) + 1)

Armed == \A t \in on : \E at \in timer : at <= now \/ at <= NextDue(t)

\* The timer is armed, or a refresh is under way that will arm it.
Tended ==
  \/ Armed
  \/ \E p \in Tasks : task[p].pc \in {"fired", "refresh"}
  \/ \E p \in Tasks : task[p].latest /\ task[p].pc = "inputs"
  \/ \E p \in Tasks : WillArm(p)

\* While the scheduling is on, or about to be again, it is tended; or it is
\* about to fail, to begin, or to be told of new settings.
KeptUp ==
  lifecycle = "active" /\ ~Quitting =>
    /\ \/ faulted \/ recon \/ Tended
       \/ \E p \in Tasks : task[p].pc \in {"asked", "launch", "reactivate", "block"}
    /\ Past => Tended

ArmingInv ==
  timer \subseteq Nat /\ OneFailure /\ Inactive /\ SnapsAreNew /\ DueIsTaken /\ KeptUp

\* The days follow one another, and a due time is within its day.
LEMMA DayBounds ==
  ASSUME NEW at \in 0 .. End
  PROVE  /\ DayOf(at) \in Nat
         /\ DayOf(at) * DayLength <= at /\ at < (DayOf(at) + 1) * DayLength
  BY DayAssumption, EndIsNat DEF DayOf

LEMMA DaysInOrder ==
  ASSUME NEW d \in Nat, NEW e \in Nat, d < e
  PROVE  (d + 1) * DayLength <= e * DayLength
<1>1. e - (d + 1) \in Nat /\ DayLength \in Nat
  BY DayAssumption
<1>2. (e - (d + 1)) * DayLength >= 0
  BY <1>1
<1>3. e * DayLength = (d + 1) * DayLength + (e - (d + 1)) * DayLength
  BY <1>1
<1> QED BY <1>1, <1>2, <1>3

LEMMA DueInItsDay ==
  ASSUME NEW t \in Topics, NEW d \in Nat
  PROVE  /\ Due(t, d) \in Nat /\ d * DayLength <= Due(t, d) /\ Due(t, d) < (d + 1) * DayLength
         /\ Due(t, d) <= Due(t, d + 1)
<1>1. DueAt[t] \in 0 .. DayLength - 1 /\ DayLength \in Nat \ {0}
  BY DayAssumption
<1>2. (d + 1) * DayLength = d * DayLength + DayLength /\ d * DayLength \in Nat
  BY <1>1
<1>3. (d + 1) * DayLength \in Nat
  BY <1>1
<1> QED BY <1>1, <1>2, <1>3 DEF Due

\* Later is not on an earlier day.
LEMMA LaterDay ==
  ASSUME NEW at \in 0 .. End, NEW then \in 0 .. End, at <= then
  PROVE  DayOf(at) <= DayOf(then)
<1>1. SUFFICES ASSUME DayOf(then) < DayOf(at) PROVE FALSE
  BY DayBounds
<1>2. (DayOf(then) + 1) * DayLength <= DayOf(at) * DayLength
  BY <1>1, DayBounds, DaysInOrder
<1>3. DayOf(at) * DayLength \in Nat /\ (DayOf(then) + 1) * DayLength \in Nat
  BY DayBounds, DayAssumption
<1> QED BY <1>2, <1>3, DayBounds, EndIsNat

\* Nothing that is scheduled is forgotten.
JobsStay == \A td \in Topics \X Days : job[td] # "none" => job'[td] # "none"

\* An armed timer stays in time: when its time has passed it fires at once,
\* and what is scheduled meanwhile is due later.
LEMMA ArmedStays ==
  ASSUME SchedulingInv, SchedulingInv', timer \subseteq Nat, Armed, JobsStay,
         on' \subseteq on, timer' = timer, now <= now'
  PROVE  Armed'
<1>1. SUFFICES ASSUME NEW t \in on'
               PROVE  \E at \in timer' : at <= now' \/ at <= NextDue(t)'
  BY DEF Armed
<1>2. t \in on /\ t \in Topics /\ now \in 0 .. End /\ now' \in 0 .. End
  BY <1>1 DEF SchedulingInv, Types
<1>3. PICK at \in timer : at <= now \/ at <= NextDue(t)
  BY <1>2 DEF Armed
<1> at \in Nat /\ at \in timer'
  OBVIOUS
<1> DEFINE d == DayOf(now)
           e == DayOf(now')
<1>4. d \in Days /\ e \in Days /\ d \in Nat /\ e \in Nat /\ d <= e
  BY <1>2, DayIsADay, DayBounds, LaterDay
<1>5. now < (d + 1) * DayLength /\ e * DayLength <= now'
  BY <1>2, DayBounds
<1>6. /\ Due(t, d) \in Nat /\ Due(t, d) < (d + 1) * DayLength /\ Due(t, d) <= Due(t, d + 1)
      /\ Due(t, d + 1) \in Nat /\ Due(t, e) \in Nat /\ Due(t, e) <= Due(t, e + 1)
      /\ d + 1 \in Nat /\ Due(t, d + 1) < (d + 1 + 1) * DayLength
      /\ Due(t, e + 1) \in Nat
  BY <1>2, <1>4, DueInItsDay
<1>7. NextDue(t) \in {Due(t, d), Due(t, d + 1)} /\ NextDue(t)' \in {Due(t, e), Due(t, e + 1)}
  BY DEF NextDue
<1> HIDE DEF d, e
<1>8. CASE d = e
  <2>1. NextDue(t) <= NextDue(t)'
    <3>1. job[<<t, d>>] # "none" => job'[<<t, d>>] # "none"
      BY <1>2, <1>4 DEF JobsStay
    <3>2. NextDue(t) = IF job[<<t, d>>] = "none" THEN Due(t, d) ELSE Due(t, d + 1)
      BY DEF NextDue, d
    <3>3. NextDue(t)' = IF job'[<<t, e>>] = "none" THEN Due(t, e) ELSE Due(t, e + 1)
      BY DEF NextDue, e
    <3> QED BY <1>6, <1>8, <3>1, <3>2, <3>3
  <2> QED BY <1>2, <1>3, <1>6, <1>7, <2>1
<1>9. CASE d < e
  <2>1. (d + 1) * DayLength <= e * DayLength
    BY <1>4, <1>9, DaysInOrder
  <2>2. Due(t, d) < now' /\ (d + 1) * DayLength \in Nat /\ e * DayLength \in Nat
    BY <1>2, <1>4, <1>5, <1>6, <2>1, DayAssumption, EndIsNat
  <2>3. CASE e = d + 1
    BY <1>2, <1>3, <1>6, <1>7, <2>2, <2>3
  <2>4. CASE d + 1 < e
    <3>1. (d + 1 + 1) * DayLength <= e * DayLength
      BY <1>4, <1>6, <2>4, DaysInOrder
    <3>2. (d + 1 + 1) * DayLength \in Nat /\ now' \in Nat
      BY <1>2, <1>4, DayAssumption, EndIsNat
    <3>3. Due(t, d + 1) <= now'
      BY <1>5, <1>6, <2>2, <3>1, <3>2
    <3> QED BY <1>2, <1>3, <1>6, <1>7, <2>2, <3>2, <3>3
  <2> QED BY <1>4, <1>9, <2>3, <2>4
<1> QED BY <1>4, <1>8, <1>9

\* What is left of a refresh by a step in which nothing fails or recovers, no
\* settings are read, and nobody stops the coordinator.
CalmTask(q) ==
  /\ Recovers(q)' <=> Recovers(q)
  /\ Recovers(q) => task'[q].pc \in Recovery
  /\ Fails(q)' <=> Fails(q)
  /\ Fails(q) => /\ task'[q].pc = "block" <=> task[q].pc = "block"
                 /\ task'[q].told = task[q].told
  /\ task'[q].told => task'[q].pc \in {"block", "barrier", "cancel"}
  /\ task'[q].pc = "validate" <=> task[q].pc = "validate"
  /\ task'[q].pc = "reactivate" <=> task[q].pc = "reactivate"
  /\ task[q].pc \in {"idle", "asked"} => task'[q].pc \in {"idle", "asked"}
  /\ task[q].pc = "asked" => task'[q].pc = "asked"
  /\ task[q].pc = "launch" => task'[q].pc \in {"launch", "asked"}
  /\ lifecycle = "active" =>
       /\ task[q].pc = "refresh" => task'[q].pc = "refresh"
       /\ task[q].pc = "fired" => task'[q].pc \in {"fired", "refresh"}
       /\ task[q].latest /\ task[q].pc = "inputs" => task'[q].latest /\ task'[q].pc = "inputs"
       /\ WillArm(q) => WillArm(q)'
       /\ Recovers(q) /\ task'[q].pc \in Refreshing => task[q].pc \in Refreshing
  /\ WillArm(q)' =>
       /\ WillArm(q) /\ task'[q].snap = task[q].snap /\ task'[q].at = task[q].at
       /\ task'[q].pc = "evaluate" <=> task[q].pc = "evaluate"
       /\ task'[q].pc = "jobs" <=> task[q].pc = "jobs"
       /\ \A t \in task[q].snap : Taken(q, t) => Taken(q, t)'

Calm ==
  /\ UNCHANGED <<on, timer, lifecycle, failures, recon, faulted>> /\ now <= now' /\ JobsStay
  /\ drain' \in {"barrier", "cancel"} => drain \in {"barrier", "cancel"}
  /\ Quitting => Quitting'
  /\ \A q \in Tasks : CalmTask(q)

\* A calm step keeps what is known of the timer.
LEMMA CalmKeeps ==
  ASSUME SchedulingInv, SchedulingInv', ArmingInv, Calm
  PROVE  ArmingInv'
<1> USE DEF Calm
<1>1. OneFailure'
  BY DEF ArmingInv, OneFailure, CalmTask
<1>2. Inactive'
  <2>1. \A p \in Tasks : Resumes(p)' <=> Resumes(p)
    BY DEF CalmTask, Resumes
  <2>2. recon' /\ lifecycle' = "active" =>
          timer' = {} /\ \A p \in Tasks : task'[p].pc \in {"idle", "asked", "validate"}
    BY DEF ArmingInv, Inactive, CalmTask
  <2>3. \A p \in Tasks : Fails(p)' /\ (task'[p].pc = "block" => task'[p].told) => lifecycle' # "active"
    BY DEF ArmingInv, Inactive, CalmTask
  <2>4. faulted' /\ lifecycle' = "active" =>
          Quitting' \/ \E p \in Tasks : Resumes(p)' /\ task'[p].pc # "reactivate"
    BY <2>1 DEF ArmingInv, Inactive, CalmTask
  <2>5. \A p \in Tasks : task'[p].pc = "validate" => faulted' \/ recon'
    BY DEF ArmingInv, Inactive, CalmTask
  <2> QED BY <2>1, <2>2, <2>3, <2>4, <2>5 DEF ArmingInv, Inactive
<1>3. SnapsAreNew'
  <2>1. \A q \in Tasks : WillArm(q)' => lifecycle = "active"
    BY DEF SchedulingInv, OneLatest, WillArm
  <2>2. lifecycle = "active" /\ ToCome => ToCome'
    BY DEF ToCome, CalmTask
  <2> QED BY <2>1, <2>2 DEF ArmingInv, SnapsAreNew, CalmTask
<1>4. DueIsTaken'
  <2> SUFFICES ASSUME NEW p \in Tasks, WillArm(p)'
               PROVE  /\ task'[p].pc # "evaluate" => task'[p].at <= now'
                      /\ task'[p].pc \in {"loop", "enqueue", "wake", "await", "arm"} =>
                           \A t \in task'[p].snap :
                             Due(t, DayOf(task'[p].at)) <= task'[p].at => Taken(p, t)'
    BY DEF DueIsTaken
  <2>1. /\ WillArm(p) /\ task'[p].snap = task[p].snap /\ task'[p].at = task[p].at
        /\ task'[p].pc = "evaluate" <=> task[p].pc = "evaluate"
        /\ task'[p].pc = "jobs" <=> task[p].pc = "jobs"
        /\ \A t \in task[p].snap : Taken(p, t) => Taken(p, t)'
    BY DEF CalmTask
  <2>2. task[p].pc \in {"evaluate", "jobs", "loop", "enqueue", "wake", "await", "arm"}
    BY <2>1 DEF WillArm
  <2>3. task[p].at \in Int /\ now \in Int /\ now' \in Int
    BY EndIsNat DEF SchedulingInv, Types, TaskTypes, IsTask
  <2>4. task'[p].pc # "evaluate" => task'[p].at <= now'
    BY <2>1, <2>3 DEF ArmingInv, DueIsTaken
  <2>5. task'[p].pc \in {"loop", "enqueue", "wake", "await", "arm"} =>
          \A t \in task'[p].snap : Due(t, DayOf(task'[p].at)) <= task'[p].at => Taken(p, t)'
    BY <2>1, <2>2 DEF ArmingInv, DueIsTaken
  <2> QED BY <2>4, <2>5
<1>5. lifecycle = "active" /\ Tended => Tended'
  <2>1. Armed => Armed'
    BY ArmedStays DEF ArmingInv
  <2> QED BY <2>1 DEF Tended, CalmTask
<1>6. KeptUp'
  <2>1. lifecycle = "active" /\ Past' => Past
    BY DEF Past, CalmTask
  <2>2. \A p \in Tasks : task[p].pc \in {"asked", "launch", "reactivate", "block"} =>
                           task'[p].pc \in {"asked", "launch", "reactivate", "block"}
    BY DEF CalmTask, Fails
  <2> QED BY <1>5, <2>1, <2>2 DEF ArmingInv, KeptUp
<1> QED BY <1>1, <1>2, <1>3, <1>4, <1>6 DEF ArmingInv

\* A refresh that does not move is calm.
LEMMA Unmoved ==
  ASSUME SchedulingInv, OneFailure, JobsStay, NEW q \in Tasks, task'[q] = task[q]
  PROVE  CalmTask(q)
<1>1. \A t \in task[q].snap : Scheduled(t, task[q].at) => Scheduled(t, task[q].at)'
  BY DayIsADay DEF SchedulingInv, Types, TaskTypes, IsTask, JobsStay, Scheduled
<1>2. \A t \in task[q].snap : Taken(q, t) => Taken(q, t)'
  BY <1>1 DEF Taken
<1> QED BY <1>2 DEF CalmTask, Recovers, Fails, WillArm, OneFailure, Recovery

\* Steps in which one refresh moves, or none.
OneMoves(p) ==
  /\ UNCHANGED <<now, on, timer, lifecycle, failures, recon, faulted>> /\ JobsStay
  /\ drain' \in {"barrier", "cancel"} => drain \in {"barrier", "cancel"}
  /\ Quitting => Quitting'
  /\ \A q \in Tasks : q # p => task'[q] = task[q]

LEMMA OneMovesKeeps ==
  ASSUME SchedulingInv, SchedulingInv', ArmingInv, NEW p, OneMoves(p), p \in Tasks => CalmTask(p)
  PROVE  ArmingInv'
<1>1. \A q \in Tasks : CalmTask(q)
  BY Unmoved DEF ArmingInv, OneMoves
<1>2. now <= now'
  BY EndIsNat DEF SchedulingInv, Types, OneMoves
<1> QED BY <1>1, <1>2, CalmKeeps DEF Calm, OneMoves

\* What a refresh that moves on keeps.
LEMMA MovesTold ==
  ASSUME TaskTypes, NEW p \in Tasks, NEW pc, Move(p, pc)
  PROVE  task'[p].told = task[p].told
  BY DEF TaskTypes, IsTask, Move

\* Steps that take a refresh nearer to the timer, or give up one that could
\* not arm it.
Nearer(p, pc) ==
  \/ task[p].pc = "fired" /\ pc = "refresh"
  \/ task[p].pc = "refresh" /\ pc = "return" /\ lifecycle # "active"
  \/ task[p].pc = "evaluate" /\ pc = "return" /\ ~Current(p)
  \/ task[p].pc = "loop" /\ pc = "return" /\ lifecycle # "active"
  \/ task[p].pc = "loop" /\ pc \in {"wake", "arm"} /\ (task[p].todo = {} \/ ~Current(p))
  \/ task[p].pc = "wake" /\ pc \in {"await", "arm"}

LEMMA CalmMove ==
  ASSUME SchedulingInv, OneFailure, JobsStay, NEW p \in Tasks, NEW pc, Move(p, pc), Nearer(p, pc)
  PROVE  CalmTask(p)
<1>1. /\ task'[p].pc = pc /\ task'[p].by = task[p].by /\ task'[p].latest = task[p].latest
      /\ task'[p].snap = task[p].snap /\ task'[p].at = task[p].at
      /\ task'[p].todo = task[p].todo /\ task'[p].topic = task[p].topic
      /\ task'[p].told = task[p].told
  BY MovesOn, MovesTold DEF SchedulingInv, Types
<1>2. /\ task[p].latest => lifecycle = "active"
      /\ Recovers(p) => task[p].pc # "fired"
      /\ ~Fails(p) => ~task[p].told
  BY DEF SchedulingInv, OneLatest, Recovering, OneFailure, Fails
<1>3. \A t \in task[p].snap : Scheduled(t, task[p].at) => Scheduled(t, task[p].at)'
  BY <1>1, DayIsADay DEF SchedulingInv, Types, TaskTypes, IsTask, JobsStay, Scheduled
<1>4. CASE task[p].pc \in {"fired", "refresh"}
  BY <1>1, <1>2, <1>4 DEF CalmTask, Nearer, Recovers, Fails, WillArm, Refreshing, Recovery
<1>5. CASE task[p].pc \in {"evaluate", "loop", "wake"}
  <2>1. WillArm(p)' <=> WillArm(p)
    BY <1>1, <1>2, <1>5 DEF Nearer, WillArm, Current
  <2>2. WillArm(p) => \A t \in task[p].snap : Taken(p, t) => Taken(p, t)'
    BY <1>1, <1>2, <1>3, <1>5 DEF Nearer, Taken, WillArm, Current
  <2>3. WillArm(p) => task[p].pc # "evaluate"
    BY <1>1, <1>2, <1>5, <2>1 DEF Nearer, WillArm, Current
  <2> QED BY <1>1, <1>2, <1>5, <2>1, <2>2, <2>3 DEF CalmTask, Nearer, Recovers, Fails, Refreshing, Recovery
<1> QED BY <1>4, <1>5 DEF Nearer

\* A step that leaves the jobs alone forgets none.
LEMMA SameJobs == UNCHANGED job => JobsStay
  BY DEF JobsStay

\* Event keeps what is known of the timer.
LEMMA EventArms ==
  ASSUME SchedulingInv, SchedulingInv', ArmingInv, NEW p \in Tasks, Event(p)
  PROVE  ArmingInv'
<1>1. /\ task'[p] = Asked /\ \A q \in Tasks : q # p => task'[q] = task[q]
  BY Becomes, Fresh DEF Event, SchedulingInv, Types
<1>2. /\ task[p].pc = "idle" /\ task'[p].pc = "asked" /\ task'[p].by = "start" /\ ~task'[p].latest
      /\ ~task'[p].told
      /\ UNCHANGED <<now, on, job, lifecycle, timer, failures, drain, faulted, recon, quit>>
  BY <1>1, Fresh DEF Event, Begin, queueVars, coordVars, drainVars, shown, Asked, Idle
<1>3. OneMoves(p)
  BY <1>1, <1>2, SameJobs DEF OneMoves, Quitting
<1>4. CalmTask(p)
  BY <1>2 DEF CalmTask, Recovers, Fails, WillArm, SchedulingInv, Recovering
<1> QED BY <1>3, <1>4, OneMovesKeeps

\* RunOther keeps what is known of the timer.
LEMMA RunOtherArms ==
  ASSUME SchedulingInv, SchedulingInv', ArmingInv, RunOther
  PROVE  ArmingInv'
<1>1. /\ UNCHANGED <<now, on, job, task, lifecycle, timer, failures, faulted, recon, quit>>
      /\ drain' \in {"barrier", "cancel"} => drain \in {"barrier", "cancel"}
  BY DEF RunOther, RequestDrain, coordVars, shown, drainVars
<1>2. OneMoves("drain")
  BY <1>1, SameJobs DEF OneMoves, Quitting
<1> QED BY <1>2, NoTaskName, OneMovesKeeps

\* HandleTimerFire keeps what is known of the timer.
LEMMA HandleArms ==
  ASSUME SchedulingInv, SchedulingInv', ArmingInv, NEW p \in Tasks, HandleTimerFire(p)
  PROVE  ArmingInv'
<1>1. /\ Move(p, "refresh") /\ Nearer(p, "refresh")
      /\ UNCHANGED <<now, on, job, lifecycle, timer, failures, drain, faulted, recon, quit>>
  BY DEF HandleTimerFire, Nearer, clockVars, queueVars, coordVars, drainVars, shown
<1>2. OneMoves(p)
  BY <1>1, MovesOn, SameJobs DEF OneMoves, Quitting, SchedulingInv, Types
<1> QED BY <1>1, <1>2, CalmMove, OneMovesKeeps, SameJobs DEF ArmingInv

\* Wake keeps what is known of the timer.
LEMMA WakeArms ==
  ASSUME SchedulingInv, SchedulingInv', ArmingInv, NEW p \in Tasks, Wake(p)
  PROVE  ArmingInv'
<1>1. /\ drain' \in {"barrier", "cancel"} => drain \in {"barrier", "cancel"}
      /\ UNCHANGED <<now, on, job, lifecycle, timer, failures, faulted, recon, quit>>
      /\ task[p].pc = "wake" /\ \E pc \in {"arm", "await"} : Move(p, pc)
  BY DEF Wake, RequestDrain, clockVars, queueVars, coordVars, drainVars, shown
<1>2. PICK pc \in {"arm", "await"} : Move(p, pc)
  BY <1>1
<1>3. OneMoves(p) /\ Nearer(p, pc)
  BY <1>1, <1>2, MovesOn, SameJobs DEF OneMoves, Nearer, Quitting, SchedulingInv, Types
<1> QED BY <1>1, <1>2, <1>3, CalmMove, OneMovesKeeps, SameJobs DEF ArmingInv

\* EndLoop keeps what is known of the timer: the latest refresh goes on only
\* when it has nothing left to enqueue.
LEMMA EndLoopArms ==
  ASSUME SchedulingInv, SchedulingInv', ArmingInv, NEW p \in Tasks, EndLoop(p),
         UNCHANGED <<clockVars, inputs, queueVars, coordVars, drainVars, shown, quit>>
  PROVE  ArmingInv'
<1>1. UNCHANGED <<now, on, job, lifecycle, timer, failures, drain, faulted, recon, quit>>
  BY DEF clockVars, queueVars, coordVars, drainVars, shown
<1>2. PICK pc : Move(p, pc) /\ Nearer(p, pc)
  BY DEF EndLoop, Nearer
<1>3. OneMoves(p)
  BY <1>1, <1>2, MovesOn, SameJobs DEF OneMoves, Quitting, SchedulingInv, Types
<1> QED BY <1>1, <1>2, <1>3, CalmMove, OneMovesKeeps, SameJobs DEF ArmingInv

\* Enqueue keeps what is known of the timer: the topic is on its way.
LEMMA EnqueueArms ==
  ASSUME SchedulingInv, SchedulingInv', ArmingInv, NEW p \in Tasks, Enqueue(p),
         UNCHANGED <<clockVars, inputs, queueVars, coordVars, drainVars, shown, quit>>
  PROVE  ArmingInv'
<1>1. UNCHANGED <<now, on, job, lifecycle, timer, failures, drain, faulted, recon, quit>>
  BY DEF clockVars, queueVars, coordVars, drainVars, shown
<1>2. PICK t \in task[p].todo :
        task' = [task EXCEPT ![p].topic = {t}, ![p].todo = @ \ {t}, ![p].pc = "enqueue"]
  BY DEF Enqueue
<1>3. /\ task'[p].pc = "enqueue" /\ task'[p].by = task[p].by /\ task'[p].latest = task[p].latest
      /\ task'[p].snap = task[p].snap /\ task'[p].at = task[p].at /\ task'[p].told = task[p].told
      /\ task'[p].todo = task[p].todo \ {t} /\ task'[p].topic = {t}
      /\ \A q \in Tasks : q # p => task'[q] = task[q]
  BY <1>2 DEF SchedulingInv, Types, TaskTypes, IsTask
<1>4. task[p].pc = "loop" /\ task[p].latest
  BY DEF Enqueue, Current
<1>5. OneMoves(p)
  BY <1>1, <1>3, SameJobs DEF OneMoves, Quitting
<1>6. \A u \in task[p].snap : Taken(p, u) => Taken(p, u)'
  BY <1>1, <1>3, <1>4 DEF Taken, Scheduled
<1>7. CalmTask(p)
  BY <1>3, <1>4, <1>6 DEF CalmTask, Recovers, Fails, WillArm, Refreshing, Recovery, ArmingInv, OneFailure
<1> QED BY <1>5, <1>7, OneMovesKeeps

\* Change keeps what is known of the timer: the refresh that it asked for is
\* to come.
LEMMA ChangeArms ==
  ASSUME SchedulingInv, SchedulingInv', ArmingInv,
         NEW p \in Tasks, NEW topics \in SUBSET Topics, Change(p, topics)
  PROVE  ArmingInv'
<1>1. /\ task'[p] = Asked /\ \A q \in Tasks : q # p => task'[q] = task[q]
  BY Becomes, Fresh DEF Change, SchedulingInv, Types
<1>2. /\ task[p].pc = "idle" /\ task'[p].pc = "asked" /\ task'[p].by = "start" /\ ~task'[p].latest
      /\ ~task'[p].told
      /\ UNCHANGED <<now, job, lifecycle, timer, failures, drain, faulted, recon, quit>>
  BY <1>1, Fresh DEF Change, Begin, queueVars, coordVars, drainVars, shown, Asked, Idle
<1>3. \A q \in Tasks : task[q].pc \in {"idle", "launch", "asked", "fired", "report"}
  BY DEF Change, behaviorChangesBlocked, Admitted
<1>4. ~Recovers(p)
  BY <1>2 DEF SchedulingInv, Recovering
<1>5. OneFailure'
  BY <1>1, <1>2, <1>4 DEF ArmingInv, OneFailure, Fails, Recovers
<1>6. Inactive'
  BY <1>1, <1>2, <1>4 DEF ArmingInv, Inactive, Fails, Recovers, Resumes, Quitting
<1>7. \A q \in Tasks : ~WillArm(q)'
  BY <1>1, <1>2, <1>3 DEF WillArm
<1>8. \A q \in Tasks : Recovers(q)' => task'[q].pc = "report"
  BY <1>1, <1>2, <1>3 DEF SchedulingInv, Recovering, Recovers
<1>9. KeptUp'
  BY <1>2, <1>8 DEF KeptUp, Past, Refreshing
<1> QED BY <1>2, <1>5, <1>6, <1>7, <1>9 DEF ArmingInv, SnapsAreNew, DueIsTaken

\* StartScheduling keeps what is known of the timer: it only gives up what it
\* was asked for while a fault is shown, and then the recovery will refresh.
LEMMA StartArms ==
  ASSUME SchedulingInv, SchedulingInv', ArmingInv, NEW p \in Tasks, StartScheduling(p)
  PROVE  ArmingInv'
<1>1. /\ task[p].pc = "asked"
      /\ UNCHANGED <<now, on, job, lifecycle, timer, failures, drain, faulted, recon, quit>>
  BY DEF StartScheduling, clockVars, queueVars, coordVars, drainVars, shown
<1>2. /\ \A q \in Tasks : q # p => task'[q] = task[q]
      /\ \/ /\ Quitting \/ recon \/ faulted
            /\ task'[p] = Idle
         \/ /\ ~Quitting /\ ~recon /\ ~faulted
            /\ task'[p].pc = "refresh" /\ task'[p].by = task[p].by
            /\ task'[p].latest = task[p].latest /\ task'[p].told = task[p].told
  <2>1. CASE Quitting \/ recon \/ faulted
    BY <2>1, Becomes, Fresh DEF StartScheduling, SchedulingInv, Types
  <2>2. CASE ~(Quitting \/ recon \/ faulted)
    BY <2>2, MovesOn, MovesTold DEF StartScheduling, SchedulingInv, Types
  <2> QED BY <2>1, <2>2
<1>3. /\ task'[p].pc \in {"idle", "refresh"} /\ ~Recovers(p) /\ ~Recovers(p)' /\ ~task'[p].told
      /\ task'[p].pc = "refresh" => ~recon
  BY <1>1, <1>2, Fresh DEF SchedulingInv, Recovering, Recovers, ArmingInv, OneFailure, Idle
<1>4. OneFailure'
  BY <1>1, <1>2, <1>3 DEF ArmingInv, OneFailure, Fails, Recovers
<1>5. Inactive'
  <2>1. recon' /\ lifecycle' = "active" =>
          timer' = {} /\ \A q \in Tasks : task'[q].pc \in {"idle", "asked", "validate"}
    BY <1>1, <1>2, <1>3 DEF ArmingInv, Inactive
  <2>2. \A q \in Tasks : /\ Resumes(q)' <=> Resumes(q)
                         /\ Resumes(q) => task'[q].pc = task[q].pc
    BY <1>2, <1>3 DEF Resumes, Recovers
  <2> QED BY <1>1, <1>2, <1>3, <2>1, <2>2 DEF ArmingInv, Inactive, Fails, Quitting
<1>6. \A q \in Tasks : WillArm(q)' => WillArm(q) /\ q # p
  BY <1>1, <1>2, <1>3 DEF WillArm
<1>7. SnapsAreNew'
  <2> SUFFICES ASSUME ~Quitting, NEW q \in Tasks, WillArm(q), q # p
               PROVE  /\ task[q].snap = on \/ ToCome'
                      /\ task[q].snap = on \/ \A s \in Tasks : ~Recovers(s)'
    BY <1>1, <1>2, <1>6 DEF SnapsAreNew, Quitting
  <2>1. lifecycle = "active"
    BY DEF WillArm, SchedulingInv, OneLatest
  <2>2. \A s \in Tasks : Recovers(s)' => Recovers(s)
    BY <1>2, <1>3 DEF Recovers
  <2>3. recon \/ faulted => task[q].snap = on
    <3>1. ~recon
      BY <2>1 DEF ArmingInv, Inactive, WillArm
    <3>2. faulted => \E s \in Tasks : Recovers(s)
      BY <2>1 DEF ArmingInv, Inactive, Resumes
    <3> QED BY <3>1, <3>2 DEF ArmingInv, SnapsAreNew
  <2>4. ToCome => ToCome' \/ recon \/ faulted
    BY <1>1, <1>2 DEF ToCome
  <2> QED BY <2>2, <2>3, <2>4 DEF ArmingInv, SnapsAreNew
<1>8. DueIsTaken'
  <2>1. \A q \in Tasks : WillArm(q)' => WillArm(q) /\ task'[q] = task[q]
    BY <1>2, <1>6
  <2> QED BY <1>1, <2>1 DEF ArmingInv, DueIsTaken, Taken, Scheduled
<1>9. KeptUp'
  <2>1. Tended => Tended'
    <3>1. Armed => Armed'
      BY <1>1 DEF Armed, NextDue
    <3>2. \A q \in Tasks : WillArm(q) => WillArm(q)'
      BY <1>1, <1>2 DEF WillArm
    <3> QED BY <1>1, <1>2, <3>1, <3>2 DEF Tended
  <2>2. Past' => Past
    BY <1>2, <1>3 DEF Past, Recovers
  <2>3. CASE Quitting \/ recon \/ faulted
    BY <1>1, <2>1, <2>2, <2>3 DEF ArmingInv, KeptUp, Quitting
  <2>4. CASE ~(Quitting \/ recon \/ faulted)
    <3>1. Tended'
      BY <1>2, <2>4 DEF Tended
    <3> QED BY <3>1 DEF KeptUp
  <2> QED BY <2>3, <2>4
<1> QED BY <1>1, <1>4, <1>5, <1>7, <1>8, <1>9 DEF ArmingInv

\* Recover keeps what is known of the timer: what the failure began is over.
LEMMA RecoverArms ==
  ASSUME SchedulingInv, SchedulingInv', ArmingInv, NEW p \in Tasks, Recover(p)
  PROVE  ArmingInv'
<1> DEFINE r == [Idle EXCEPT !.pc = "validate", !.by = "recover"]
<1>1. IsTask(r) /\ r.pc = "validate" /\ r.by = "recover" /\ ~r.latest /\ ~r.told
  BY Fresh, EndIsNat DEF Idle, IsTask
<1>2. task' = [task EXCEPT ![p] = r]
  BY DEF Recover
<1> HIDE DEF r
<1>3. task'[p] = r /\ \A q \in Tasks : q # p => task'[q] = task[q]
  BY <1>1, <1>2, Becomes DEF SchedulingInv, Types
<1>4. /\ task[p].pc = "idle" /\ drain = "none" /\ (faulted \/ recon) /\ ~Quitting
      /\ UNCHANGED <<now, on, job, lifecycle, timer, failures, drain, faulted, recon, quit>>
      /\ \A q \in Tasks : task[q].pc \in {"idle", "launch", "asked", "fired", "report"}
  BY DEF Recover, Begin, Admitted, clockVars, queueVars, coordVars, drainVars, shown
<1>5. \A q \in Tasks : ~Fails(q) /\ ~Recovers(q) /\ ~WillArm(q)
  <2>1. \A q \in Tasks : ~Fails(q)
    BY <1>4 DEF ArmingInv, OneFailure, Fails
  <2> QED BY <1>4, <2>1 DEF Fails, SchedulingInv, Recovering, WillArm
<1>6. OneFailure'
  BY <1>1, <1>3, <1>4, <1>5 DEF ArmingInv, OneFailure, Fails, Recovers, Recovery
<1>7. Inactive'
  BY <1>1, <1>3, <1>4, <1>5 DEF ArmingInv, Inactive, Fails, Recovers, Resumes, Quitting
<1>8. \A q \in Tasks : ~WillArm(q)'
  BY <1>1, <1>3, <1>5 DEF WillArm
<1>9. KeptUp'
  BY <1>1, <1>3, <1>4, <1>5 DEF KeptUp, Past, Recovers, Refreshing
<1> QED BY <1>4, <1>6, <1>7, <1>8, <1>9 DEF ArmingInv, SnapsAreNew, DueIsTaken

\* Validate keeps what is known of the timer: it cannot fail any more.
LEMMA ValidateArms ==
  ASSUME MaxFailures <= 1, SchedulingInv, SchedulingInv', ArmingInv, NEW p \in Tasks, Validate(p)
  PROVE  ArmingInv'
<1>1. /\ task[p].pc = "validate" /\ Recovers(p) /\ ~task[p].told
      /\ UNCHANGED <<now, on, job, lifecycle, timer, drain, quit>>
  BY DEF Validate, SchedulingInv, Recovering, clockVars, coordVars, drainVars, ArmingInv, OneFailure
<1>2. /\ ~(failures < MaxFailures)
      /\ \A q \in Tasks : ~Fails(q) /\ (q # p => ~Recovers(q))
  BY <1>1, BoundAssumption DEF ArmingInv, OneFailure, SchedulingInv, Recovering
<1>3. /\ \A q \in Tasks : q # p => task'[q] = task[q]
      /\ failures' = failures /\ faulted' = faulted
      /\ \/ Quitting /\ task'[p] = Idle /\ recon' = recon
         \/ /\ task'[p].pc = "reactivate" /\ task'[p].by = task[p].by /\ task'[p].latest = task[p].latest
            /\ task'[p].told = task[p].told /\ recon' = FALSE
  <2>1. CASE Quitting /\ task' = [task EXCEPT ![p] = Idle] /\ UNCHANGED <<shown, inputs, failures>>
    BY <2>1, Becomes, Fresh DEF SchedulingInv, Types, shown
  <2>2. CASE Move(p, "reactivate") /\ recon' = FALSE /\ UNCHANGED <<faulted, failures>>
    BY <2>2, MovesOn, MovesTold DEF SchedulingInv, Types
  <2> QED BY <1>2, <2>1, <2>2 DEF Validate
<1>4. task'[p].pc \in {"idle", "reactivate"} /\ ~task'[p].told /\ (task'[p].pc = "idle" => ~Recovers(p)')
  BY <1>1, <1>3, Fresh DEF Idle, Recovers
<1>5. OneFailure'
  BY <1>1, <1>2, <1>3, <1>4 DEF ArmingInv, OneFailure, Fails, Recovers, Recovery
<1>6. \A q \in Tasks : ~Resumes(q)
  BY <1>1, <1>2 DEF Resumes
<1>7. Inactive'
  <2>1. \A q \in Tasks : ~Fails(q)'
    BY <1>2, <1>3, <1>4 DEF Fails
  <2>2. \A q \in Tasks : Resumes(q)' => ~recon'
    BY <1>2, <1>3, <1>4, Fresh DEF Resumes, Recovers
  <2>3. faulted /\ lifecycle = "active" => Quitting'
    BY <1>1, <1>6 DEF ArmingInv, Inactive, Quitting
  <2>4. recon' /\ lifecycle = "active" =>
          timer' = {} /\ \A q \in Tasks : task'[q].pc \in {"idle", "asked", "validate"}
    BY <1>1, <1>3, Fresh DEF ArmingInv, Inactive
  <2>5. \A q \in Tasks : task'[q].pc # "validate"
    BY <1>2, <1>3, <1>4 DEF SchedulingInv, Recovering
  <2> QED BY <1>1, <1>3, <2>1, <2>2, <2>3, <2>4, <2>5 DEF ArmingInv, Inactive
<1>8. \A q \in Tasks : WillArm(q)' => WillArm(q) /\ task'[q] = task[q]
  BY <1>3, <1>4 DEF WillArm
<1>9. SnapsAreNew'
  <2>1. \A q \in Tasks : ~Quitting /\ WillArm(q) => task[q].snap = on
    BY <1>1 DEF ArmingInv, SnapsAreNew
  <2> QED BY <1>1, <1>8, <2>1 DEF SnapsAreNew, Quitting
<1>10. DueIsTaken'
  BY <1>1, <1>8 DEF ArmingInv, DueIsTaken, Taken, Scheduled
<1>11. KeptUp'
  <2>1. ~Past'
    BY <1>2, <1>3, <1>4 DEF Past, Recovers, Refreshing
  <2>2. CASE Quitting
    BY <1>1, <2>2 DEF KeptUp, Quitting
  <2>3. CASE task'[p].pc = "reactivate"
    BY <2>1, <2>3 DEF KeptUp
  <2> QED BY <1>3, <2>2, <2>3
<1> QED BY <1>1, <1>5, <1>7, <1>9, <1>10, <1>11 DEF ArmingInv

\* Reactivate keeps what is known of the timer: its refresh is to come.
LEMMA ReactivateArms ==
  ASSUME SchedulingInv, SchedulingInv', ArmingInv, NEW p \in Tasks, Reactivate(p)
  PROVE  ArmingInv'
<1>1. /\ task[p].pc = "reactivate" /\ Recovers(p)
      /\ UNCHANGED <<now, on, job, timer, failures, drain, faulted, recon, quit>>
      /\ \/ Move(p, "return") /\ lifecycle' = lifecycle /\ Quitting
         \/ Move(p, "refresh") /\ lifecycle' = "active"
  BY DEF Reactivate, SchedulingInv, Recovering, Stopping, Quitting, clockVars, queueVars, drainVars, shown
<1>2. /\ \A q \in Tasks : q # p => task'[q] = task[q]
      /\ task'[p].pc \in {"return", "refresh"} /\ task'[p].by = task[p].by
      /\ task'[p].latest = task[p].latest /\ task'[p].told = task[p].told
      /\ Quitting \/ task'[p].pc = "refresh"
  BY <1>1, MovesOn, MovesTold DEF SchedulingInv, Types
<1>3. /\ \A q \in Tasks : ~Fails(q)
      /\ \A q \in Tasks : q # p => ~Recovers(q)
      /\ ~recon /\ drain \notin {"barrier", "cancel"} /\ ~task[p].told
  BY <1>1 DEF ArmingInv, OneFailure, Inactive, Resumes, SchedulingInv, Recovering
<1>4. OneFailure'
  BY <1>1, <1>2, <1>3 DEF ArmingInv, OneFailure, Fails, Recovers, Recovery, Refreshing
<1>5. Inactive'
  <2>1. \A q \in Tasks : ~Fails(q)'
    BY <1>2, <1>3 DEF Fails
  <2>2. Resumes(p)' /\ task'[p].pc # "reactivate"
    BY <1>1, <1>2 DEF Resumes, Recovers
  <2>3. \A q \in Tasks : task'[q].pc # "validate"
    BY <1>2, <1>3 DEF SchedulingInv, Recovering
  <2> QED BY <1>1, <1>3, <2>1, <2>2, <2>3 DEF Inactive
<1>6. \A q \in Tasks : WillArm(q)' => WillArm(q) /\ task'[q] = task[q]
  BY <1>2 DEF WillArm
<1>7. SnapsAreNew'
  <2>1. \A q \in Tasks : ~Quitting /\ WillArm(q) => task[q].snap = on
    BY <1>1 DEF ArmingInv, SnapsAreNew
  <2> QED BY <1>1, <1>6, <2>1 DEF SnapsAreNew, Quitting
<1>8. DueIsTaken'
  BY <1>1, <1>6 DEF ArmingInv, DueIsTaken, Taken, Scheduled
<1>9. KeptUp'
  BY <1>1, <1>2 DEF KeptUp, Tended, Quitting
<1> QED BY <1>1, <1>4, <1>5, <1>7, <1>8, <1>9 DEF ArmingInv

\* FireTimer keeps what is known of the timer: the refresh it fires is to come.
LEMMA FireArms ==
  ASSUME SchedulingInv, SchedulingInv', ArmingInv, NEW p \in Tasks, FireTimer(p)
  PROVE  ArmingInv'
<1> DEFINE r == [Idle EXCEPT !.pc = "fired", !.by = "timer"]
<1>1. IsTask(r) /\ r.pc = "fired" /\ r.by = "timer" /\ ~r.latest /\ ~r.told
  BY Fresh, EndIsNat DEF Idle, IsTask
<1>2. task' = [task EXCEPT ![p] = r]
  BY DEF FireTimer
<1> HIDE DEF r
<1>3. task'[p] = r /\ \A q \in Tasks : q # p => task'[q] = task[q]
  BY <1>1, <1>2, Becomes DEF SchedulingInv, Types
<1>4. /\ task[p].pc = "idle" /\ timer # {} /\ timer' = {}
      /\ UNCHANGED <<now, on, job, lifecycle, failures, drain, faulted, recon, quit>>
  BY DEF FireTimer, Begin, clockVars, queueVars, drainVars, shown
<1>5. ~Recovers(p) /\ ~Recovers(p)'
  BY <1>1, <1>3, <1>4 DEF SchedulingInv, Recovering, Recovers
<1>6. OneFailure'
  BY <1>1, <1>3, <1>4, <1>5 DEF ArmingInv, OneFailure, Fails, Recovers
<1>7. Inactive'
  <2>1. \A q \in Tasks : /\ Resumes(q)' <=> Resumes(q)
                         /\ Resumes(q) => task'[q].pc = task[q].pc
    BY <1>3, <1>5 DEF Resumes, Recovers
  <2> QED BY <1>1, <1>3, <1>4, <2>1 DEF ArmingInv, Inactive, Fails, Quitting
<1>8. \A q \in Tasks : WillArm(q)' => WillArm(q) /\ task'[q] = task[q]
  BY <1>1, <1>3 DEF WillArm
<1>9. SnapsAreNew'
  <2>1. ToCome => ToCome'
    BY <1>3, <1>4 DEF ToCome
  <2>2. \A q \in Tasks : Recovers(q)' => Recovers(q)
    BY <1>3, <1>5 DEF Recovers
  <2> QED BY <1>4, <1>8, <2>1, <2>2 DEF ArmingInv, SnapsAreNew, Quitting
<1>10. DueIsTaken'
  BY <1>4, <1>8 DEF ArmingInv, DueIsTaken, Taken, Scheduled
<1>11. KeptUp'
  BY <1>1, <1>3 DEF KeptUp, Tended
<1> QED BY <1>4, <1>6, <1>7, <1>9, <1>10, <1>11 DEF ArmingInv

\* A refresh that reads, asks or arms neither fails nor ends a recovery.
LEMMA RefreshesFails ==
  ASSUME SchedulingInv, OneFailure, Inactive, NEW p \in Tasks,
         task[p].pc \in Refreshing \cup {"refresh"}, task'[p].pc \in Refreshing,
         \A q \in Tasks : /\ task'[q].by = task[q].by /\ task'[q].told = task[q].told
                          /\ q # p => task'[q].pc = task[q].pc,
         UNCHANGED <<lifecycle, failures, drain, faulted, recon, quit>>
  PROVE  OneFailure' /\ Inactive'
<1>1. OneFailure'
  BY DEF OneFailure, Fails, Recovers, Recovery, Refreshing
<1>2. ~(recon /\ lifecycle = "active")
  BY DEF Inactive, Refreshing
<1>3. \A q \in Tasks : (Resumes(q)' <=> Resumes(q)) /\ (Fails(q)' <=> Fails(q))
  BY DEF Resumes, Recovers, Fails, Refreshing
<1>4. \A q \in Tasks : task'[q].pc \in {"block", "reactivate"} => task'[q].pc = task[q].pc
  BY DEF Refreshing
<1>5. \A q \in Tasks : Fails(q) => q # p
  BY DEF Fails, Refreshing
<1>6. faulted' /\ lifecycle' = "active" =>
        Quitting' \/ \E q \in Tasks : Resumes(q)' /\ task'[q].pc # "reactivate"
  BY <1>3, <1>4 DEF Inactive, Quitting
<1>7. \A q \in Tasks : Fails(q)' /\ (task'[q].pc = "block" => task'[q].told) => lifecycle' # "active"
  BY <1>3, <1>5 DEF Inactive
<1>8. \A q \in Tasks : task'[q].pc = "validate" => task[q].pc = "validate"
  BY DEF Refreshing
<1> QED BY <1>1, <1>2, <1>3, <1>6, <1>7, <1>8 DEF Inactive

\* A refresh that becomes the latest keeps what is known of the timer.
LEMMA BeginRefreshArms ==
  ASSUME SchedulingInv, SchedulingInv', ArmingInv, NEW p \in Tasks, BecomesLatest(p), failures' = failures
  PROVE  ArmingInv'
<1>1. /\ task'[p].pc = "inputs" /\ task'[p].latest
      /\ \A q \in Tasks : /\ task'[q].by = task[q].by /\ task'[q].told = task[q].told
                          /\ q # p => task'[q].pc = task[q].pc /\ ~task'[q].latest
  <2> DEFINE s == Superseded(task)
  <2>1. /\ DOMAIN s = Tasks
        /\ \A q \in Tasks : /\ DOMAIN s[q] = DOMAIN task[q] /\ ~s[q].latest
                            /\ s[q].pc = task[q].pc /\ s[q].by = task[q].by /\ s[q].told = task[q].told
    BY DEF SchedulingInv, Types, TaskTypes, IsTask, Superseded
  <2>2. task' = [s EXCEPT ![p].latest = TRUE, ![p].pc = "inputs"]
    BY DEF BecomesLatest
  <2> HIDE DEF s
  <2> QED BY <2>1, <2>2 DEF SchedulingInv, Types, TaskTypes, IsTask
<1>2. /\ task[p].pc = "refresh"
      /\ UNCHANGED <<now, on, inputs, job, lifecycle, timer, drain, faulted, recon, quit>>
  BY DEF BecomesLatest
<1>3. OneFailure' /\ Inactive'
  BY <1>1, <1>2, RefreshesFails DEF ArmingInv, Refreshing
<1>4. \A q \in Tasks : ~WillArm(q)'
  BY <1>1 DEF WillArm
<1>5. Tended'
  BY <1>1 DEF Tended
<1> QED BY <1>2, <1>3, <1>4, <1>5 DEF ArmingInv, SnapsAreNew, DueIsTaken, KeptUp

\* A step of one refresh on its way to the timer leaves it tended.
LEMMA StillTended ==
  ASSUME SchedulingInv, ArmingInv, NEW p \in Tasks, UNCHANGED <<now, on, job, lifecycle, timer, faulted, recon, quit>>,
         \A q \in Tasks : q # p => task'[q] = task[q],
         task'[p].by = task[p].by, task'[p].latest = task[p].latest,
         task[p].pc \in Refreshing, task'[p].pc \in Refreshing,
         task[p].latest /\ (task[p].pc = "inputs" \/ WillArm(p)) => WillArm(p)'
  PROVE  KeptUp'
<1>1. Tended => Tended'
  <2>1. Armed => Armed'
    BY DEF Armed, NextDue
  <2>2. \A q \in Tasks : q # p => (WillArm(q) => WillArm(q)')
    BY DEF WillArm
  <2>3. WillArm(p) => WillArm(p)'
    BY DEF WillArm
  <2> QED BY <2>1, <2>2, <2>3 DEF Tended, Refreshing
<1>2. Past' => Past
  BY DEF Past, Recovers
<1>3. \A q \in Tasks : task[q].pc \in {"asked", "launch", "reactivate", "block"} =>
                         task'[q].pc \in {"asked", "launch", "reactivate", "block"}
  BY DEF Refreshing
<1> QED BY <1>1, <1>2, <1>3 DEF ArmingInv, KeptUp, Quitting

\* A refresh that copies the inputs keeps what is known of the timer.
LEMMA ReadInputsArms ==
  ASSUME SchedulingInv, SchedulingInv', ArmingInv, NEW p \in Tasks, ReadsInputs(p), failures' = failures
  PROVE  ArmingInv'
<1>1. /\ task[p].pc = "inputs" /\ task'[p].pc = "evaluate" /\ task'[p].snap = inputs
      /\ task'[p].by = task[p].by /\ task'[p].latest = task[p].latest /\ task'[p].told = task[p].told
      /\ \A q \in Tasks : q # p => task'[q] = task[q]
  BY DEF ReadsInputs, SchedulingInv, Types, TaskTypes, IsTask
<1>2. UNCHANGED <<now, on, inputs, job, lifecycle, timer, drain, faulted, recon, quit>>
  BY DEF ReadsInputs
<1>3. OneFailure' /\ Inactive'
  BY <1>1, <1>2, RefreshesFails DEF ArmingInv, Refreshing
<1>4. \A q \in Tasks : WillArm(q)' /\ q # p => WillArm(q) /\ task'[q] = task[q]
  BY <1>1 DEF WillArm
<1>5. SnapsAreNew'
  <2>1. /\ ToCome => ToCome'
        /\ \A q \in Tasks : Recovers(q)' <=> Recovers(q)
    BY <1>1 DEF ToCome, Recovers
  <2>2. ASSUME ~Quitting, task[p].latest
        PROVE  (inputs = on \/ ToCome) /\ (inputs = on \/ \A q \in Tasks : ~Recovers(q))
    <3>1. lifecycle = "active"
      BY <2>2 DEF SchedulingInv, OneLatest
    <3>2. ~recon
      BY <1>1, <3>1 DEF ArmingInv, Inactive
    <3>3. (\E q \in Tasks : Recovers(q) /\ task[q].pc # "validate") => inputs = on
      BY DEF SchedulingInv, Recovering, ArmingInv, OneFailure, Recovery
    <3>4. faulted => inputs = on
      BY <2>2, <3>1, <3>3 DEF ArmingInv, Inactive, Resumes
    <3>5. inputs = on \/ ToCome
      BY <2>2, <3>4 DEF SchedulingInv, Follows, ToCome
    <3>6. ~faulted => \A q \in Tasks : task[q].pc # "validate"
      BY <3>2 DEF ArmingInv, Inactive
    <3> QED BY <3>3, <3>4, <3>5, <3>6
  <2>3. SUFFICES ASSUME ~Quitting, NEW q \in Tasks, WillArm(q)'
                 PROVE  /\ task'[q].snap = on \/ ToCome'
                        /\ task'[q].snap = on \/ \A s \in Tasks : ~Recovers(s)'
    BY <1>2 DEF SnapsAreNew, Quitting
  <2>4. CASE q = p
    BY <1>1, <2>1, <2>2, <2>3, <2>4 DEF WillArm
  <2>5. CASE q # p
    BY <1>4, <2>1, <2>3, <2>5 DEF ArmingInv, SnapsAreNew
  <2> QED BY <2>4, <2>5
<1>6. DueIsTaken'
  <2>1. \A q \in Tasks : q # p /\ WillArm(q)' => WillArm(q) /\ task'[q] = task[q]
    BY <1>4
  <2> QED BY <1>1, <1>2, <2>1 DEF ArmingInv, DueIsTaken, Taken, Scheduled
<1>7. KeptUp'
  BY <1>1, <1>2, StillTended DEF Refreshing, WillArm
<1> QED BY <1>2, <1>3, <1>5, <1>6, <1>7 DEF ArmingInv
\* What is left to show when the latest refresh gets on without arming.
LEMMA GoesOnArms ==
  ASSUME SchedulingInv, SchedulingInv', ArmingInv, NEW p \in Tasks,
         UNCHANGED <<now, on, job, lifecycle, timer, failures, drain, faulted, recon, quit>>,
         \A q \in Tasks : q # p => task'[q] = task[q],
         task'[p].by = task[p].by, task'[p].latest = task[p].latest, task'[p].told = task[p].told,
         task'[p].snap = task[p].snap,
         task[p].pc \in {"evaluate", "jobs"}, task'[p].pc \in {"jobs", "loop"},
         task[p].latest => task'[p].at <= now,
         task[p].latest /\ task'[p].pc = "loop" =>
           \A t \in task[p].snap : Due(t, DayOf(task'[p].at)) <= task'[p].at => Taken(p, t)'
  PROVE  ArmingInv'
<1>1. OneFailure' /\ Inactive'
  BY RefreshesFails DEF ArmingInv, Refreshing
<1>2. /\ WillArm(p)' <=> WillArm(p)
      /\ \A q \in Tasks : WillArm(q)' => WillArm(q) /\ task'[q].snap = task[q].snap
      /\ \A q \in Tasks : WillArm(q)' /\ q # p => WillArm(q) /\ task'[q] = task[q]
  BY DEF WillArm
<1>3. SnapsAreNew'
  <2>1. ToCome => ToCome'
    BY DEF ToCome
  <2>2. \A q \in Tasks : Recovers(q)' => Recovers(q)
    BY DEF Recovers
  <2> QED BY <1>2, <2>1, <2>2 DEF ArmingInv, SnapsAreNew, Quitting
<1>4. DueIsTaken'
  BY <1>2 DEF ArmingInv, DueIsTaken, Taken, Scheduled, WillArm
<1>5. KeptUp'
  BY <1>2, StillTended DEF Refreshing, WillArm
<1> QED BY <1>1, <1>3, <1>4, <1>5 DEF ArmingInv

\* A refresh that asks for the jobs keeps what is known of the timer.
LEMMA AskJobsArms ==
  ASSUME SchedulingInv, SchedulingInv', ArmingInv, NEW p \in Tasks, AsksJobs(p), failures' = failures
  PROVE  ArmingInv'
<1>1. /\ task[p].pc = "evaluate" /\ task'[p].pc = "jobs" /\ task'[p].at = now
      /\ task'[p].by = task[p].by /\ task'[p].latest = task[p].latest
      /\ task'[p].snap = task[p].snap /\ task'[p].told = task[p].told
      /\ \A q \in Tasks : q # p => task'[q] = task[q]
  BY DEF AsksJobs, SchedulingInv, Types, TaskTypes, IsTask
<1>2. /\ UNCHANGED <<now, on, job, lifecycle, timer, drain, faulted, recon, quit>>
      /\ task'[p].at <= now
  BY <1>1, EndIsNat DEF AsksJobs, SchedulingInv, Types
<1> QED BY <1>1, <1>2, GoesOnArms

\* ScheduleEvaluator: the next time of any schedule is a time.
LEMMA NextFireIsNat ==
  ASSUME NEW at \in 0 .. End, NEW snap \in SUBSET Topics
  PROVE  NextFire(snap, at) \subseteq Nat
<1> DEFINE d == DayOf(at)
           next(t) == IF Due(t, d) > at THEN Due(t, d) ELSE Due(t, d + 1)
           S == {next(t) : t \in snap}
<1>1. NextFire(snap, at) = IF snap = {} THEN {} ELSE {Min(S)}
  BY DEF NextFire
<1>2. d \in Nat /\ d + 1 \in Nat
  BY DayBounds
<1>3. \A t \in snap : next(t) \in Nat
  BY <1>2, DueInItsDay
<1> HIDE DEF next
<1>4. CASE snap # {}
  <2>1. S \subseteq Nat /\ S # {}
    BY <1>3, <1>4
  <2> QED BY <1>1, <2>1, MinIsLeast
<1> QED BY <1>1, <1>4

\* ScheduleEvaluator: the timer is armed for the next time of each topic of
\* the settings that were read, and what was due before is scheduled.
LEMMA ArmsInTime ==
  ASSUME SchedulingInv, DueIsTaken, NEW p \in Tasks, task[p].latest, task[p].pc = "arm",
         task[p].snap = on, UNCHANGED <<now, on, job>>, timer' = NextFire(task[p].snap, task[p].at)
  PROVE  timer' \subseteq Nat /\ Armed'
<1> DEFINE at == task[p].at
           d == DayOf(at)
           e == DayOf(now)
           next(t) == IF Due(t, d) > at THEN Due(t, d) ELSE Due(t, d + 1)
           S == {next(t) : t \in on}
<1>1. at \in 0 .. End /\ now \in 0 .. End /\ at <= now /\ on \subseteq Topics
  BY DEF SchedulingInv, Types, TaskTypes, IsTask, DueIsTaken, WillArm
<1>2. timer' = IF on = {} THEN {} ELSE {Min(S)}
  BY DEF NextFire
<1>3. \A t \in on : Due(t, d) <= at => job[<<t, d>>] # "none"
  BY DEF DueIsTaken, WillArm, Taken, Scheduled
<1>4. d \in Nat /\ e \in Nat /\ d <= e /\ e * DayLength <= now /\ at \in Nat /\ now \in Nat
  BY <1>1, DayBounds, LaterDay, EndIsNat
<1>5. ASSUME NEW t \in on
      PROVE  /\ Due(t, d) \in Nat /\ Due(t, d) <= Due(t, d + 1) /\ Due(t, d + 1) \in Nat
             /\ Due(t, e) \in Nat /\ Due(t, e) <= Due(t, e + 1) /\ Due(t, e + 1) \in Nat
             /\ d + 1 \in Nat /\ Due(t, d + 1) < (d + 1 + 1) * DayLength
  BY <1>1, <1>4, <1>5, DueInItsDay
<1> HIDE DEF at, d, e
<1>6. ASSUME NEW t \in on
      PROVE  next(t) \in Nat /\ \A m \in Nat : m <= next(t) => m <= now' \/ m <= NextDue(t)'
  <2>1. NextDue(t)' = IF job[<<t, e>>] = "none" THEN Due(t, e) ELSE Due(t, e + 1)
    BY DEF NextDue, e
  <2>2. next(t) \in Nat /\ next(t) <= Due(t, d + 1)
    BY <1>4, <1>5, <1>6
  <2>3. CASE d = e
    BY <1>3, <1>4, <1>5, <1>6, <2>1, <2>2, <2>3
  <2>4. CASE d + 1 = e
    BY <1>4, <1>5, <1>6, <2>1, <2>2, <2>4
  <2>5. CASE d + 1 < e
    <3>1. (d + 1 + 1) * DayLength <= e * DayLength
      BY <1>4, <1>5, <1>6, <2>5, DaysInOrder
    <3>2. (d + 1 + 1) * DayLength \in Nat /\ e * DayLength \in Nat
      BY <1>4, DayAssumption
    <3>3. Due(t, d + 1) <= now
      BY <1>4, <1>5, <1>6, <3>1, <3>2
    <3> QED BY <1>4, <1>5, <1>6, <2>2, <3>3
  <2> QED BY <1>4, <2>3, <2>4, <2>5
<1> HIDE DEF next
<1>7. CASE on = {}
  BY <1>2, <1>7 DEF Armed
<1>8. CASE on # {}
  <2>1. S \subseteq Nat /\ S # {}
    BY <1>6, <1>8
  <2>2. Min(S) \in S /\ \A x \in S : Min(S) <= x
    BY <2>1, MinIsLeast
  <2>3. Min(S) \in Nat /\ Min(S) \in timer'
    BY <1>2, <1>8, <2>1, <2>2
  <2>4. \A t \in on : Min(S) <= now' \/ Min(S) <= NextDue(t)'
    BY <1>6, <2>2, <2>3
  <2>5. Armed'
    BY <2>3, <2>4 DEF Armed
  <2> QED BY <1>2, <1>8, <2>3, <2>5
<1> QED BY <1>7, <1>8

\* A refresh that arms the timer: unless it worked from old settings, and
\* then another is to come, the timer fires in time.
LEMMA ArmArms ==
  ASSUME SchedulingInv, SchedulingInv', ArmingInv, NEW p \in Tasks,
         task[p].pc = "arm", Move(p, "return"),
         timer' = IF Current(p) THEN NextFire(task[p].snap, task[p].at) ELSE timer,
         UNCHANGED <<now, on, job, lifecycle, drain, faulted, recon, quit, failures>>
  PROVE  ArmingInv'
<1>1. /\ task'[p].pc = "return" /\ task'[p].by = task[p].by /\ task'[p].latest = task[p].latest
      /\ task'[p].told = task[p].told
      /\ \A q \in Tasks : q # p => task'[q] = task[q]
  BY MovesOn, MovesTold DEF SchedulingInv, Types
<1>2. task[p].latest => lifecycle = "active" /\ \A q \in Tasks : task[q].latest => q = p
  BY DEF SchedulingInv, OneLatest
<1>3. CASE ~task[p].latest
  <2>1. timer' = timer
    BY <1>3 DEF Current
  <2>2. CalmTask(p)
    BY <1>1, <1>3 DEF CalmTask, Recovers, Fails, WillArm, Refreshing, Recovery, ArmingInv, OneFailure
  <2>3. OneMoves(p)
    BY <1>1, <2>1, SameJobs DEF OneMoves, Quitting
  <2> QED BY <2>2, <2>3, OneMovesKeeps
<1>4. CASE task[p].latest
  <2>1. timer' = NextFire(task[p].snap, task[p].at)
    BY <1>2, <1>4 DEF Current
  <2>2. OneFailure' /\ Inactive'
    BY <1>1, RefreshesFails DEF ArmingInv, Refreshing
  <2>3. \A q \in Tasks : ~WillArm(q)'
    BY <1>1, <1>2, <1>4 DEF WillArm
  <2>4. CASE task[p].snap = on
    <3>1. timer' \subseteq Nat /\ Armed'
      BY <1>4, <2>1, <2>4, ArmsInTime DEF ArmingInv
    <3>2. KeptUp'
      BY <3>1 DEF KeptUp, Tended
    <3> QED BY <2>2, <2>3, <3>1, <3>2 DEF ArmingInv, SnapsAreNew, DueIsTaken
  <2>5. CASE task[p].snap # on
    <3>1. timer' \subseteq Nat
      BY <1>4, <2>1, NextFireIsNat DEF SchedulingInv, Types, TaskTypes, IsTask
    <3>2. Quitting \/ (ToCome /\ \A q \in Tasks : ~Recovers(q))
      BY <1>4, <2>5 DEF ArmingInv, SnapsAreNew, WillArm
    <3>3. KeptUp'
      <4>1. CASE Quitting
        BY <4>1 DEF KeptUp, Quitting
      <4>2. CASE ToCome /\ \A q \in Tasks : ~Recovers(q)
        <5>1. ~Past'
          BY <1>1, <4>2 DEF Past, Recovers
        <5>2. PICK q \in Tasks : task'[q].pc \in {"asked", "refresh"}
          BY <1>1, <4>2 DEF ToCome
        <5> QED BY <5>1, <5>2 DEF KeptUp, Tended
      <4> QED BY <3>2, <4>1, <4>2
    <3> QED BY <2>2, <2>3, <3>1, <3>3 DEF ArmingInv, SnapsAreNew, DueIsTaken
  <2> QED BY <2>4, <2>5
<1> QED BY <1>3, <1>4

\* Refresh keeps what is known of the timer.
LEMMA RefreshArms ==
  ASSUME SchedulingInv, SchedulingInv', ArmingInv, NEW p \in Tasks, Refresh(p)
  PROVE  ArmingInv'
<1>1. UNCHANGED <<now, on, inputs, job, lifecycle, drain, faulted, recon, quit, failures>>
  BY DEF Refresh, clockVars, queueVars, drainVars, shown
<1>2. ASSUME Move(p, "return"), timer' = timer, Nearer(p, "return")
      PROVE  ArmingInv'
  <2>1. OneMoves(p)
    BY <1>1, <1>2, MovesOn, SameJobs DEF OneMoves, Quitting, SchedulingInv, Types
  <2> QED BY <1>1, <1>2, <2>1, CalmMove, OneMovesKeeps, SameJobs DEF ArmingInv
<1>3. CASE task[p].pc = "refresh"
  <2>1. CASE lifecycle = "active"
    <3>1. BecomesLatest(p)
      BY <1>1, <1>3, <2>1 DEF Refresh, BecomesLatest
    <3> QED BY <1>1, <3>1, BeginRefreshArms
  <2>2. CASE lifecycle # "active"
    BY <1>2, <1>3, <2>2 DEF Refresh, Nearer
  <2> QED BY <2>1, <2>2
<1>4. CASE task[p].pc = "inputs"
  <2>1. ReadsInputs(p)
    BY <1>1, <1>4 DEF Refresh, ReadsInputs
  <2> QED BY <1>1, <2>1, ReadInputsArms
<1>5. CASE task[p].pc = "evaluate"
  <2>1. CASE Current(p)
    <3>1. AsksJobs(p)
      BY <1>1, <1>5, <2>1 DEF Refresh, AsksJobs
    <3> QED BY <1>1, <3>1, AskJobsArms
  <2>2. CASE ~Current(p)
    BY <1>2, <1>5, <2>2 DEF Refresh, Nearer
  <2> QED BY <2>1, <2>2
<1>6. CASE task[p].pc = "arm"
  <2>1. /\ Move(p, "return")
        /\ timer' = IF Current(p) THEN NextFire(task[p].snap, task[p].at) ELSE timer
    BY <1>6 DEF Refresh
  <2> QED BY <1>1, <1>6, <2>1, ArmArms
<1> QED BY <1>3, <1>4, <1>5, <1>6 DEF Refresh

\* While the coordinator is not active nobody arms, and nobody need.
LEMMA InactiveArms ==
  ASSUME SchedulingInv', timer' \subseteq Nat, OneFailure', lifecycle' # "active",
         \A q \in Tasks : Resumes(q)' => ~recon',
         \A q \in Tasks : task'[q].pc = "validate" => faulted' \/ recon'
  PROVE  ArmingInv'
<1>1. \A q \in Tasks : ~WillArm(q)'
  BY DEF WillArm, SchedulingInv, OneLatest
<1>2. Inactive'
  BY DEF Inactive
<1> QED BY <1>1, <1>2 DEF ArmingInv, SnapsAreNew, DueIsTaken, KeptUp

\* Where nothing recovers, there is nothing to say of recoveries.
LEMMA NoRecovery ==
  ASSUME SchedulingInv', \A q \in Tasks : ~Recovers(q)'
  PROVE  /\ \A q \in Tasks : Resumes(q)' => ~recon'
         /\ \A q \in Tasks : task'[q].pc = "validate" => faulted' \/ recon'
  BY DEF SchedulingInv, Recovering, Resumes

\* Where a refresh goes that has been blocked.
LEMMA BlockedGoes ==
  ASSUME SchedulingInv, NEW p \in Tasks, task' = Blocked(p)
  PROVE  /\ \A q \in Tasks : q # p => task'[q] = task[q]
         /\ ~task'[p].told
         /\ task'[p].by \in {"start", task[p].by}
         /\ \/ task[p].told /\ task'[p].pc = "idle"
            \/ ~task[p].told /\ task'[p].pc = "report"
<1>1. CASE task[p].told
  <2>1. task' = [task EXCEPT ![p] = Idle]
    BY <1>1 DEF Blocked
  <2>2. task'[p] = Idle /\ \A q \in Tasks : q # p => task'[q] = task[q]
    BY <2>1, Becomes, Fresh DEF SchedulingInv, Types
  <2>3. Idle.pc = "idle" /\ Idle.by = "start" /\ ~Idle.told
    BY DEF Idle
  <2> QED BY <1>1, <2>2, <2>3
<1>2. CASE ~task[p].told
  <2>1. Move(p, "report")
    BY <1>2 DEF Blocked, Move, SchedulingInv, Types, TaskTypes
  <2> QED BY <1>2, <2>1, MovesOn, MovesTold DEF SchedulingInv, Types
<1> QED BY <1>1, <1>2

\* The refresh that has failed is on its way to show it, and alone.
LEMMA FailureGoesOn ==
  ASSUME SchedulingInv, OneFailure, NEW p \in Tasks, Fails(p),
         UNCHANGED <<failures, recon, drain>>,
         \A q \in Tasks : q # p => /\ task'[q].pc = task[q].pc /\ task'[q].told = task[q].told
                                   /\ task'[q].by = task[q].by,
         task'[p].by \in {"start", task[p].by}, Fails(p)' \/ task'[p].pc = "idle",
         task'[p].told => task'[p].pc \in {"block", "barrier", "cancel"},
         faulted' = faulted \/ faulted' = TRUE,
         Fails(p)' /\ ~task'[p].told => ~task[p].told /\ faulted' = faulted
  PROVE  OneFailure' /\ \A q \in Tasks : ~Recovers(q)'
<1>1. /\ failures = 1 /\ \A q \in Tasks : ~Recovers(q) /\ (Fails(q) => q = p)
  BY DEF OneFailure
<1>2. \A q \in Tasks : ~Recovers(q)' /\ (Fails(q)' => q = p)
  BY <1>1 DEF Recovers, Fails
<1>3. \A q \in Tasks : task'[q].told => task'[q].pc \in {"block", "barrier", "cancel"}
  BY DEF OneFailure
<1>4. \A q \in Tasks : Fails(q)' /\ ~task'[q].told => ~faulted' /\ ~recon'
  BY <1>2 DEF OneFailure
<1> QED BY <1>1, <1>2, <1>3, <1>4 DEF OneFailure

\* Block keeps what is known of the timer.
LEMMA BlockArms ==
  ASSUME SchedulingInv, SchedulingInv', ArmingInv, NEW p \in Tasks, Block(p)
  PROVE  ArmingInv'
<1>1. /\ task[p].pc = "block" /\ Fails(p)
      /\ UNCHANGED <<timer, drain, faulted, recon, failures>>
  BY DEF Block, Fails, queueVars, drainVars, shown
<1>2. CASE lifecycle = "stopped"
  <2>1. task' = Blocked(p) /\ lifecycle' = "stopped"
    BY <1>2 DEF Block
  <2>2. /\ \A q \in Tasks : q # p => task'[q] = task[q]
        /\ ~task'[p].told /\ task'[p].by \in {"start", task[p].by}
        /\ \/ task[p].told /\ task'[p].pc = "idle"
           \/ ~task[p].told /\ task'[p].pc = "report"
    BY <2>1, BlockedGoes
  <2>3. OneFailure' /\ \A q \in Tasks : ~Recovers(q)'
    BY <1>1, <2>2, FailureGoesOn DEF ArmingInv, Fails
  <2> QED BY <1>1, <2>1, <2>3, NoRecovery, InactiveArms DEF ArmingInv
<1>3. CASE lifecycle # "stopped"
  <2> DEFINE s == Superseded(task)
  <2>1. /\ DOMAIN s = Tasks
        /\ \A q \in Tasks : /\ DOMAIN s[q] = DOMAIN task[q]
                            /\ s[q].pc = task[q].pc /\ s[q].by = task[q].by /\ s[q].told = task[q].told
    BY DEF SchedulingInv, Types, TaskTypes, IsTask, Superseded
  <2>2. task' = [s EXCEPT ![p].pc = "barrier"] /\ lifecycle' = "blocked"
    BY <1>3 DEF Block, Close
  <2> HIDE DEF s
  <2>3. /\ \A q \in Tasks : /\ task'[q].by = task[q].by /\ task'[q].told = task[q].told
                            /\ q # p => task'[q].pc = task[q].pc
        /\ task'[p].pc = "barrier"
    BY <2>1, <2>2 DEF SchedulingInv, Types, TaskTypes, IsTask
  <2>4. OneFailure' /\ \A q \in Tasks : ~Recovers(q)'
    BY <1>1, <2>3, FailureGoesOn DEF ArmingInv, Fails
  <2> QED BY <1>1, <2>2, <2>4, NoRecovery, InactiveArms DEF ArmingInv
<1> QED BY <1>2, <1>3

\* CancelTimer keeps what is known of the timer: the coordinator is inactive.
LEMMA CancelArms ==
  ASSUME SchedulingInv, SchedulingInv', ArmingInv, NEW p \in Tasks, CancelTimer(p)
  PROVE  ArmingInv'
<1>1. /\ task[p].pc = "cancel" /\ Fails(p) /\ timer' = {} /\ task' = Blocked(p)
      /\ UNCHANGED <<lifecycle, drain, faulted, recon, failures>>
  BY DEF CancelTimer, Fails, queueVars, drainVars, shown
<1>2. lifecycle # "active"
  BY <1>1 DEF ArmingInv, Inactive
<1>3. /\ \A q \in Tasks : q # p => task'[q] = task[q]
      /\ ~task'[p].told /\ task'[p].by \in {"start", task[p].by}
      /\ \/ task[p].told /\ task'[p].pc = "idle"
         \/ ~task[p].told /\ task'[p].pc = "report"
  BY <1>1, BlockedGoes
<1>4. OneFailure' /\ \A q \in Tasks : ~Recovers(q)'
  BY <1>1, <1>3, FailureGoesOn DEF ArmingInv, Fails
<1> QED BY <1>1, <1>2, <1>4, NoRecovery, InactiveArms

\* ReportFailure keeps what is known of the timer: the coordinator is inactive.
LEMMA ReportArms ==
  ASSUME SchedulingInv, SchedulingInv', ArmingInv, NEW p \in Tasks, ReportFailure(p)
  PROVE  ArmingInv'
<1>1. /\ task[p].pc = "report" /\ Fails(p) /\ faulted' = TRUE
      /\ UNCHANGED <<lifecycle, timer, drain, recon, failures>>
  BY DEF ReportFailure, Report, Fails, queueVars, coordVars, drainVars
<1>2. lifecycle # "active"
  BY <1>1 DEF ArmingInv, Inactive
<1>3. /\ \A q \in Tasks : q # p => task'[q] = task[q]
      /\ task'[p].by \in {"start", task[p].by}
      /\ \/ task'[p].pc = "idle" /\ ~task'[p].told
         \/ task'[p].pc = "block" /\ task'[p].told
  <2>1. CASE task[p].by = "timer"
    <3>1. task' = [task EXCEPT ![p] = Idle]
      BY <2>1 DEF ReportFailure, Report
    <3>2. task'[p] = Idle /\ \A q \in Tasks : q # p => task'[q] = task[q]
      BY <3>1, Becomes, Fresh DEF SchedulingInv, Types
    <3>3. Idle.pc = "idle" /\ Idle.by = "start" /\ ~Idle.told
      BY DEF Idle
    <3> QED BY <3>2, <3>3
  <2>2. CASE task[p].by # "timer"
    <3>1. task' = [task EXCEPT ![p] = [@ EXCEPT !.pc = "block", !.told = TRUE]]
      BY <2>2 DEF ReportFailure, Report
    <3> QED BY <3>1 DEF SchedulingInv, Types, TaskTypes, IsTask
  <2> QED BY <2>1, <2>2
<1>4. OneFailure' /\ \A q \in Tasks : ~Recovers(q)'
  BY <1>1, <1>3, FailureGoesOn DEF ArmingInv, Fails
<1> QED BY <1>1, <1>2, <1>4, NoRecovery, InactiveArms DEF ArmingInv

\* Return keeps what is known of the timer: the fault is taken back when the
\* refresh of the recovery has armed it.
LEMMA ReturnArms ==
  ASSUME SchedulingInv, SchedulingInv', ArmingInv, NEW p \in Tasks, Return(p)
  PROVE  ArmingInv'
<1>1. /\ task[p].pc = "return" /\ task' = [task EXCEPT ![p] = Idle]
      /\ UNCHANGED <<now, on, job, lifecycle, timer, failures, recon, quit>>
      /\ drain' \in {"barrier", "cancel"} => drain \in {"barrier", "cancel"}
      /\ Recovers(p) /\ ~Quitting => faulted' = FALSE
      /\ ~(Recovers(p) /\ ~Quitting) => faulted' = faulted
  BY DEF Return, RequestDrain, Recovers, clockVars, queueVars, coordVars, drainVars
<1>2. task'[p] = Idle /\ \A q \in Tasks : q # p => task'[q] = task[q]
  BY <1>1, Becomes, Fresh DEF SchedulingInv, Types
<1>3. Idle.pc = "idle" /\ Idle.by = "start" /\ ~Idle.latest /\ ~Idle.told
  BY DEF Idle
<1>4. \A q \in Tasks : /\ Recovers(q)' <=> Recovers(q) /\ q # p
                       /\ Fails(q)' <=> Fails(q)
                       /\ Fails(q) => q # p
  BY <1>1, <1>2, <1>3 DEF Recovers, Fails
<1>5. OneFailure'
  <2>1. \A q \in Tasks : task'[q].told => task'[q].pc \in {"block", "barrier", "cancel"}
    BY <1>2, <1>3 DEF ArmingInv, OneFailure
  <2>2. \A q \in Tasks : Recovers(q)' => task'[q].pc \in Recovery
    BY <1>2, <1>4 DEF ArmingInv, OneFailure
  <2>3. faulted' => faulted
    BY <1>1
  <2>4. \A q \in Tasks : Fails(q)' /\ ~task'[q].told => ~faulted' /\ ~recon'
    BY <1>1, <1>2, <1>4, <2>3 DEF ArmingInv, OneFailure
  <2> QED BY <1>1, <1>4, <2>1, <2>2, <2>3, <2>4 DEF ArmingInv, OneFailure
<1>6. Inactive'
  <2>1. \A q \in Tasks : Resumes(q)' <=> Resumes(q) /\ q # p
    BY <1>2, <1>4 DEF Resumes
  <2>2. ~(recon /\ lifecycle = "active")
    BY <1>1 DEF ArmingInv, Inactive
  <2>3. \A q \in Tasks : task'[q].pc = "validate" => faulted' \/ recon'
    <3>1. \A q \in Tasks : task'[q].pc = "validate" => q # p /\ task[q].pc = "validate" /\ Recovers(q)
      BY <1>2, <1>3 DEF SchedulingInv, Recovering
    <3>2. \A q \in Tasks : Recovers(p) /\ Recovers(q) => q = p
      BY DEF SchedulingInv, Recovering
    <3> QED BY <1>1, <3>1, <3>2 DEF ArmingInv, Inactive
  <2>4. faulted' /\ lifecycle' = "active" =>
          Quitting' \/ \E q \in Tasks : Resumes(q)' /\ task'[q].pc # "reactivate"
    <3>1. SUFFICES ASSUME faulted', lifecycle = "active", ~Quitting
                   PROVE  \E q \in Tasks : Resumes(q)' /\ task'[q].pc # "reactivate"
      BY <1>1 DEF Quitting
    <3>2. faulted /\ ~Recovers(p)
      BY <1>1, <3>1
    <3>3. PICK q \in Tasks : Resumes(q) /\ task[q].pc # "reactivate"
      BY <3>1, <3>2 DEF ArmingInv, Inactive
    <3>4. q # p
      BY <3>2, <3>3 DEF Resumes
    <3> QED BY <1>2, <2>1, <3>3, <3>4
  <2>5. \A q \in Tasks : Fails(q)' /\ (task'[q].pc = "block" => task'[q].told) => lifecycle' # "active"
    BY <1>1, <1>2, <1>4 DEF ArmingInv, Inactive
  <2> QED BY <1>1, <2>1, <2>2, <2>3, <2>4, <2>5 DEF ArmingInv, Inactive
<1>7. \A q \in Tasks : WillArm(q)' <=> WillArm(q) /\ q # p
  BY <1>1, <1>2, <1>3 DEF WillArm
<1>8. SnapsAreNew'
  <2>1. ToCome => ToCome'
    BY <1>1, <1>2 DEF ToCome
  <2> QED BY <1>1, <1>2, <1>4, <1>7, <2>1 DEF ArmingInv, SnapsAreNew, Quitting
<1>9. DueIsTaken'
  BY <1>1, <1>2, <1>7 DEF ArmingInv, DueIsTaken, Taken, Scheduled
<1>10. KeptUp'
  <2>1. Tended => Tended'
    <3>1. Armed => Armed'
      BY <1>1 DEF Armed, NextDue
    <3>2. \A q \in Tasks : WillArm(q) => q # p
      BY <1>1 DEF WillArm
    <3> QED BY <1>1, <1>2, <1>7, <3>1, <3>2 DEF Tended
  <2>2. Past' => Past
    BY <1>2, <1>4 DEF Past
  <2>3. Recovers(p) => Past
    BY <1>1 DEF Past, Refreshing
  <2>4. \A q \in Tasks : task[q].pc \in {"asked", "launch", "reactivate", "block"} => task'[q] = task[q]
    BY <1>1, <1>2
  <2> QED BY <1>1, <2>1, <2>2, <2>3, <2>4 DEF ArmingInv, KeptUp, Quitting
<1> QED BY <1>1, <1>5, <1>6, <1>8, <1>9, <1>10 DEF ArmingInv

\* Loop keeps what is known of the timer.
LEMMA LoopArms ==
  ASSUME SchedulingInv, SchedulingInv', ArmingInv, NEW p \in Tasks, Loop(p)
  PROVE  ArmingInv'
  BY EnqueueArms, EndLoopArms DEF Loop

\* A step of no refresh, in which nothing fails, keeps what is known.
LEMMA NobodyMoves ==
  ASSUME SchedulingInv, SchedulingInv', ArmingInv,
         UNCHANGED <<now, on, task, timer, lifecycle, failures, recon, faulted>>, JobsStay,
         drain' \in {"barrier", "cancel"} => drain \in {"barrier", "cancel"},
         Quitting => Quitting'
  PROVE  ArmingInv'
<1>1. OneMoves("drain")
  BY DEF OneMoves
<1> QED BY <1>1, NoTaskName, OneMovesKeeps

\* A job that ends stays scheduled for its day.
LEMMA EndsStay ==
  ASSUME SchedulingInv, OneEnds \/ UNCHANGED <<job, other>>
  PROVE  JobsStay
<1>1. job \in [Topics \X Days -> {"none", "open", "ended"}]
  BY DEF SchedulingInv, Types
<1>2. job' = job \/ \E td \in Topics \X Days : job' = [job EXCEPT ![td] = "ended"]
  BY DEF OneEnds, Open
<1> QED BY <1>1, <1>2 DEF JobsStay

\* The queue's answer to a refresh that asked for its jobs: what is due and
\* not scheduled is to be enqueued.
LEMMA ServeJobsArms ==
  ASSUME SchedulingInv, SchedulingInv', ArmingInv, NEW p \in Tasks,
         UNCHANGED <<now, on, job, lifecycle, timer, failures, drain, faulted, recon, quit>>,
         task[p].pc = "jobs",
         task' = [task EXCEPT ![p].pc = "loop", ![p].todo = DueTopics(task[p].snap, task[p].at)]
  PROVE  ArmingInv'
<1> DEFINE due == DueTopics(task[p].snap, task[p].at)
<1>1. task' = [task EXCEPT ![p].pc = "loop", ![p].todo = due]
  OBVIOUS
<1>2. \A t \in task[p].snap :
        Due(t, DayOf(task[p].at)) <= task[p].at => t \in due \/ Scheduled(t, task[p].at)
  BY DEF DueTopics, Scheduled
<1> HIDE DEF due
<1>3. /\ task'[p].pc = "loop" /\ task'[p].todo = due /\ task'[p].at = task[p].at
      /\ task'[p].by = task[p].by /\ task'[p].latest = task[p].latest
      /\ task'[p].snap = task[p].snap /\ task'[p].told = task[p].told
      /\ \A q \in Tasks : q # p => task'[q] = task[q]
  BY <1>1 DEF SchedulingInv, Types, TaskTypes, IsTask
<1>4. \A t \in task[p].snap : Due(t, DayOf(task'[p].at)) <= task'[p].at => Taken(p, t)'
  BY <1>2, <1>3 DEF Taken, Scheduled
<1>5. task[p].latest => task'[p].at <= now
  BY <1>3 DEF ArmingInv, DueIsTaken, WillArm
<1> QED BY <1>3, <1>4, <1>5, GoesOnArms

\* The queue has scheduled the topic.
LEMMA ScheduledArms ==
  ASSUME SchedulingInv, SchedulingInv', ArmingInv, NEW p \in Tasks,
         UNCHANGED <<now, on, lifecycle, timer, failures, drain, faulted, recon, quit>>,
         task[p].pc = "enqueue", NEW u, task[p].topic = {u},
         job' = [job EXCEPT ![<<u, DayOf(task[p].at)>>] = "open"],
         \A q \in Tasks : q # p => task'[q] = task[q],
         task'[p].by = task[p].by, task'[p].latest = task[p].latest, task'[p].told = task[p].told,
         task'[p].snap = task[p].snap, task'[p].at = task[p].at, task'[p].todo = task[p].todo,
         task'[p].pc = "loop"
  PROVE  ArmingInv'
<1>1. /\ job \in [Topics \X Days -> {"none", "open", "ended"}]
      /\ task[p].snap \subseteq Topics /\ task[p].at \in 0 .. End
  BY DEF SchedulingInv, Types, TaskTypes, IsTask
<1>2. JobsStay
  BY <1>1 DEF JobsStay
<1>3. ASSUME NEW t \in task[p].snap, Taken(p, t)
      PROVE  Taken(p, t)'
  <2>1. <<t, DayOf(task[p].at)>> \in Topics \X Days
    BY <1>1, DayIsADay
  <2>2. Scheduled(t, task[p].at) \/ t = u => job'[<<t, DayOf(task[p].at)>>] # "none"
    BY <1>1, <1>2, <2>1 DEF JobsStay, Scheduled
  <2> QED BY <1>3, <2>2 DEF Taken, Scheduled
<1>4. CalmTask(p)
  BY <1>3 DEF CalmTask, Recovers, Fails, WillArm, Refreshing, Recovery, ArmingInv, OneFailure
<1>5. OneMoves(p)
  BY <1>2 DEF OneMoves, Quitting
<1> QED BY <1>4, <1>5, OneMovesKeeps

\* The one write that fails: the refresh is going to block the coordinator.
LEMMA EnqueueFailsArms ==
  ASSUME MaxFailures <= 1, SchedulingInv, SchedulingInv', ArmingInv, NEW p \in Tasks,
         UNCHANGED <<now, on, job, lifecycle, timer, drain, faulted, recon, quit>>,
         failures < MaxFailures, failures' = failures + 1,
         task[p].pc = "enqueue",
         \A q \in Tasks : q # p => task'[q] = task[q],
         task'[p].by = task[p].by, task'[p].told = task[p].told, task'[p].pc = "block"
  PROVE  ArmingInv'
<1>1. /\ failures' = 1 /\ failures' \in 0 .. MaxFailures
      /\ \A q \in Tasks : ~Fails(q) /\ ~Recovers(q) /\ ~task[q].told
      /\ drain \notin {"barrier", "cancel"} /\ ~faulted /\ ~recon
  BY BoundAssumption DEF ArmingInv, OneFailure, Fails
<1>2. \A q \in Tasks : ~Recovers(q)' /\ ~task'[q].told /\ (Fails(q)' => q = p)
  BY <1>1 DEF Recovers, Fails
<1>3. OneFailure'
  BY <1>1, <1>2 DEF OneFailure
<1>4. Inactive'
  <2>1. \A q \in Tasks : ~(Fails(q)' /\ (task'[q].pc = "block" => task'[q].told))
    BY <1>2
  <2> QED BY <1>1, <1>2, <2>1, NoRecovery DEF Inactive
<1>5. \A q \in Tasks : WillArm(q)' => WillArm(q) /\ task'[q] = task[q]
  BY DEF WillArm
<1>6. SnapsAreNew'
  <2>1. ToCome => ToCome'
    BY DEF ToCome
  <2> QED BY <1>2, <1>5, <2>1 DEF ArmingInv, SnapsAreNew, Quitting
<1>7. DueIsTaken'
  BY <1>5 DEF ArmingInv, DueIsTaken, Taken, Scheduled
<1>8. KeptUp'
  BY <1>2 DEF KeptUp, Past
<1> QED BY <1>3, <1>4, <1>6, <1>7, <1>8 DEF ArmingInv

\* Serve keeps what is known of the timer.
LEMMA ServeArms ==
  ASSUME MaxFailures <= 1, SchedulingInv, SchedulingInv', ArmingInv, Serve
  PROVE  ArmingInv'
<1>1. /\ mail # <<>> /\ UNCHANGED <<now, on, lifecycle, timer, faulted, recon>>
  BY DEF Serve, clockVars, coordVars, shown
<1>2. /\ Head(mail) \in Tasks \cup {"quit", "drain"} /\ Waits(mail, Head(mail))
  BY <1>1, MailShrinks DEF Serve
<1>3. CASE Head(mail) \in {"quit", "drain"}
  <2>1. /\ UNCHANGED <<task, job, failures>>
        /\ \/ Head(mail) = "quit" /\ quit' = "cancel" /\ drain' = drain
           \/ Head(mail) = "drain" /\ drain' = "cancel" /\ quit' = quit
    BY <1>3 DEF Serve
  <2>2. drain' \in {"barrier", "cancel"} => drain \in {"barrier", "cancel"}
    BY <1>2, <2>1 DEF SchedulingInv, Mailbox
  <2> QED BY <1>1, <2>1, <2>2, SameJobs, NobodyMoves DEF Quitting
<1>4. ASSUME NEW p \in Tasks, Head(mail) = p
      PROVE  ArmingInv'
  <2>1. p # "quit" /\ p # "drain" /\ task[p].pc \in InMail
    BY <1>2, <1>4, NoTaskName DEF SchedulingInv, Mailbox, InMail
  <2>2. /\ UNCHANGED <<quit, drain>>
        /\ task[p].pc = "jobs" =>
             /\ task' = [task EXCEPT ![p].pc = "loop", ![p].todo = DueTopics(task[p].snap, task[p].at)]
             /\ UNCHANGED <<job, failures>>
        /\ task[p].pc = "enqueue" => EnqueueServed(p)
        /\ task[p].pc = "barrier" => Move(p, "cancel") /\ UNCHANGED <<job, failures>>
    BY <1>4, <2>1 DEF Serve, InMail
  <2>3. CASE task[p].pc = "jobs"
    BY <1>1, <2>2, <2>3, ServeJobsArms
  <2>4. CASE task[p].pc = "enqueue"
    <3>1. PICK u \in Topics : task[p].topic = {u}
      BY <2>4 DEF SchedulingInv, Work, Enqueues
    <3>2. (CHOOSE x \in task[p].topic : TRUE) = u
      BY <3>1
    <3>3. DOMAIN task = Tasks /\ \A q \in Tasks : IsTask(task[q])
      BY DEF SchedulingInv, Types, TaskTypes
    <3>4. CASE /\ failures' = failures
               /\ job' = [job EXCEPT ![<<u, DayOf(task[p].at)>>] = "open"]
               /\ \/ task' = [task EXCEPT ![p].pc = "loop", ![p].topic = {}]
                  \/ task' = [[task EXCEPT ![p].pc = "loop", ![p].topic = {}] EXCEPT ![p].woke = TRUE]
      <4>1. /\ \A q \in Tasks : q # p => task'[q] = task[q]
            /\ task'[p].by = task[p].by /\ task'[p].latest = task[p].latest
            /\ task'[p].told = task[p].told /\ task'[p].snap = task[p].snap
            /\ task'[p].at = task[p].at /\ task'[p].todo = task[p].todo
            /\ task'[p].pc = "loop"
        BY <3>3, <3>4 DEF IsTask
      <4> QED BY <1>1, <2>2, <2>4, <3>1, <3>4, <4>1, ScheduledArms
    <3>5. CASE /\ failures < MaxFailures /\ failures' = failures + 1 /\ job' = job
               /\ task' = [task EXCEPT ![p].pc = "block", ![p].topic = {}]
      <4>1. /\ \A q \in Tasks : q # p => task'[q] = task[q]
            /\ task'[p].by = task[p].by /\ task'[p].told = task[p].told /\ task'[p].pc = "block"
        BY <3>3, <3>5 DEF IsTask
      <4> QED BY <1>1, <2>2, <2>4, <3>5, <4>1, EnqueueFailsArms
    <3>6. EnqueueServed(p)
      BY <2>2, <2>4
    <3> QED BY <3>2, <3>4, <3>5, <3>6 DEF EnqueueServed
  <2>5. CASE task[p].pc = "barrier"
    <3>1. Move(p, "cancel") /\ UNCHANGED <<job, failures>>
      BY <2>2, <2>5
    <3>2. /\ \A q \in Tasks : q # p => task'[q] = task[q]
          /\ task'[p].pc = "cancel" /\ task'[p].by = task[p].by /\ task'[p].told = task[p].told
      BY <3>1, MovesOn, MovesTold DEF SchedulingInv, Types
    <3>3. ~Recovers(p)
      BY <2>5 DEF ArmingInv, OneFailure, Recovery, Refreshing
    <3>4. CalmTask(p)
      BY <2>5, <3>2, <3>3 DEF CalmTask, Recovers, Fails, WillArm
    <3>5. OneMoves(p)
      BY <1>1, <2>2, <3>1, <3>2, SameJobs DEF OneMoves, Quitting
    <3> QED BY <3>4, <3>5, OneMovesKeeps
  <2> QED BY <2>1, <2>3, <2>4, <2>5 DEF InMail
<1> QED BY <1>2, <1>3, <1>4

\* DrainFails keeps what is known of the timer: no other write has failed, and
\* the coordinator is closed.
LEMMA DrainFailsArms ==
  ASSUME MaxFailures <= 1, SchedulingInv, SchedulingInv', ArmingInv, DrainFails
  PROVE  ArmingInv'
<1>1. /\ failures < MaxFailures /\ failures' = failures + 1
      /\ recon' = TRUE /\ faulted' = TRUE /\ timer' = timer
  BY DEF DrainFails
<1>2. /\ failures' = 1 /\ failures' \in 0 .. MaxFailures
      /\ \A q \in Tasks : ~Fails(q) /\ ~Recovers(q) /\ ~task[q].told
  BY <1>1, BoundAssumption DEF ArmingInv, OneFailure, Fails
<1>3. /\ lifecycle' # "active"
      /\ \A q \in Tasks : /\ task'[q].pc = task[q].pc /\ task'[q].by = task[q].by
                          /\ task'[q].told = task[q].told
  <2>1. CASE lifecycle = "stopped"
    BY <2>1 DEF DrainFails
  <2>2. CASE lifecycle # "stopped"
    <3>1. task' = Superseded(task) /\ lifecycle' = "blocked"
      BY <2>2 DEF DrainFails, Close
    <3> QED BY <3>1 DEF Superseded, SchedulingInv, Types, TaskTypes, IsTask
  <2> QED BY <2>1, <2>2
<1>4. \A q \in Tasks : ~Fails(q)' /\ ~Recovers(q)' /\ ~task'[q].told
  BY <1>2, <1>3 DEF Fails, Recovers
<1>5. OneFailure'
  BY <1>2, <1>4 DEF OneFailure
<1>6. timer' \subseteq Nat
  BY <1>1 DEF ArmingInv
<1> QED BY <1>3, <1>4, <1>5, <1>6, NoRecovery, InactiveArms

\* DrainExits keeps what is known of the timer.
LEMMA DrainExitsArms ==
  ASSUME SchedulingInv, SchedulingInv', ArmingInv, DrainExits
  PROVE  ArmingInv'
<1>1. /\ UNCHANGED <<now, on, job, lifecycle, timer, failures, faulted, recon, quit>>
      /\ drain' \notin {"barrier", "cancel"}
  BY DEF DrainExits, clockVars, queueVars, coordVars, shown
<1>2. ASSUME NEW q \in Tasks
      PROVE  CalmTask(q)
  <2>1. IsTask(task[q])
    BY DEF SchedulingInv, Types, TaskTypes
  <2>2. JobsStay
    BY <1>1, SameJobs
  <2>3. CASE task[q].pc = "await"
    <3>1. task'[q] = [task[q] EXCEPT !.pc = "arm"]
      BY <2>3 DEF DrainExits
    <3>2. /\ task'[q].pc = "arm" /\ task'[q].by = task[q].by /\ task'[q].latest = task[q].latest
          /\ task'[q].snap = task[q].snap /\ task'[q].at = task[q].at /\ task'[q].told = task[q].told
      BY <2>1, <3>1 DEF IsTask
    <3>3. \A t \in task[q].snap : Taken(q, t) => Taken(q, t)'
      BY <1>1, <2>3, <3>2 DEF Taken, Scheduled
    <3>4. ~task[q].told
      BY <2>3 DEF ArmingInv, OneFailure
    <3> QED BY <2>3, <3>2, <3>3, <3>4 DEF CalmTask, Recovers, Fails, WillArm, Refreshing, Recovery
  <2>4. CASE task[q].pc = "launch"
    <3>1. task'[q] = [task[q] EXCEPT !.pc = "asked"]
      BY <2>4 DEF DrainExits
    <3>2. /\ task'[q].pc = "asked" /\ task'[q].by = task[q].by /\ task'[q].told = task[q].told
      BY <2>1, <3>1 DEF IsTask
    <3>3. ~task[q].told /\ ~Recovers(q)
      BY <2>4 DEF ArmingInv, OneFailure, SchedulingInv, Recovering
    <3> QED BY <2>4, <3>2, <3>3 DEF CalmTask, Recovers, Fails, WillArm
  <2>5. CASE task[q].pc \notin {"await", "launch"}
    <3>1. task'[q] = task[q]
      BY <2>5 DEF DrainExits
    <3> QED BY <2>2, <3>1, Unmoved DEF ArmingInv
  <2> QED BY <2>3, <2>4, <2>5
<1>3. now <= now'
  BY <1>1, EndIsNat DEF SchedulingInv, Types
<1> QED BY <1>1, <1>2, <1>3, SameJobs, CalmKeeps DEF Calm, Quitting

\* The drain keeps what is known of the timer: it cancels one only after it
\* has closed the coordinator.
LEMMA DrainArms ==
  ASSUME SchedulingInv, SchedulingInv', ArmingInv, Drain
  PROVE  ArmingInv'
<1>1. CASE RunJob
  <2>1. /\ UNCHANGED <<now, on, task, timer, lifecycle, failures, recon, faulted, drain, quit>>
        /\ OneEnds
    BY <1>1 DEF RunJob, clockVars, coordVars, drainVars, shown
  <2> QED BY <2>1, EndsStay, NobodyMoves DEF Quitting
<1>2. CASE DrainCancelsTimer
  <2>1. /\ drain = "cancel" /\ drain' = "failed" /\ timer' = {}
        /\ UNCHANGED <<task, lifecycle, failures, recon, faulted>>
    BY <1>2 DEF DrainCancelsTimer, queueVars, shown
  <2>2. lifecycle' # "active" /\ \A q \in Tasks : ~Recovers(q)'
    BY <2>1 DEF ArmingInv, Inactive, OneFailure, Recovers
  <2>3. OneFailure'
    BY <2>1 DEF ArmingInv, OneFailure, Fails, Recovers
  <2> QED BY <2>1, <2>2, <2>3, NoRecovery, InactiveArms
<1>3. CASE DrainEnds
  <2>1. /\ UNCHANGED <<now, on, job, task, timer, lifecycle, failures, recon, faulted, quit>>
        /\ drain' = "ended"
    BY <1>3 DEF DrainEnds, clockVars, queueVars, coordVars, shown
  <2> QED BY <2>1, SameJobs, NobodyMoves DEF Quitting
<1> QED BY <1>1, <1>2, <1>3, DrainExitsArms DEF Drain

\* Quit keeps what is known of the timer.
LEMMA QuitArms ==
  ASSUME SchedulingInv, SchedulingInv', ArmingInv, Quit
  PROVE  ArmingInv'
<1>1. /\ UNCHANGED <<now, on, job, task, timer, lifecycle, failures, recon, faulted, drain>>
      /\ quit' = "stop"
  BY DEF Quit, clockVars, queueVars, coordVars, drainVars, shown
<1> QED BY <1>1, SameJobs, NobodyMoves DEF Quitting

\* StopScheduling keeps what is known of the timer: it closes the coordinator
\* for good.
LEMMA StopArms ==
  ASSUME SchedulingInv, SchedulingInv', ArmingInv, StopScheduling
  PROVE  ArmingInv'
<1>1. UNCHANGED <<failures, drain, faulted, recon>>
  BY DEF StopScheduling, queueVars, drainVars, shown
<1>2. /\ lifecycle' # "active" /\ timer' \in {timer, {}}
      /\ \A q \in Tasks : /\ task'[q].pc = task[q].pc /\ task'[q].by = task[q].by
                          /\ task'[q].told = task[q].told
  <2>1. CASE quit = "stop"
    <3>1. task' = Superseded(task) /\ lifecycle' = "stopped" /\ timer' = timer
      BY <2>1 DEF StopScheduling, Stop, Close
    <3> QED BY <3>1 DEF Superseded, SchedulingInv, Types, TaskTypes, IsTask
  <2>2. CASE quit = "cancel"
    BY <2>2 DEF StopScheduling, Stop, SchedulingInv, Stopping
  <2> QED BY <2>1, <2>2 DEF StopScheduling, Stop
<1>3. \A q \in Tasks : /\ Fails(q)' <=> Fails(q)
                       /\ Recovers(q)' <=> Recovers(q)
                       /\ Resumes(q)' <=> Resumes(q)
  BY <1>2 DEF Fails, Recovers, Resumes
<1>4. OneFailure'
  BY <1>1, <1>2, <1>3 DEF ArmingInv, OneFailure
<1>5. /\ \A q \in Tasks : Resumes(q)' => ~recon'
      /\ \A q \in Tasks : task'[q].pc = "validate" => faulted' \/ recon'
      /\ timer' \subseteq Nat
  BY <1>1, <1>2, <1>3 DEF ArmingInv, Inactive
<1> QED BY <1>2, <1>4, <1>5, InactiveArms

\* Tick keeps what is known of the timer.
LEMMA TickArms ==
  ASSUME SchedulingInv, SchedulingInv', ArmingInv, Tick
  PROVE  ArmingInv'
<1>1. /\ UNCHANGED <<on, job, task, timer, lifecycle, failures, recon, faulted, drain, quit>>
      /\ now <= now'
  BY EndIsNat DEF Tick, queueVars, coordVars, drainVars, shown, SchedulingInv, Types
<1>2. \A q \in Tasks : CalmTask(q)
  BY <1>1, SameJobs, Unmoved DEF ArmingInv
<1> QED BY <1>1, <1>2, SameJobs, CalmKeeps DEF Calm, Quitting

\* What is known of the timer holds when the App was launched.
LEMMA ArmingInitially == Init => ArmingInv
<1>1. SUFFICES ASSUME Init PROVE ArmingInv
  OBVIOUS
<1>2. /\ failures \in {0, 1} /\ failures \in 0 .. MaxFailures /\ recon = (failures = 1)
      /\ faulted = FALSE /\ timer = {} /\ drain \in {"busy", "none"}
  BY <1>1 DEF Init
<1>3. /\ \A q \in Tasks : /\ task[q].pc \in {"idle", "launch", "asked"} /\ ~task[q].told
                          /\ task[q].by = "start" /\ ~task[q].latest
      /\ recon => \A q \in Tasks : task[q].pc = "idle"
      /\ ~recon => \E q \in Tasks : task[q].pc \in {"launch", "asked"}
  <2>1. PICK p \in Tasks :
          task = [q \in Tasks |-> IF q # p \/ recon THEN Idle
                                  ELSE [Asked EXCEPT !.pc = IF drain = "busy" THEN "launch" ELSE "asked"]]
    BY <1>1 DEF Init
  <2>2. PICK pc \in {"launch", "asked"} : pc = IF drain = "busy" THEN "launch" ELSE "asked"
    OBVIOUS
  <2> DEFINE r == [Asked EXCEPT !.pc = pc]
  <2>3. r.pc = pc /\ r.by = "start" /\ ~r.latest /\ ~r.told
    BY DEF Asked, Idle
  <2>4. Idle.pc = "idle" /\ Idle.by = "start" /\ ~Idle.latest /\ ~Idle.told
    BY DEF Idle
  <2>5. task = [q \in Tasks |-> IF q # p \/ recon THEN Idle ELSE r]
    BY <2>1, <2>2
  <2> HIDE DEF r
  <2> QED BY <1>2, <2>2, <2>3, <2>4, <2>5
<1>4. OneFailure
  BY <1>2, <1>3 DEF OneFailure, Fails, Recovers
<1>5. Inactive
  BY <1>2, <1>3 DEF Inactive, Fails, Resumes, Recovers
<1>6. \A q \in Tasks : ~WillArm(q)
  BY <1>3 DEF WillArm
<1>7. KeptUp
  BY <1>3 DEF KeptUp, Past, Recovers
<1> QED BY <1>2, <1>4, <1>5, <1>6, <1>7 DEF ArmingInv, SnapsAreNew, DueIsTaken

\* Every step keeps it, while one write fails at most.
LEMMA ArmingSteps ==
  ASSUME MaxFailures <= 1
  PROVE  SchedulingInv /\ ArmingInv /\ [Next]_vars => ArmingInv'
<1>1. SUFFICES ASSUME SchedulingInv, ArmingInv, [Next]_vars PROVE ArmingInv'
  OBVIOUS
<1>2. SchedulingInv'
  BY <1>1, SchedulingSteps
<1>3. CASE UNCHANGED vars
  <2>1. UNCHANGED <<now, on, job, task, timer, lifecycle, failures, recon, faulted, drain, quit>>
    BY <1>3 DEF vars
  <2> QED BY <1>1, <1>2, <2>1, SameJobs, NobodyMoves DEF Quitting
<1>4. CASE User
  BY <1>1, <1>2, <1>4, RunOtherArms, QuitArms, EventArms, RecoverArms, ChangeArms DEF User
<1>5. CASE \E p \in Tasks : Step(p)
  <2>1. PICK p \in Tasks : Step(p)
    BY <1>5
  <2> QED BY <1>1, <1>2, <2>1, StartArms, ValidateArms, ReactivateArms, HandleArms, RefreshArms, LoopArms,
             WakeArms, BlockArms, CancelArms, ReportArms, ReturnArms DEF Step
<1> QED BY <1>1, <1>2, <1>3, <1>4, <1>5, TickArms, FireArms, ServeArms, DrainArms, DrainFailsArms, StopArms
        DEF Next, Act, Timer

\* ScheduleCoordinator.refreshAdmitted: with any number of refreshes that
\* overtake one another, of topics, of days and of events, and a write that
\* fails, the timer that is left armed fires in time for every topic that is
\* on.  With a second failing write it is not so: see the README.
THEOREM ScheduleIsArmed ==
  ASSUME MaxFailures <= 1
  PROVE  Spec => []NextIsArmed
<1>1. SchedulingInv /\ ArmingInv /\ [Next]_vars => ArmingInv'
  BY ArmingSteps
<1>2. ArmingInv => NextIsArmed
  <2>1. SUFFICES ASSUME ArmingInv, Quiet, lifecycle = "active", ~faulted, ~recon
                 PROVE  Armed
    BY DEF NextIsArmed, Armed, NextDue
  <2>2. Tended
    BY <2>1 DEF ArmingInv, KeptUp, Quiet
  <2> QED BY <2>1, <2>2 DEF Tended, Quiet, WillArm
<1> QED BY <1>1, <1>2, ArmingInitially, SchedulingInvariant, PTL DEF Spec
=============================================================================
