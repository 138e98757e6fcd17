--------------------------- MODULE AlertForwarder ---------------------------
(***************************************************************************)
(* alert_forwarder.py: one process beside each IDS that follows the IDS's  *)
(* log and posts the alerts it finds to the API of a node.                 *)
(*                                                                         *)
(*   main               reads the log from its first line, makes an alert  *)
(*       of a line that names an attack type, and puts it on the queue     *)
(*   forwarder_worker   ten threads: each collects a batch from the queue, *)
(*       groups it by type, and posts group after group, three tries each  *)
(*   the API (external) handles a request or refuses it; the answer may    *)
(*       come after the two seconds the worker waits                       *)
(*                                                                         *)
(* An alert is the number of its line in the log.  The queue and a batch   *)
(* are FIFO and lines are read in order, so that both are sets of which    *)
(* the smallest number comes first.                                        *)
(***************************************************************************)
EXTENDS Integers, Sequences, FiniteSets

CONSTANTS
    Type,        \* ALERTS: the attack types
    Rank,        \* the position of each type in ALERTS
    Line,        \* what a line of the log may say, see LineType
    Worker,      \* the worker threads (10)
    QueueCap,    \* capacity of alert_queue (200 000)
    BatchCap,    \* most alerts of a batch (100)
    Tries,       \* tries of a request (3)
    MaxLines     \* bound on the lines of the log

\* A line holds the words "negative alert" or not, names types as ALERTS
\* spells them, and names types spelled with spaces or dashes.
LineType == [negative : BOOLEAN, names : SUBSET Type, spelled : SUBSET Type]

ASSUME AlertForwarderAssumption ==
    /\ IsFiniteSet(Type)
    /\ Rank \in [Type -> Nat]
    /\ \A t, u \in Type : Rank[t] = Rank[u] => t = u
    /\ Line \subseteq LineType
    /\ QueueCap \in Nat \ {0}
    /\ BatchCap \in Nat \ {0}
    /\ Tries \in Nat \ {0}
    /\ MaxLines \in Nat

VARIABLES
    log,        \* the lines main has read
    alerts,     \* history: the alerts main made
    held,       \* the alert main is putting on the queue
    queue,      \* alert_queue
    at,         \* where each worker is: it collects, posts or waits
    pending,    \* the alerts of each worker's batch that are not settled
    left,       \* retries of each worker
    inflight,   \* requests sent and neither handled nor lost
    received,   \* history: how often the API handled each alert
    posts,      \* history: how many tries each alert has used
    accepted,   \* history: alerts of requests answered 200, 201 or 202
    dropped     \* history: alerts given up after the last try

readerVars == <<log, alerts, held>>
apiVars    == <<inflight, received>>
settleVars == <<at, pending, left, accepted, dropped>>
forwarderVars == <<readerVars, queue, apiVars, posts, settleVars>>

-----------------------------------------------------------------------------
(* What a line says.                                                       *)

\* A recovery is recognised by the spelling of ALERTS only.
Named(line) == IF line.negative THEN line.names
                                ELSE line.names \cup line.spelled

\* Only the first type of ALERTS that the line names counts.
TypeOf(line) == CHOOSE t \in Named(line) : \A u \in Named(line) : Rank[t] <= Rank[u]

Oldest(S) == CHOOSE i \in S : \A j \in S : i <= j

\* by_type keeps the order in which the types first occur in the batch: the
\* group in turn is that of the oldest alert.
Group(w) == {i \in pending[w] : TypeOf(log[i]) = TypeOf(log[Oldest(pending[w])])}

\* Tries start at 1.
Request(w) == [by |-> w, alerts |-> Group(w), try |-> Tries - left[w] + 1]

-----------------------------------------------------------------------------
ForwarderInit ==
    /\ log = <<>> /\ alerts = {} /\ held = {}
    /\ queue = {}
    /\ at = [w \in Worker |-> "collect"]
    /\ pending = [w \in Worker |-> {}]
    /\ left = [w \in Worker |-> Tries]
    /\ inflight = {}
    /\ received = [i \in 1..MaxLines |-> 0]
    /\ posts = [i \in 1..MaxLines |-> 0]
    /\ accepted = {} /\ dropped = {}

-----------------------------------------------------------------------------
(* main.                                                                   *)

\* A recovery does not count while the file DISABLE_NEGATIVE_MARKER exists.
Ignored(line, disabled) == Named(line) = {} \/ (line.negative /\ disabled)

\* The IDS or ids_feedback_server.py has written another line: it is read,
\* and the marker is looked up.
Read(line, disabled) ==
    /\ held = {} /\ Len(log) < MaxLines
    /\ log' = Append(log, line)
    /\ held' = IF Ignored(line, disabled) THEN {} ELSE {Len(log')}
    /\ alerts' = alerts \cup held'
    /\ UNCHANGED <<queue, apiVars, posts, settleVars>>

\* alert_queue.put waits while the queue is full.
Put ==
    /\ held # {} /\ Cardinality(queue) < QueueCap
    /\ queue' = queue \cup held
    /\ held' = {}
    /\ UNCHANGED <<log, alerts, apiVars, posts, settleVars>>

-----------------------------------------------------------------------------
(* forwarder_worker.                                                       *)

\* get(timeout=1.0) for the first alert of a batch, get_nowait for the rest.
Get(w) ==
    /\ at[w] = "collect" /\ Cardinality(pending[w]) < BatchCap
    /\ queue # {}
    /\ pending' = [pending EXCEPT ![w] = @ \cup {Oldest(queue)}]
    /\ queue' = queue \ {Oldest(queue)}
    /\ UNCHANGED <<readerVars, apiVars, posts, at, left, accepted, dropped>>

\* The batch is full or get_nowait finds the queue empty.
Close(w) ==
    /\ at[w] = "collect" /\ pending[w] # {}
    /\ Cardinality(pending[w]) = BatchCap \/ queue = {}
    /\ at' = [at EXCEPT ![w] = "post"]
    /\ left' = [left EXCEPT ![w] = Tries]
    /\ UNCHANGED <<readerVars, queue, apiVars, posts, pending, accepted, dropped>>

\* Mutant: the tries are counted for the batch, not for each type.
NextGroup_SharesTries(w) ==
    /\ pending' = [pending EXCEPT ![w] = @ \ Group(w)]
    /\ at' = [at EXCEPT ![w] = IF pending'[w] = {} THEN "collect" ELSE "post"]
    /\ left' = [left EXCEPT ![w] = IF @ > 1 THEN @ - 1 ELSE 1]

\* Mutant: the first type that is settled ends the batch.
NextGroup_LeavesRest(w) ==
    /\ pending' = [pending EXCEPT ![w] = {}]
    /\ at' = [at EXCEPT ![w] = "collect"]
    /\ left' = [left EXCEPT ![w] = Tries]

\* The worker leaves this type and goes on to the next, with fresh tries, or
\* to the next batch.
NextGroup(w) ==
    /\ pending' = [pending EXCEPT ![w] = @ \ Group(w)]
    /\ at' = [at EXCEPT ![w] = IF pending'[w] = {} THEN "collect" ELSE "post"]
    /\ left' = [left EXCEPT ![w] = Tries]

CountIn(S, count) == [i \in DOMAIN count |-> IF i \in S THEN count[i] + 1 ELSE count[i]]

UseTry(w) == posts' = CountIn(Group(w), posts)

\* Mutant: the exception is not caught, and ends the worker with its batch.
TryFails_Ends(w) ==
    /\ at' = [at EXCEPT ![w] = "ended"]
    /\ UNCHANGED <<pending, left, accepted, dropped>>

\* Mutant: one try more than there are.
TryFails_OneMore(w) ==
    IF left[w] > 0
    THEN /\ left' = [left EXCEPT ![w] = @ - 1]
         /\ at' = [at EXCEPT ![w] = "post"]
         /\ UNCHANGED <<pending, accepted, dropped>>
    ELSE /\ dropped' = dropped \cup Group(w)
         /\ NextGroup(w)
         /\ UNCHANGED accepted

\* A try failed.  After the last one the alerts of this type are forgotten.
TryFails(w) ==
    IF left[w] > 1
    THEN /\ left' = [left EXCEPT ![w] = @ - 1]
         /\ at' = [at EXCEPT ![w] = "post"]
         /\ UNCHANGED <<pending, accepted, dropped>>
    ELSE /\ dropped' = dropped \cup Group(w)
         /\ NextGroup(w)
         /\ UNCHANGED accepted

\* conn.request succeeds: the request is on its way.
Post(w) ==
    /\ at[w] = "post"
    /\ inflight' = inflight \cup {Request(w)}
    /\ at' = [at EXCEPT ![w] = "wait"]
    /\ UseTry(w)
    /\ UNCHANGED <<readerVars, queue, received, pending, left, accepted, dropped>>

\* conn.request raises: the API cannot be reached.
PostFails(w) ==
    /\ at[w] = "post"
    /\ UseTry(w)
    /\ TryFails(w)
    /\ UNCHANGED <<readerVars, queue, apiVars>>

\* No answer within two seconds, or the connection breaks: the worker opens a
\* new connection and will not see a later answer.
Timeout(w) ==
    /\ at[w] = "wait"
    /\ TryFails(w)
    /\ UNCHANGED <<readerVars, queue, apiVars, posts>>

-----------------------------------------------------------------------------
(* The API.                                                                *)

Awaited(r) == at[r.by] = "wait" /\ r = Request(r.by)

\* A request is handled and its answer arrives in time.
Answer(r) ==
    /\ r \in inflight /\ Awaited(r)
    /\ inflight' = inflight \ {r}
    /\ received' = CountIn(r.alerts, received)
    /\ accepted' = accepted \cup r.alerts
    /\ NextGroup(r.by)
    /\ UNCHANGED <<readerVars, queue, posts, dropped>>

\* Mutant: the connection is kept after a timeout, and a late answer counts.
HandleLate_Accepts(r) ==
    /\ r \in inflight /\ ~Awaited(r)
    /\ inflight' = inflight \ {r}
    /\ received' = CountIn(r.alerts, received)
    /\ accepted' = accepted \cup r.alerts
    /\ UNCHANGED <<readerVars, queue, posts, at, pending, left, dropped>>

\* A request is handled after its worker gave it up.
HandleLate(r) ==
    /\ r \in inflight /\ ~Awaited(r)
    /\ inflight' = inflight \ {r}
    /\ received' = CountIn(r.alerts, received)
    /\ UNCHANGED <<readerVars, queue, posts, settleVars>>

\* The API answers with another status.
Refuse(r) ==
    /\ r \in inflight /\ Awaited(r)
    /\ inflight' = inflight \ {r}
    /\ TryFails(r.by)
    /\ UNCHANGED <<readerVars, queue, received, posts>>

\* A request never arrives.
Lose(r) ==
    /\ r \in inflight
    /\ inflight' = inflight \ {r}
    /\ UNCHANGED <<readerVars, queue, received, posts, settleVars>>

-----------------------------------------------------------------------------
ForwarderNext ==
    \/ \E line \in Line, disabled \in BOOLEAN : Read(line, disabled)
    \/ Put
    \/ \E w \in Worker : Get(w)
    \/ \E w \in Worker : Close(w)
    \/ \E w \in Worker : Post(w)
    \/ \E w \in Worker : PostFails(w)
    \/ \E w \in Worker : Timeout(w)
    \/ \E r \in inflight : Answer(r)
    \/ \E r \in inflight : HandleLate(r)
    \/ \E r \in inflight : Refuse(r)
    \/ \E r \in inflight : Lose(r)

\* The steps of the forwarder's own threads, the clock of a request included.
Threads ==
    \/ Put
    \/ \E w \in Worker : Get(w) \/ Close(w) \/ Timeout(w) \/ Post(w) \/ PostFails(w)

\* Some thread that can go on does, and a request that is not answered times
\* out.  Nothing is assumed of the API: it may never answer.
ForwarderFairness == WF_forwarderVars(Threads)

ForwarderSpec == ForwarderInit /\ [][ForwarderNext]_forwarderVars /\ ForwarderFairness

-----------------------------------------------------------------------------
(* Every variable has its type.                                            *)
RequestType == [by : Worker, alerts : SUBSET (1..MaxLines), try : 1..Tries]

ForwarderTypeOK ==
    /\ log \in Seq(Line) /\ Len(log) <= MaxLines
    /\ alerts \subseteq 1..Len(log)
    /\ held \subseteq alerts /\ queue \subseteq alerts
    /\ Cardinality(queue) <= QueueCap
    /\ at \in [Worker -> {"collect", "post", "wait"}]
    /\ pending \in [Worker -> SUBSET alerts]
    /\ \A w \in Worker : Cardinality(pending[w]) <= BatchCap
    /\ left \in [Worker -> 1..Tries]
    /\ inflight \subseteq RequestType
    /\ received \in [1..MaxLines -> 0..Tries]
    /\ posts \in [1..MaxLines -> 0..Tries]
    /\ accepted \subseteq alerts /\ dropped \subseteq alerts

\* No alert is lost between the threads, and none is in two hands: an alert is
\* being put, queued, in the batch of one worker, accepted or given up.
Accounted ==
    /\ alerts = held \cup queue \cup accepted \cup dropped
                     \cup UNION {pending[w] : w \in Worker}
    /\ \A w \in Worker : pending[w] \cap (held \cup queue \cup accepted \cup dropped) = {}
    /\ \A v, w \in Worker : v # w => pending[v] \cap pending[w] = {}
    /\ held \cap queue = {}
    /\ (held \cup queue) \cap (accepted \cup dropped) = {}
    /\ accepted \cap dropped = {}

\* An alert is given up only after all the tries of its own type failed, and
\* the API receives it no more often than it was tried, however late.
TriesAreSpent ==
    \A i \in alerts :
        /\ i \in dropped => posts[i] = Tries
        /\ received[i] <= posts[i]

\* Whatever the API does, every alert is accepted or given up in the end, one
\* that the reader holds while the queue is full included.  Neither is
\* ever undone, so that this says what "i \in alerts ~> ..." does.
EveryAlertSettles ==
    \A i \in 1..MaxLines : []<>(i \in alerts => i \in accepted \cup dropped)

\* The channel the forwarder implements.
Relay == INSTANCE AlertRelay WITH Alert <- 1..MaxLines, offered <- alerts,
                                  handled <- {i \in alerts : received[i] > 0}

ImplementsRelay == Relay!Spec
=============================================================================
