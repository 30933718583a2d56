------------------------------ MODULE RateLimiter ------------------------------
(***************************************************************************)
(* The gateway's rate limiter (src/src/api/ratelimit.py) as authorize      *)
(* (src/src/api/deps.py) calls it: API processes count the requests of an  *)
(* identity in one Redis bucket per fixed window of `Window' time units.   *)
(*                                                                         *)
(* The clock is read in one step and the bucket incremented in a later     *)
(* one, so time may pass, and Redis may fail, lose its data or return, in  *)
(* between.  INCR and EXPIRE are one transaction.  The limiter fails open: *)
(* a request that Redis does not answer is served, and a process that      *)
(* builds its limiter while Redis is away keeps one without a client.      *)
(***************************************************************************)
EXTENDS Integers, FiniteSets

CONSTANTS
    Requests,   \* the requests of a behaviour
    Processes,  \* API processes, each with a limiter of its own
    Keys,       \* values of X-API-Key
    Prefix,     \* Prefix[k]: the first twelve characters of key k
    CallerOf,   \* CallerOf[r]: who sends r
    Limit,      \* rate_limit_per_minute
    Window,     \* window_seconds
    MaxTime, MaxFaults,     \* bounds on a behaviour
    None        \* no user, no key, no process, no limiter, no answer, no charge

\* `known': the credentials are accepted by _resolve_tenant_context.
Caller == {c \in [known : BOOLEAN, user : Nat \cup {None}, key : Keys \cup {None}, host : Nat] :
              c.user # None => c.known}

ASSUME LimiterAssumption ==
    /\ CallerOf \in [Requests -> Caller]
    /\ Limit \in Nat \ {0}
    /\ Window \in Nat \ {0}
    /\ MaxTime \in Nat /\ MaxFaults \in Nat
    /\ IsFiniteSet(Requests)
    /\ None \notin Nat \cup Keys \cup Processes \cup BOOLEAN

VARIABLES
    now,        \* the time
    up,         \* whether Redis answers
    bucket,     \* bucket[i, w]: the count and the expiry of ratelimit:i:w
    limiter,    \* limiter[p]: whether the limiter p caches has a client
    pc,         \* pc[r]: the next step of request r
    process,    \* process[r]: who serves it
    client,     \* client[r]: whether the limiter it got has a client
    read,       \* read[r]: its `now'
    verdict,    \* verdict[r]: its answer
    faults,     \* faults so far
    (* History, read by the properties alone. *)
    charge,     \* charge[r]: the bucket r was counted in, its number there, and
                \* whether the window of the bucket still lasted
    calm,       \* calm[r]: Redis answered all the time since r came in
    wiped       \* windows in which Redis lost its data

requestVars == <<pc, process, client, read, verdict, charge, calm>>
vars == <<now, up, bucket, limiter, requestVars, faults, wiped>>

Times == 0..MaxTime

WindowStart(t) == t - (t % Window)

\* authorize: the user of a token, else the key's beginning, else the address.
Identity(c) ==
    IF c.user # None THEN <<"user", c.user>>
    ELSE IF c.key # None THEN <<"key", Prefix[c.key]>>
    ELSE <<"host", c.host>>

IdentityOf(r) == Identity(CallerOf[r])
Identities == {IdentityOf(r) : r \in Requests}
Windows == {WindowStart(t) : t \in Times}
Buckets == Identities \X Windows

Absent == [count |-> 0, expires |-> 0]

Verdicts == {"admitted", "open", "denied", "unauthorized"}

Charge == [bucket : Buckets, number : Nat \ {0}, prompt : BOOLEAN]

ASSUME NoneAssumption == None \notin Verdicts \cup Charge

BucketOf(r) == <<IdentityOf(r), WindowStart(read[r])>>

TypeOK ==
    /\ now \in Times
    /\ up \in BOOLEAN
    /\ bucket \in [Buckets -> [count : Nat, expires : Nat]]
    /\ limiter \in [Processes -> BOOLEAN \cup {None}]
    /\ pc \in [Requests -> {"new", "build", "clock", "consume", "answered"}]
    /\ process \in [Requests -> Processes \cup {None}]
    /\ client \in [Requests -> BOOLEAN \cup {None}]
    /\ read \in [Requests -> Times]
    /\ verdict \in [Requests -> Verdicts \cup {None}]
    /\ faults \in 0..MaxFaults
    /\ charge \in [Requests -> Charge \cup {None}]
    /\ calm \in [Requests -> BOOLEAN]
    /\ wiped \subseteq Windows

Init ==
    /\ now = 0
    /\ up \in BOOLEAN
    /\ bucket = [b \in Buckets |-> Absent]
    /\ limiter = [p \in Processes |-> None]
    /\ pc = [r \in Requests |-> "new"]
    /\ process = [r \in Requests |-> None]
    /\ client = [r \in Requests |-> None]
    /\ read = [r \in Requests |-> 0]
    /\ verdict = [r \in Requests |-> None]
    /\ faults = 0
    /\ charge = [r \in Requests |-> None]
    /\ calm = [r \in Requests |-> FALSE]
    /\ wiped = {}

Fault == faults < MaxFaults /\ faults' = faults + 1

Goto(r, label) == pc' = [pc EXCEPT ![r] = label]

------------------------------------------------------------------------------
(* Time, Redis and the processes.                                          *)

\* Redis drops a bucket when its expiry is reached.
Tick ==
    /\ now < MaxTime
    /\ now' = now + 1
    /\ bucket' = [b \in Buckets |-> IF bucket[b].expires <= now + 1 THEN Absent ELSE bucket[b]]
    /\ UNCHANGED <<up, limiter, requestVars, faults, wiped>>

RedisFails ==
    /\ up /\ Fault
    /\ up' = FALSE
    /\ calm' = [r \in Requests |-> FALSE]
    /\ UNCHANGED <<now, bucket, limiter, pc, process, client, read, verdict, charge, wiped>>

\* It answers again, with what it held or with nothing.
RedisReturns ==
    /\ ~up
    /\ up' = TRUE
    /\ \/ UNCHANGED <<bucket, wiped>>
       \/ /\ bucket' = [b \in Buckets |-> Absent]
          /\ wiped' = wiped \cup {WindowStart(now)}
    /\ UNCHANGED <<now, limiter, requestVars, faults>>

\* An API process that serves nobody is restarted: its cache is empty again.
Restart(p) ==
    /\ Fault
    /\ limiter[p] # None
    /\ \A r \in Requests : process[r] # p
    /\ limiter' = [limiter EXCEPT ![p] = None]
    /\ UNCHANGED <<now, up, bucket, requestVars, wiped>>

------------------------------------------------------------------------------
(* One request.                                                            *)

ExpiryInThePast(t) == t - Window  \* mutant

Expiry(t) == t + Window

\* Mutant: the request is charged all the same.
RejectCharged(r) ==
    /\ pc[r] = "new"
    /\ ~CallerOf[r].known
    /\ LET b == <<IdentityOf(r), WindowStart(now)>>
       IN  bucket' = [bucket EXCEPT ![b] = [count |-> @.count + 1, expires |-> Expiry(now)]]
    /\ verdict' = [verdict EXCEPT ![r] = "unauthorized"]
    /\ Goto(r, "answered")
    /\ UNCHANGED <<now, up, limiter, process, client, read, charge, calm, faults, wiped>>

\* Bad credentials: 401 before the limiter is asked.
Reject(r) ==
    /\ pc[r] = "new"
    /\ ~CallerOf[r].known
    /\ verdict' = [verdict EXCEPT ![r] = "unauthorized"]
    /\ Goto(r, "answered")
    /\ UNCHANGED <<now, up, bucket, limiter, process, client, read, charge, calm, faults, wiped>>

\* get_rate_limiter: the one the process caches, or else one to be built.
GetLimiter(r, p) ==
    /\ process' = [process EXCEPT ![r] = p]
    /\ client' = [client EXCEPT ![r] = limiter[p]]
    /\ Goto(r, IF limiter[p] = None THEN "build" ELSE "clock")
    /\ calm' = [calm EXCEPT ![r] = up]
    /\ UNCHANGED <<now, up, bucket, limiter, read, verdict, charge, faults, wiped>>

Arrive(r, p) == pc[r] = "new" /\ CallerOf[r].known /\ GetLimiter(r, p)

\* A limiter has a client only if Redis answers its ping.  Two threads may
\* build at once: each uses its own, and the first one is cached.
BuildLimiter(r) ==
    /\ pc[r] = "build"
    /\ client' = [client EXCEPT ![r] = up]
    /\ limiter' = [limiter EXCEPT ![process[r]] = IF @ = None THEN up ELSE @]
    /\ Goto(r, "clock")
    /\ UNCHANGED <<now, up, bucket, process, read, verdict, charge, calm, faults, wiped>>

ReadClock(r) ==
    /\ pc[r] = "clock"
    /\ read' = [read EXCEPT ![r] = now]
    /\ Goto(r, "consume")
    /\ UNCHANGED <<now, up, bucket, limiter, process, client, verdict, charge, calm, faults,
                   wiped>>

WithinOffByOne(n) == n - 1 <= Limit  \* mutant

Within(n) == n <= Limit

\* INCR, which returns n, and EXPIRE.
Increment(r, n) ==
    /\ bucket' = [bucket EXCEPT ![BucketOf(r)] = [count |-> n, expires |-> Expiry(now)]]
    /\ charge' = [charge EXCEPT ![r] =
                    [bucket |-> BucketOf(r), number |-> n,
                     prompt |-> WindowStart(now) = WindowStart(read[r])]]

\* The call is over: its locals are gone.
Answer(r, v) ==
    /\ verdict' = [verdict EXCEPT ![r] = v]
    /\ process' = [process EXCEPT ![r] = None]
    /\ client' = [client EXCEPT ![r] = None]
    /\ read' = [read EXCEPT ![r] = 0]
    /\ Goto(r, "answered")

Consume(r) ==
    /\ pc[r] = "consume" /\ client[r] = TRUE /\ up
    /\ LET n == bucket[BucketOf(r)].count + 1
       IN  Increment(r, n) /\ Answer(r, IF Within(n) THEN "admitted" ELSE "denied")
    /\ UNCHANGED <<now, up, limiter, calm, faults, wiped>>

\* The transaction is executed and its reply lost.
ReplyLost(r) ==
    /\ pc[r] = "consume" /\ client[r] = TRUE /\ up
    /\ Fault
    /\ Increment(r, bucket[BucketOf(r)].count + 1)
    /\ Answer(r, "open")
    /\ calm' = [calm EXCEPT ![r] = FALSE]
    /\ UNCHANGED <<now, up, limiter, wiped>>

\* Nobody to ask, or nobody answers.
FailOpen(r) ==
    /\ pc[r] = "consume"
    /\ client[r] = FALSE \/ ~up
    /\ Answer(r, "open")
    /\ UNCHANGED <<now, up, bucket, limiter, charge, calm, faults, wiped>>

------------------------------------------------------------------------------
Next ==
    \/ Tick \/ RedisFails \/ RedisReturns
    \/ \E p \in Processes : Restart(p)
    \/ \E r \in Requests, p \in Processes : Arrive(r, p)
    \/ \E r \in Requests :
        \/ Reject(r) \/ BuildLimiter(r) \/ ReadClock(r)
        \/ Consume(r) \/ ReplyLost(r) \/ FailOpen(r)

Spec == Init /\ [][Next]_vars

------------------------------------------------------------------------------
(* Properties.                                                             *)

\* In no window are more requests of an identity admitted by their count than
\* the limit, whichever processes serve them and however many are in flight:
\* leaving out the windows in which Redis lost its data, and the requests that
\* stalled between the clock and Redis until their window was over (their
\* bucket may have expired and begin again).
WindowLimit ==
    \A b \in Buckets :
        b[2] \notin wiped
        => Cardinality({r \in Requests : /\ verdict[r] = "admitted"
                                         /\ charge[r].prompt
                                         /\ charge[r].bucket = b}) <= Limit

\* Nobody gets a 429 before the identity had its full budget in that window:
\* neither refused requests, nor those of callers without credentials, nor the
\* window before spend it.
DeniedAfterBudget ==
    \A r \in Requests : verdict[r] = "denied" =>
        Cardinality({q \in Requests : /\ verdict[q] \in {"admitted", "open"}
                                      /\ charge[q] # None
                                      /\ charge[q].bucket = charge[r].bucket}) >= Limit

\* A request during which Redis answered all the time is counted.  ratelimit.py
\* logs, when it builds a limiter without a client, that limits are "disabled
\* until reconnected"; nothing reconnects it.
CountedWhileUp ==
    \A r \in Requests :
        calm[r] /\ verdict[r] \in {"admitted", "open", "denied"} => charge[r] # None

==============================================================================
