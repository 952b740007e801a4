-------------------------------- MODULE Startup --------------------------------
(***************************************************************************)
(* One process of the cluster from its start until it listens              *)
(* (prisma.service.ts connectWithRetry, main.ts bootstrap,                 *)
(* ecosystem.config.js).  The database comes and goes.  Time is counted in *)
(* units of baseDelayMs; a connection succeeds or fails within one, and so *)
(* no time passes while it is due.                                         *)
(***************************************************************************)
EXTENDS Naturals

CONSTANTS retries,  \* attempts to connect
          Backoff   \* external: PM2 waits this long at most before a restart

Assumptions == retries \in Nat \ {0} /\ Backoff \in Nat

VARIABLES
    up,       \* the database accepts connections
    phase,    \* "connecting", "sleeping", "listening" or "exited"
    attempt,  \* the attempt connectWithRetry is at
    wait,     \* the time left of its sleep, or before its restart
    age       \* history: the time this process has slept so far

vars == <<up, phase, attempt, wait, age>>

\* The delay after attempt n, that doubles; and what all delays add up to.
delay(n) == 2^(n - 1)
Patience == 2^(retries - 1) - 1

\* Plausible slips in the definitions below; only mutation runs use them.
\* In the second the last error is logged and the process stays.
lastButOne(n) == n + 1 = retries

FailQuietly ==
    /\ phase = "connecting"
    /\ ~up
    /\ IF attempt = retries
       THEN phase' = "logged" /\ UNCHANGED wait
       ELSE phase' = "sleeping" /\ wait' = delay(attempt)
    /\ UNCHANGED <<up, attempt, age>>

isLast(n) == n = retries

TypeOK ==
    /\ up \in BOOLEAN
    /\ phase \in {"connecting", "sleeping", "listening", "exited"}
    /\ attempt \in 1 .. retries
    /\ wait \in 0 .. Patience + Backoff
    /\ age \in 0 .. Patience

Init ==
    /\ up \in BOOLEAN
    /\ phase = "connecting"
    /\ attempt = 1
    /\ wait = 0
    /\ age = 0

\* $connect succeeds; the modules are ready and bootstrap listens.
Connect ==
    /\ phase = "connecting"
    /\ up
    /\ phase' = "listening"
    /\ UNCHANGED <<up, attempt, wait, age>>

\* $connect throws.  The last error leaves onModuleInit and ends bootstrap,
\* and with it the process; the others are followed by a sleep.
Fail ==
    /\ phase = "connecting"
    /\ ~up
    /\ IF isLast(attempt)
       THEN phase' = "exited" /\ wait' \in 0 .. Backoff
       ELSE phase' = "sleeping" /\ wait' = delay(attempt)
    /\ UNCHANGED <<up, attempt, age>>

Wake ==
    /\ phase = "sleeping"
    /\ wait = 0
    /\ phase' = "connecting"
    /\ attempt' = attempt + 1
    /\ UNCHANGED <<up, wait, age>>

\* PM2's autorestart, after exp_backoff_restart_delay.
Restart ==
    /\ phase = "exited"
    /\ wait = 0
    /\ phase' = "connecting"
    /\ attempt' = 1
    /\ age' = 0
    /\ UNCHANGED <<up, wait>>

\* A process that listens sleeps no more, and stays when it loses the
\* database: its queries fail until the client has connected again.
Tick ==
    /\ wait > 0
    /\ wait' = wait - 1
    /\ age' = IF phase = "sleeping" THEN age + 1 ELSE age
    /\ UNCHANGED <<up, phase, attempt>>

\* The environment: the database starts or stops; the process is killed (the
\* machine, PM2's memory limit).
Flip ==
    /\ up' = ~up
    /\ UNCHANGED <<phase, attempt, wait, age>>

Kill ==
    /\ phase # "exited"
    /\ phase' = "exited"
    /\ wait' \in 0 .. Backoff
    /\ UNCHANGED <<up, attempt, age>>

Step == Connect \/ Fail \/ Wake \/ Restart \/ Tick

Next == Step \/ Flip \/ Kill

Spec == Init /\ [][Next]_vars

\* Timers fire, connections are answered and PM2 restarts what has ended.
FairSpec == Spec /\ WF_vars(Step)

-----------------------------------------------------------------------------
\* A process that cannot connect gives up no sooner than all its delays
\* together: a database that is late by less than that ends no process.
GivesUpLast == [][Fail /\ phase' = "exited" => age = Patience]_vars

\* Once the database stays up, and nobody kills the process again and again,
\* the process listens for good: it wakes before the last attempt, or gives
\* up and is restarted.
EventuallyServes ==
    <>[]up /\ <>[][~Kill]_vars => <>[](phase = "listening")
=============================================================================
