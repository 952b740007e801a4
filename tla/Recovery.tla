-------------------------------- MODULE Recovery -------------------------------
(***************************************************************************)
(* What comes right by itself, under the fairness of timers alone: stale   *)
(* copies in Redis (NewsCache) and processes that cannot reach the         *)
(* database (Startup).  The two share no state, so a behaviour is about    *)
(* one of them, its subject, and leaves the other where it began.          *)
(***************************************************************************)
EXTENDS Naturals, Sequences

CONSTANTS Article, Slug, Request, None, Feed, MaxVersion, MaxCounted,
          Operations, retries, Backoff

VARIABLES subject,
          slug, published, deletedAt, version, counted, shown, cache,
          expiring, pc, art, old, new, val, todo, serial,
          up, phase, attempt, wait, age

News == INSTANCE NewsCache
Process == INSTANCE Startup

ASSUME ProcessAssumptions == Process!Assumptions

newsVars == <<slug, published, deletedAt, version, counted, shown, cache,
              expiring, pc, art, old, new, val, todo, serial>>
processVars == <<up, phase, attempt, wait, age>>
vars == <<subject, newsVars, processVars>>

\* The database's first state only matters to a process.
Init ==
    /\ subject \in {"copies", "process"}
    /\ News!Init
    /\ Process!Init
    /\ subject = "copies" => ~up

About(s) == subject = s /\ UNCHANGED subject

CopiesNext  == About("copies") /\ News!Next /\ UNCHANGED processVars
ProcessNext == About("process") /\ Process!Next /\ UNCHANGED newsVars

Next == CopiesNext \/ ProcessNext

TimeToLive(key) == About("copies") /\ News!Expire(key) /\ UNCHANGED processVars
ProcessStep == About("process") /\ Process!Step /\ UNCHANGED newsVars

Spec == Init /\ [][Next]_vars

\* Time passes for every cached key, and a process is started again: nothing
\* else is needed, not even that a handler goes on.
FairSpec ==
    /\ Spec
    /\ \A key \in News!Key : WF_vars(TimeToLive(key))
    /\ WF_vars(ProcessStep)

-----------------------------------------------------------------------------
\* Readers that store what they read before a write, writers that crash
\* before they invalidate or that invalidate a slug the article no longer
\* has: whatever copy they leave, it does not outlive its time to live.
StaleCopiesExpire == News!StaleCopiesExpire

\* A process that cannot connect gives up no sooner than all the delays of
\* connectWithRetry together.
GivesUpLast == Process!GivesUpLast

\* Once the database stays up the process listens for good.
EventuallyServes == Process!EventuallyServes
=============================================================================
