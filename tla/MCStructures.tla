----------------------------- MODULE MCStructures -----------------------------
(***************************************************************************)
(* The ordered structures: skiplist.h with one writer and its readers, and *)
(* the timers of both programs.  A behaviour runs one of them; the         *)
(* variables of the other keep their initial values.                       *)
(***************************************************************************)
EXTENDS SkipList

CONSTANTS Delays, MaxTimers, MaxClock, IntMax   \* of Timers

ASSUME TimersAssumption ==
    /\ IntMax \in Nat /\ Delays \subseteq Nat
    /\ MaxTimers \in Nat /\ MaxClock \in Nat \ {0}

VARIABLES running,   \* "list" or "timers"
          timerfd, clock, timeouts, tid, tpc, it, now, asked, timeout, until,
          armed, ticks, ready, fired, deleted

timers == <<timerfd, clock, timeouts, tid, tpc, it, now, asked, timeout, until,
            armed, ticks, ready, fired, deleted>>
T == INSTANCE Timers WITH pc <- tpc

MCInit ==
    /\ running \in {"list", "timers"}
    /\ Init /\ T!Init
    /\ running = "list" => timerfd = FALSE

MCNext ==
    \/ running = "list" /\ Next /\ UNCHANGED <<running, timers>>
    \/ running = "timers" /\ T!Next /\ UNCHANGED <<running, vars>>

\* A reader in a call goes on; the loop of the timers keeps running and time passes.
MCFairness ==
    /\ \A r \in Readers : WF_vars(running = "list" /\ Step(r))
    /\ WF_timers(running = "timers" /\ T!Loop)
    /\ WF_timers(running = "timers" /\ T!Tick)

MCSpec == MCInit /\ [][MCNext]_<<running, vars, timers>> /\ MCFairness

\* skiplist.h: a reader follows only stored links and does not overshoot, levels are
\* nested, and the predecessors kept for sequential inserts are right.  Timers: an id is
\* pending, fired once or deleted, and one of them only, unless a callback deletes its own
\* timer, and the loop never sleeps past its first timer, if that is no further away than
\* an int can tell.
StructuresAreSound == Inv /\ T!OnceOrDeleted /\ T!SleepCoversFirst

\* A callback runs when its time has come and before those of all later timers.
FiresFirstAndNotEarly == T!FiresFirstAndNotEarly

\* Searches of the skip list end, the loop of SeekForPrev included, whatever Insert does
\* meanwhile; every timer fires or is deleted, as long as no callback deletes its own and
\* the first timer is never further away than an int can tell.
AllEnd == CallsReturn /\ T!AllFire
=============================================================================
