-------------------------- MODULE DeadLetterReplay --------------------------
(***************************************************************************)
(* scripts/replay_dead_letter.py: read transactions.dead_letter from the   *)
(* group's committed offset, produce every message to a target topic,      *)
(* flush, commit, end.  The worker of the target topic reads what arrives  *)
(* there: what it accepts is handled, what does not validate it copies to  *)
(* the dead letters, behind everything else.                               *)
(*                                                                         *)
(* The order of the dead letters plays no part, and neither does how many  *)
(* copies of a letter there are: the topic is two sets, split at the       *)
(* position of the running consumer.                                       *)
(***************************************************************************)
EXTENDS Naturals

CONSTANTS
    Letters,    \* the messages of transactions.dead_letter
    Fits,       \* those the worker of the target topic accepts by now
    Limits,     \* the values of --max, 0 for everything queued
    MaxCrashes  \* bound: runs that are interrupted

ASSUME FitsAssumption == Fits \subseteq Letters
ASSUME LimitsAssumption == Limits \subseteq Nat
ASSUME MaxCrashesAssumption == MaxCrashes \in Nat

VARIABLES
    queued,     \* the letters the consumer has not polled
    taken,      \* the letters polled, but not committed
    phase,      \* "off", "polling", "flushing" or "committing"
    mode,       \* "replay", or "dry-run" when the run has --dry-run
    limit,      \* --max of the run
    idlePolls,  \* polls without a message in a row
    replayed,   \* messages of this run, counted as far as --max
    outbox,     \* the letters produced and not yet answered
    refused,    \* the letters of this run the broker refused
    target,     \* the letters in the target topic its worker has not polled
    handled,    \* the letters its worker accepted (history)
    dropped,    \* the letters a run committed without their copy (history)
    crashes     \* interrupted runs (bounded by MaxCrashes)

replayVars == <<queued, taken, phase, mode, limit, idlePolls, replayed, outbox, refused,
                target, handled, dropped, crashes>>

ReplayInit ==
    /\ queued = Letters
    /\ taken = {}
    /\ phase = "off"
    /\ mode = "replay"
    /\ limit = 0
    /\ idlePolls = 0
    /\ replayed = 0
    /\ outbox = {}
    /\ refused = {}
    /\ target = {}
    /\ handled = {}
    /\ dropped = {}
    /\ crashes = 0

-----------------------------------------------------------------------------
(* The script. *)

StartReplay ==
    /\ phase = "off"
    /\ phase' = "polling"
    /\ mode' \in {"replay", "dry-run"}
    /\ limit' \in Limits
    /\ idlePolls' = 0
    /\ replayed' = 0
    /\ UNCHANGED <<queued, taken, outbox, refused, target, handled, dropped, crashes>>

\* The number of replayed messages matters only for --max.
Count(n) == IF limit = 0 THEN 0 ELSE n

\* Wrong: the loop goes on for one more message.
ReachedTooLate(n) == limit > 0 /\ n > limit

\* --max messages end the loop.
Reached(n) == limit > 0 /\ n >= limit

\* poll returns a message: produce it, count it.
ReplayMessage(x) ==
    /\ phase = "polling"
    /\ x \in queued
    /\ queued' = queued \ {x}
    /\ taken' = taken \cup {x}
    /\ outbox' = IF mode = "dry-run" THEN outbox ELSE outbox \cup {x}
    /\ idlePolls' = 0
    /\ replayed' = Count(replayed + 1)
    /\ phase' = IF Reached(replayed + 1) THEN "flushing" ELSE "polling"
    /\ UNCHANGED <<mode, limit, refused, target, handled, dropped, crashes>>

\* poll returns an error: it is neither counted nor does it reset idle_polls.
PollError ==
    /\ phase = "polling"
    /\ UNCHANGED replayVars

\* Wrong: the polls without a message are not counted.
PollForever ==
    /\ phase = "polling"
    /\ UNCHANGED replayVars

\* poll returns None after a second, whether the topic is drained or the group
\* is still being joined; the third in a row ends the loop.
PollNothing ==
    /\ phase = "polling"
    /\ idlePolls' = idlePolls + 1
    /\ phase' = IF idlePolls + 1 >= 3 THEN "flushing" ELSE "polling"
    /\ UNCHANGED <<queued, taken, mode, limit, replayed, outbox, refused, target, handled,
                   dropped, crashes>>

\* The process ends: of its unanswered requests some arrive all the same.
EndProcess(arriving) ==
    /\ phase' = "off"
    /\ target' = target \cup arriving
    /\ outbox' = {}
    /\ refused' = {}
    /\ UNCHANGED <<mode, limit, idlePolls, replayed, handled>>

\* A dry run commits nothing: the group's offset is where it was.
DryRunEnds ==
    /\ phase = "flushing"
    /\ mode = "dry-run"
    /\ queued' = queued \cup taken
    /\ taken' = {}
    /\ EndProcess({})
    /\ UNCHANGED <<dropped, crashes>>

\* flush(10) returns, with requests left or without; a refused request counts
\* as done, and produce had no on_delivery to learn of the refusal.
FlushReturns ==
    /\ phase = "flushing"
    /\ mode = "replay"
    /\ phase' = "committing"
    /\ UNCHANGED <<queued, taken, mode, limit, idlePolls, replayed, outbox, refused, target,
                   handled, dropped, crashes>>

\* consumer.commit() commits the position, or raises when nothing was polled;
\* the script is over either way.
CommitReplayed ==
    /\ phase = "committing"
    /\ taken' = {}
    /\ \E S \in SUBSET outbox :
          EndProcess(S) /\ dropped' = dropped \cup (outbox \ S) \cup refused
    /\ UNCHANGED <<queued, crashes>>

\* Wrong: offsets are committed as messages are polled (enable.auto.commit).
InterruptCommits ==
    /\ phase # "off"
    /\ crashes < MaxCrashes
    /\ crashes' = crashes + 1
    /\ taken' = {}
    /\ \E S \in SUBSET outbox : EndProcess(S)
    /\ UNCHANGED <<queued, dropped>>

\* Interrupted, or a Kafka call raises: nothing is committed.
Interrupt ==
    /\ phase # "off"
    /\ crashes < MaxCrashes
    /\ crashes' = crashes + 1
    /\ queued' = queued \cup taken
    /\ taken' = {}
    /\ \E S \in SUBSET outbox : EndProcess(S)
    /\ UNCHANGED dropped

-----------------------------------------------------------------------------
(* The broker, and the worker of the target topic. *)

Deliver(x) ==
    /\ x \in outbox
    /\ outbox' = outbox \ {x}
    /\ target' = target \cup {x}
    /\ UNCHANGED <<queued, taken, phase, mode, limit, idlePolls, replayed, refused, handled,
                   dropped, crashes>>

\* The broker refuses the record: too large for the topic, or not authorised.
Refuse(x) ==
    /\ x \in outbox
    /\ outbox' = outbox \ {x}
    /\ refused' = refused \cup {x}
    /\ UNCHANGED <<queued, taken, phase, mode, limit, idlePolls, replayed, target, handled,
                   dropped, crashes>>

\* The worker accepts the letter, or it is a dead letter once more.
WorkerHandles(x) ==
    /\ x \in target
    /\ target' = target \ {x}
    /\ handled' = handled \cup ({x} \cap Fits)
    /\ queued' = queued \cup ({x} \ Fits)
    /\ UNCHANGED <<taken, phase, mode, limit, idlePolls, replayed, outbox, refused, dropped,
                   crashes>>

-----------------------------------------------------------------------------
Script ==
    \/ \E x \in Letters : ReplayMessage(x)
    \/ PollError
    \/ PollNothing
    \/ DryRunEnds
    \/ FlushReturns
    \/ CommitReplayed

Pipeline == \E x \in Letters : Deliver(x) \/ Refuse(x) \/ WorkerHandles(x)

ReplayNext ==
    \/ StartReplay
    \/ Script
    \/ Interrupt
    \/ Pipeline

ReplaySpec == ReplayInit /\ [][ReplayNext]_replayVars

\* A started script goes on by itself -- Kafka does not answer its polls with
\* errors for ever -- and the pipeline it feeds is running.  Nobody has to start
\* it.
FairReplaySpec == ReplaySpec /\ WF_replayVars(Script) /\ WF_replayVars(Pipeline)

-----------------------------------------------------------------------------
(* Properties. *)

\* Types; a loop at its limit has ended, and a request is outstanding only for
\* a letter that is not committed yet, and never of a dry run.
ReplayTypeOK ==
    /\ queued \subseteq Letters
    /\ taken \subseteq Letters
    /\ phase \in {"off", "polling", "flushing", "committing"}
    /\ mode \in {"replay", "dry-run"}
    /\ idlePolls \in 0 .. 3
    /\ limit \in Limits \cup {0}
    /\ replayed \in 0 .. limit
    /\ phase = "polling" => idlePolls < 3 /\ (limit = 0 \/ replayed < limit)
    /\ outbox \cup refused \subseteq taken
    /\ mode = "dry-run" => outbox = {} /\ refused = {}
    /\ target \cup handled \cup dropped \subseteq Letters
    /\ crashes \in 0 .. MaxCrashes

\* replay_dead_letter.py:5-6, "reprocessed instead of lost": whatever is dry,
\* interrupted or dead-lettered again, a letter is queued, on its way to the
\* worker, or accepted by it -- except that a run may commit it although its
\* flush left the copy unsent, or the broker had refused the copy.
NoLetterLost == Letters \subseteq queued \cup taken \cup target \cup handled \cup dropped

\* The inductive invariant behind NoLetterLost: what a real run has polled, it
\* has produced, and only a real run commits.
PolledIsProduced ==
    /\ phase = "off" => taken = {}
    /\ phase = "committing" => mode = "replay"
    /\ mode = "replay" =>
          taken \subseteq queued \cup outbox \cup refused \cup target \cup handled

ReplayInv == ReplayTypeOK /\ NoLetterLost /\ PolledIsProduced

\* replay_dead_letter.py:3-4 and 20: the script "stops once the queue is drained
\* (or after --max)", and --max 0, the default, "replays everything currently
\* queued".  With a positive --max every run ends.  Without, a run ends unless
\* letters that the worker refuses once more keep coming back to it: each one
\* resets idle_polls, and the run replays what was not queued when it started.
EveryRunEnds ==
    \/ []<>(phase = "off")
    \/ []<><<phase = "polling" /\ limit = 0
               /\ \E x \in Letters \ Fits : WorkerHandles(x)>>_replayVars
=============================================================================
