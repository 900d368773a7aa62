----------------------------- MODULE Leadership -----------------------------
(***************************************************************************)
(* The election of the instance whose scheduler may run workflows: a key   *)
(* in Redis that names the leader and lapses unless it is renewed, and on  *)
(* each instance a loop that tries to take or renew it (cron/leader.go).   *)
(*                                                                         *)
(* Time is discrete and advances by Tick; everything else is instantaneous *)
(* but happens when it pleases, within the deadline that the code gives a  *)
(* call by its context.  What is outside src is modelled as follows.  A    *)
(* command is executed by Redis at one moment between request and reply,   *)
(* both of which may get lost; the client may send it again, and one whose *)
(* caller gave up, died or sent it again may still be executed later, the  *)
(* release of a stopped instance included, whose next life has the same    *)
(* identity.  A key that expires at some instant is still there            *)
(* at that instant.  All clocks run at the same speed, and no process is   *)
(* paused between two of its own steps.                                    *)
(***************************************************************************)
EXTENDS Integers, FiniteSets

CONSTANTS
    Instances,
    Identity,       \* the InstanceID of each instance
    NoOwner,        \* the value of a key that is not set
    TTL,            \* the lease, in some unit of time
    RenewInterval,  \* as configured, 0 for the default
    MaxFaults       \* bound: calls that fail or are sent again, crashes and stops

Identities == {Identity[i] : i \in Instances}

ASSUME LeadershipAssumption ==
    /\ Identity = [i \in Instances |-> Identity[i]]
    /\ NoOwner \notin Identities
    /\ TTL \in Nat /\ TTL >= 3
    /\ RenewInterval \in Int
    /\ MaxFaults \in Nat

\* clampRenewInterval, for a lease of at least three units.
ClampRenewInterval(interval) ==
    IF interval <= 0 \/ interval > TTL \div 3 THEN TTL \div 3 ELSE interval

Interval == ClampRenewInterval(RenewInterval)

\* callTimeout: the deadline of one attempt, all its commands together.
CallTimeout ==
    IF TTL - 2 * Interval <= 0 THEN TTL \div 2 ELSE TTL - 2 * Interval

VARIABLES
    owner,    \* the key in Redis,
    lease,    \* and the time it has left
    pc,       \* where each instance's loop is, see Places
    answer,   \* of the command it waits for: not executed, or what it returns
    spent,    \* how long its attempt has taken
    timer,    \* time until its ticker fires, 0 before it is created
    due,      \* its ticker has fired and nobody has received the tick
    stopping, \* instances whose Stop has cancelled the loop
    leader,   \* the flag that IsLeader returns
    late,     \* commands whose caller no longer waits for them
    robbed,   \* history: instances whose key a late release has hit since
              \* they last got or renewed it
    faults

redisVars == <<owner, lease>>
loopVars == <<pc, answer, spent, timer, due, stopping, leader>>
vars == <<redisVars, loopVars, late, robbed, faults>>

Calling == {"setnx", "get", "renew"}
Places == Calling \cup {"off", "idle", "release"}
Answers == {"none", "yes", "no"}

InCall(i) == pc[i] \in Calling

Init ==
    /\ owner = NoOwner
    /\ lease = 0
    /\ pc = [i \in Instances |-> "off"]
    /\ answer = [i \in Instances |-> "none"]
    /\ spent = [i \in Instances |-> 0]
    /\ timer = [i \in Instances |-> 0]
    /\ due = [i \in Instances |-> FALSE]
    /\ stopping = {}
    /\ leader = [i \in Instances |-> FALSE]
    /\ late = {}
    /\ robbed = {}
    /\ faults = 0

Fault == faults < MaxFaults /\ faults' = faults + 1

-----------------------------------------------------------------------------
\* What Redis does with a command of an identity.

\* SETNX with an expiry.
SetNX(id) ==
    IF owner = NoOwner
    THEN owner' = id /\ lease' = TTL
    ELSE UNCHANGED redisVars

\* The script redisRenewLeader.
Renew(id) ==
    IF owner = id
    THEN lease' = TTL /\ UNCHANGED owner
    ELSE UNCHANGED redisVars

\* The script redisReleaseLeader.
ReleaseKey(id) ==
    IF owner = id
    THEN owner' = NoOwner /\ lease' = 0
    ELSE UNCHANGED redisVars

Effect(command, id) ==
    CASE command = "setnx" -> SetNX(id)
      [] command = "renew" -> Renew(id)
      [] command = "release" -> ReleaseKey(id)
      [] command = "get" -> UNCHANGED redisVars

\* SETNX succeeds on a key that is not set, the others look for their owner.
Succeeds(command, id) == owner = IF command = "setnx" THEN NoOwner ELSE id

-----------------------------------------------------------------------------
\* The loop of an instance.

\* Start, and the attempt that run makes before it creates its ticker.
Start(i) ==
    /\ pc[i] = "off"
    /\ pc' = [pc EXCEPT ![i] = "setnx"]
    /\ answer' = [answer EXCEPT ![i] = "none"]
    /\ spent' = [spent EXCEPT ![i] = 0]
    /\ timer' = [timer EXCEPT ![i] = 0]
    /\ due' = [due EXCEPT ![i] = FALSE]
    /\ UNCHANGED <<redisVars, stopping, leader, late, robbed, faults>>

\* run receives a tick and calls tryAcquire.  (If it was cancelled as well it
\* may do so, but sends nothing: Cancelled stands for both.)
Attempt(i) ==
    /\ pc[i] = "idle"
    /\ due[i]
    /\ i \notin stopping
    /\ pc' = [pc EXCEPT ![i] = "setnx"]
    /\ answer' = [answer EXCEPT ![i] = "none"]
    /\ spent' = [spent EXCEPT ![i] = 0]
    /\ due' = [due EXCEPT ![i] = FALSE]
    /\ UNCHANGED <<redisVars, timer, stopping, leader, late, robbed, faults>>

\* Redis executes the command an instance waits for.
Execute(i) ==
    /\ InCall(i)
    /\ answer[i] = "none"
    /\ answer' = [answer EXCEPT
           ![i] = IF Succeeds(pc[i], Identity[i]) THEN "yes" ELSE "no"]
    /\ Effect(pc[i], Identity[i])
    /\ robbed' = IF pc[i] # "get" /\ Succeeds(pc[i], Identity[i])
                 THEN robbed \ {i} ELSE robbed
    /\ UNCHANGED <<pc, spent, timer, due, stopping, leader, late, faults>>

\* tryAcquire sets the flag and returns; the first time, the ticker starts.
Return(i, isLeader) ==
    /\ leader' = [leader EXCEPT ![i] = isLeader]
    /\ pc' = [pc EXCEPT ![i] = "idle"]
    /\ answer' = [answer EXCEPT ![i] = "none"]
    /\ spent' = [spent EXCEPT ![i] = 0]
    /\ timer' = [timer EXCEPT ![i] = IF @ = 0 THEN Interval ELSE @]
    /\ UNCHANGED <<redisVars, due, stopping, robbed>>

\* SETNX failed: tryAcquire asks who has the key.  GET finds its own
\* identity: it renews.  Both send another command under the same deadline.
Proceed(i, command) ==
    /\ i \notin stopping
    /\ pc' = [pc EXCEPT ![i] = command]
    /\ answer' = [answer EXCEPT ![i] = "none"]
    /\ UNCHANGED <<redisVars, spent, timer, due, stopping, leader, robbed>>

\* The reply reaches tryAcquire.
Receive(i) ==
    /\ \/ pc[i] \in {"setnx", "renew"} /\ answer[i] = "yes" /\ Return(i, TRUE)
       \/ pc[i] \in {"get", "renew"} /\ answer[i] = "no" /\ Return(i, FALSE)
       \/ pc[i] = "setnx" /\ answer[i] = "no" /\ Proceed(i, "get")
       \/ pc[i] = "get" /\ answer[i] = "yes" /\ Proceed(i, "renew")
    /\ UNCHANGED <<late, faults>>

\* What an instance has sent and Redis has not executed may still arrive.
Outstanding(i) ==
    IF pc[i] \in {"setnx", "renew", "release"} /\ answer[i] = "none"
    THEN {<<pc[i], Identity[i]>>}
    ELSE {}

\* Mutant of Fail: an attempt that fails leaves the flag as it was.
FailUnnoticed(i) ==
    /\ InCall(i)
    /\ (i \in stopping /\ UNCHANGED faults) \/ Fault
    /\ late' = late \cup Outstanding(i)
    /\ Return(i, leader[i])

\* The attempt fails, at the latest when its context ends, or because Stop
\* has cancelled it.
Fail(i) ==
    /\ InCall(i)
    /\ (i \in stopping /\ UNCHANGED faults) \/ Fault
    /\ late' = late \cup Outstanding(i)
    /\ Return(i, FALSE)

\* The client has no reply in time and sends the command again.
Resend(i) ==
    /\ InCall(i)
    /\ Fault
    /\ late' = late \cup Outstanding(i)
    /\ answer' = [answer EXCEPT ![i] = "none"]
    /\ UNCHANGED <<redisVars, pc, spent, timer, due, stopping, leader, robbed>>

\* Redis executes a command nobody waits for any longer.
ExecuteLate ==
    \E c \in late :
        /\ Effect(c[1], c[2])
        /\ late' = late \ {c}
        /\ robbed' = IF c[1] = "release" /\ owner = c[2]
                     THEN robbed \cup {i \in Instances : Identity[i] = c[2]}
                     ELSE robbed
        /\ UNCHANGED <<loopVars, faults>>

-----------------------------------------------------------------------------
\* Stopping and dying.

\* Stop cancels the loop and waits for it.
Stop(i) ==
    /\ pc[i] # "off"
    /\ i \notin stopping
    /\ Fault
    /\ stopping' = stopping \cup {i}
    /\ UNCHANGED <<redisVars, pc, answer, spent, timer, due, leader, late, robbed>>

\* run notices that its context is done, clears the flag and ends.
Cancelled(i) ==
    /\ i \in stopping
    /\ pc[i] = "idle"
    /\ leader' = [leader EXCEPT ![i] = FALSE]
    /\ pc' = [pc EXCEPT ![i] = "release"]
    /\ UNCHANGED <<redisVars, answer, spent, timer, due, stopping, late, robbed, faults>>

Off(i) ==
    /\ pc' = [pc EXCEPT ![i] = "off"]
    /\ answer' = [answer EXCEPT ![i] = "none"]
    /\ spent' = [spent EXCEPT ![i] = 0]
    /\ leader' = [leader EXCEPT ![i] = FALSE]
    /\ stopping' = stopping \ {i}
    /\ UNCHANGED <<timer, due, robbed>>

\* Stop gives the key back and returns, or returns when its context ends.  The
\* release may then be under way, or a second copy of one that was sent again.
Release(i) ==
    /\ pc[i] = "release"
    /\ Effect("release", Identity[i]) \/ UNCHANGED redisVars
    /\ \/ UNCHANGED <<late, faults>>
       \/ Fault /\ late' = late \cup Outstanding(i)
    /\ Off(i)

\* The process dies, as it does when Stop gives up waiting.
Crash(i) ==
    /\ pc[i] # "off"
    /\ Fault
    /\ late' = late \cup Outstanding(i)
    /\ Off(i)
    /\ UNCHANGED redisVars

-----------------------------------------------------------------------------
\* Time passes, but not past the deadline of an attempt, nor while a loop has
\* a tick to receive or a cancellation to notice.
MayTick ==
    \A i \in Instances :
        /\ InCall(i) => spent[i] < CallTimeout
        /\ pc[i] = "idle" => ~due[i] /\ i \notin stopping

Ticking(i) == pc[i] # "off" /\ timer[i] # 0

\* Mutant of Tick: the key is set without an expiry.
TickUnexpired ==
    /\ MayTick
    /\ UNCHANGED redisVars
    /\ spent' = [i \in Instances |-> IF InCall(i) THEN spent[i] + 1 ELSE 0]
    /\ timer' = [i \in Instances |->
           CASE ~Ticking(i) -> timer[i]
             [] Ticking(i) /\ timer[i] = 1 -> Interval
             [] Ticking(i) /\ timer[i] > 1 -> timer[i] - 1]
    /\ due' = [i \in Instances |-> due[i] \/ (Ticking(i) /\ timer[i] = 1)]
    /\ UNCHANGED <<pc, answer, stopping, leader, late, robbed, faults>>

\* What a unit of time changes.
Tick ==
    /\ MayTick
    /\ IF lease = 0
       THEN owner' = NoOwner /\ UNCHANGED lease
       ELSE lease' = lease - 1 /\ UNCHANGED owner
    /\ spent' = [i \in Instances |-> IF InCall(i) THEN spent[i] + 1 ELSE 0]
    /\ timer' = [i \in Instances |->
           CASE ~Ticking(i) -> timer[i]
             [] Ticking(i) /\ timer[i] = 1 -> Interval
             [] Ticking(i) /\ timer[i] > 1 -> timer[i] - 1]
    /\ due' = [i \in Instances |-> due[i] \/ (Ticking(i) /\ timer[i] = 1)]
    /\ UNCHANGED <<pc, answer, stopping, leader, late, robbed, faults>>

Next ==
    \/ Tick
    \/ ExecuteLate
    \/ \E i \in Instances :
        \/ Start(i) \/ Attempt(i) \/ Execute(i) \/ Receive(i) \/ Fail(i)
        \/ Resend(i) \/ Stop(i) \/ Cancelled(i) \/ Release(i) \/ Crash(i)

Spec == Init /\ [][Next]_vars

\* A loop goes on by itself, Redis answers, time passes.  Nobody need start,
\* stop or crash an instance, and no command has to fail or arrive late.
Fairness ==
    /\ WF_vars(Tick)
    /\ \A i \in Instances :
        WF_vars(Attempt(i) \/ Execute(i) \/ Receive(i) \/ Cancelled(i) \/ Release(i)
                \/ (i \in stopping /\ Fail(i)))

FairSpec == Spec /\ Fairness

-----------------------------------------------------------------------------
TypeOK ==
    /\ owner \in Identities \cup {NoOwner}
    /\ lease \in 0..TTL
    /\ owner = NoOwner => lease = 0
    /\ pc \in [Instances -> Places]
    /\ answer \in [Instances -> Answers]
    /\ spent \in [Instances -> 0..CallTimeout]
    /\ timer \in [Instances -> 0..Interval]
    /\ due \in [Instances -> BOOLEAN]
    /\ stopping \subseteq Instances
    /\ leader \in [Instances -> BOOLEAN]
    /\ late \subseteq {"setnx", "renew", "release"} \X Identities
    /\ robbed \subseteq Instances
    /\ faults \in 0..MaxFaults

\* Two instances never both pass canRunAsLeader: whoever cannot renew in time
\* clears its flag before the key lapses and another instance takes it, also
\* when calls are slow, fail, are sent twice, or are executed after their caller
\* gave up.  There is one exception, and no other: the release of an earlier
\* life with the same identity arrives late and deletes the key under an
\* instance, which goes on leading until its next attempt tells it.
AtMostOneLeader ==
    \A i, j \in Instances \ robbed : leader[i] /\ leader[j] => i = j

\* As long as some instance is up there will be a leader, although keys of the
\* dead must lapse first and replies get lost.
LeaderElected ==
    \A i \in Instances :
        pc[i] \notin {"off", "release"} ~> (\E j \in Instances : leader[j]) \/ pc[i] = "off"
=============================================================================
