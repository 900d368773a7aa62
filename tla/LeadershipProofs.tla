--------------------------- MODULE LeadershipProofs ---------------------------
(***************************************************************************)
(* That at most one instance leads, for any number of instances and faults *)
(* and any lease, provided that each has an identity of its own and that   *)
(* two calls and a renewal interval fit into the lease; excepted are those *)
(* whose key a late release of an earlier life has deleted, until they get *)
(* it again.  The argument is one of time: whoever else leads holds the    *)
(* key, and the key has at least the time left that may pass before this   *)
(* instance clears its flag.                                               *)
(***************************************************************************)
EXTENDS Leadership, TLAPS

\* Each instance is configured with an identity of its own.
Distinct == \A i, j \in Instances : Identity[i] = Identity[j] => i = j

\* An attempt may be granted the lease when it starts and be told so when its
\* time is up; then an interval passes before the next, which may fail only
\* when its time is up.
FitsLease == 2 * CallTimeout + Interval <= TTL

\* The time until an idle loop makes its next attempt, at most.
Until(i) == IF due[i] THEN 0 ELSE timer[i]

Holds(i) == owner = Identity[i]

\* An instance whose loop runs and is not in its first call has a ticker.
TickerRuns == \A i \in Instances : pc[i] = "idle" => timer[i] > 0

LeadersTime ==
    \A i \in Instances \ robbed : leader[i] =>
        /\ pc[i] \in Calling \cup {"idle"}
        /\ Holds(i)
        /\ pc[i] = "idle" => lease >= Until(i) + CallTimeout
        /\ InCall(i) => lease >= CallTimeout - spent[i]

\* Whoever has been granted or has renewed the key and is yet to be told.
GrantedTime ==
    \A i \in Instances \ robbed : pc[i] \in {"setnx", "renew"} /\ answer[i] = "yes" =>
        Holds(i) /\ lease >= TTL - spent[i]

IInv == TypeOK /\ TickerRuns /\ LeadersTime /\ GrantedTime

-----------------------------------------------------------------------------
\* The times are positive and an attempt is shorter than the lease.
LEMMA Times ==
    /\ Interval \in Nat /\ Interval > 0
    /\ CallTimeout \in Nat /\ CallTimeout > 0
    /\ TTL \in Nat
    /\ FitsLease => CallTimeout + Interval + CallTimeout <= TTL
<1>1. TTL \in Nat /\ TTL >= 3 /\ RenewInterval \in Int
  BY LeadershipAssumption
<1>2. /\ TTL \div 3 \in Nat /\ TTL \div 3 > 0 /\ 3 * (TTL \div 3) <= TTL
      /\ TTL \div 2 \in Nat /\ TTL \div 2 > 0
  BY <1>1
<1>3. Interval \in Nat /\ Interval > 0 /\ Interval <= TTL \div 3
  BY <1>1, <1>2 DEF Interval, ClampRenewInterval
<1>4. CallTimeout \in Nat /\ CallTimeout > 0
  BY <1>1, <1>2, <1>3 DEF CallTimeout
<1> QED
  BY <1>1, <1>3, <1>4 DEF FitsLease

\* The default interval of the code fits any lease that is a multiple of three
\* units, as every lease of whole seconds is in the nanoseconds it is kept in
\* (or close to: 30 s is).
THEOREM DefaultFits ==
    ASSUME RenewInterval <= 0, NEW k \in Nat, TTL = 3 * k
    PROVE  FitsLease
<1>1. TTL >= 3 /\ k >= 1
  BY LeadershipAssumption
<1>2. TTL \div 3 = k /\ Interval = k
  BY <1>1, LeadershipAssumption DEF Interval, ClampRenewInterval
<1>3. CallTimeout = k
  BY <1>1, <1>2 DEF CallTimeout
<1> QED
  BY <1>2, <1>3 DEF FitsLease

LEMMA InitInductive == Init => IInv
BY Times, LeadershipAssumption
DEF Init, IInv, TypeOK, TickerRuns, LeadersTime, GrantedTime, Places, Answers, Calling

LEMMA StartStep ==
    ASSUME IInv, Distinct, FitsLease, NEW i \in Instances, Start(i)
    PROVE  IInv'
<1>1. TypeOK'
  BY Times, LeadershipAssumption
  DEF IInv, TypeOK, Places, Answers, Calling, Identities, redisVars, loopVars, Start, InCall
<1>2. TickerRuns'
  BY Times DEF IInv, TypeOK, TickerRuns, redisVars, loopVars, Start, InCall, Calling, Places
<1>3. LeadersTime'
  BY Times, LeadershipAssumption DEF IInv, TypeOK, TickerRuns, LeadersTime, GrantedTime, Distinct, Holds, Until, InCall, Calling, Places, Identities, redisVars, loopVars, Start
<1>4. GrantedTime'
  BY Times, LeadershipAssumption DEF IInv, TypeOK, GrantedTime, LeadersTime, Distinct, Holds, InCall, Calling, Places, Identities, redisVars, loopVars, Start
<1> QED
  BY <1>1, <1>2, <1>3, <1>4 DEF IInv

LEMMA AttemptStep ==
    ASSUME IInv, Distinct, FitsLease, NEW i \in Instances, Attempt(i)
    PROVE  IInv'
<1>1. TypeOK'
  BY Times, LeadershipAssumption
  DEF IInv, TypeOK, Places, Answers, Calling, Identities, redisVars, loopVars, Attempt, InCall
<1>2. TickerRuns'
  BY Times DEF IInv, TypeOK, TickerRuns, redisVars, loopVars, Attempt, InCall, Calling, Places
<1>3. LeadersTime'
  BY Times, LeadershipAssumption DEF IInv, TypeOK, TickerRuns, LeadersTime, GrantedTime, Distinct, Holds, Until, InCall, Calling, Places, Identities, redisVars, loopVars, Attempt
<1>4. GrantedTime'
  BY Times, LeadershipAssumption DEF IInv, TypeOK, GrantedTime, LeadersTime, Distinct, Holds, InCall, Calling, Places, Identities, redisVars, loopVars, Attempt
<1> QED
  BY <1>1, <1>2, <1>3, <1>4 DEF IInv

LEMMA EffectCases ==
    ASSUME IInv, NEW id \in Identities, NEW c \in {"setnx", "get", "renew"},
           Effect(c, id)
    PROVE  /\ owner' = owner \/ (owner = NoOwner /\ owner' = id)
           /\ lease' = lease \/ lease' = TTL
           /\ c \in {"setnx", "renew"} /\ Succeeds(c, id) => owner' = id /\ lease' = TTL
           /\ owner' \in Identities \cup {NoOwner} /\ lease' \in 0..TTL
           /\ owner' = NoOwner => lease' = 0
<1>1. owner \in Identities \cup {NoOwner} /\ lease \in 0..TTL
      /\ (owner = NoOwner => lease = 0) /\ TTL \in Nat /\ NoOwner \notin Identities
  BY LeadershipAssumption DEF IInv, TypeOK
<1>2. CASE c = "setnx"
  BY <1>1, <1>2 DEF Effect, SetNX, Succeeds, redisVars
<1>3. CASE c = "get"
  BY <1>1, <1>3 DEF Effect, Succeeds, redisVars
<1>4. CASE c = "renew"
  BY <1>1, <1>4 DEF Effect, Renew, Succeeds, redisVars
<1> QED
  BY <1>2, <1>3, <1>4

LEMMA ExecuteStep ==
    ASSUME IInv, Distinct, FitsLease, NEW i \in Instances, Execute(i)
    PROVE  IInv'
<1> DEFINE c == pc[i]
<1>1. /\ c \in {"setnx", "get", "renew"} /\ answer[i] = "none"
      /\ Identity[i] \in Identities /\ Effect(c, Identity[i])
  BY DEF Execute, InCall, Calling, Identities
<1>2. /\ owner' = owner \/ (owner = NoOwner /\ owner' = Identity[i])
      /\ lease' = lease \/ lease' = TTL
      /\ c \in {"setnx", "renew"} /\ Succeeds(c, Identity[i]) =>
             owner' = Identity[i] /\ lease' = TTL
      /\ owner' \in Identities \cup {NoOwner} /\ lease' \in 0..TTL
      /\ owner' = NoOwner => lease' = 0
  <2> HIDE DEF c
  <2> QED BY <1>1, EffectCases
<1>3. /\ answer' = [answer EXCEPT ![i] = IF Succeeds(c, Identity[i]) THEN "yes" ELSE "no"]
      /\ UNCHANGED <<pc, spent, timer, due, stopping, leader, late, faults>>
      /\ robbed' = IF c # "get" /\ Succeeds(c, Identity[i]) THEN robbed \ {i} ELSE robbed
  BY DEF Execute
<1>4. TypeOK'
  BY <1>2, <1>3 DEF IInv, TypeOK, Answers
<1>a. i \in robbed /\ i \notin robbed' => owner' = Identity[i] /\ lease' = TTL
  BY <1>1, <1>2, <1>3
<1>b. \A j \in Instances \ robbed' : j \notin robbed \/ (j = i /\ i \in robbed)
  BY <1>3
<1>5. \A j \in Instances : Identity[j] \in Identities /\ Identity[j] # NoOwner
  BY LeadershipAssumption DEF Identities
<1>6. /\ lease \in 0..TTL /\ TTL \in Nat
      /\ \A j \in Instances : spent[j] \in 0..CallTimeout
  BY LeadershipAssumption DEF IInv, TypeOK
<1>7. TickerRuns'
  BY <1>3 DEF IInv, TickerRuns
<1>8. lease' >= lease
  BY <1>2, <1>6
<1>9. LeadersTime'
  <2> SUFFICES ASSUME NEW j \in Instances \ robbed', leader'[j]
               PROVE  /\ pc'[j] \in Calling \cup {"idle"}
                      /\ Holds(j)'
                      /\ pc'[j] = "idle" => lease' >= Until(j)' + CallTimeout
                      /\ InCall(j)' => lease' >= CallTimeout - spent'[j]
    BY DEF LeadersTime
  <2>0. CASE j = i /\ i \in robbed
    <3>1. pc'[i] \in {"setnx", "get", "renew"}
      BY <1>1, <1>3
    <3>2. owner' = Identity[i] /\ lease' = TTL /\ spent'[i] \in Nat
      BY <2>0, <1>a, <1>3, <1>6, Times
    <3> QED
      BY <2>0, <3>1, <3>2, Times DEF Holds, Calling
  <2> SUFFICES ASSUME j \notin robbed
               PROVE  /\ pc'[j] \in Calling \cup {"idle"}
                      /\ Holds(j)'
                      /\ pc'[j] = "idle" => lease' >= Until(j)' + CallTimeout
                      /\ InCall(j)' => lease' >= CallTimeout - spent'[j]
    BY <2>0, <1>b
  <2>1. /\ pc[j] \in Calling \cup {"idle"} /\ Holds(j)
        /\ pc[j] = "idle" => lease >= Until(j) + CallTimeout
        /\ InCall(j) => lease >= CallTimeout - spent[j]
    BY <1>3 DEF IInv, LeadersTime
  <2>2. Holds(j)'
    BY <2>1, <1>2, <1>5 DEF Holds
  <2>3. Until(j) \in Nat /\ Until(j)' = Until(j)
    BY <1>3, Times DEF IInv, TypeOK, Until
  <2>4. lease' \in Nat /\ lease \in Nat /\ spent[j] \in Nat
    BY <1>2, <1>6, Times
  <2>5. pc' = pc /\ spent' = spent
    BY <1>3
  <2>6. pc'[j] = "idle" => lease' >= Until(j)' + CallTimeout
    BY <2>1, <2>3, <2>4, <2>5, <1>8, Times
  <2>7. InCall(j)' => lease' >= CallTimeout - spent'[j]
    BY <2>1, <2>4, <2>5, <1>8, Times DEF InCall
  <2> QED
    BY <2>1, <2>2, <2>5, <2>6, <2>7
<1>10. GrantedTime'
  <2> SUFFICES ASSUME NEW j \in Instances \ robbed', pc'[j] \in {"setnx", "renew"}, answer'[j] = "yes"
               PROVE  Holds(j)' /\ lease' >= TTL - spent'[j]
    BY DEF GrantedTime
  <2>1. CASE j = i
    <3>1. Succeeds(c, Identity[i]) /\ c \in {"setnx", "renew"}
      BY <2>1, <1>3 DEF IInv, TypeOK
    <3> QED
      BY <2>1, <3>1, <1>2, <1>3, <1>6 DEF Holds
  <2>2. CASE j # i
    <3>0. j \notin robbed
      BY <2>2, <1>b
    <3>1. Holds(j) /\ lease >= TTL - spent[j]
      BY <2>2, <3>0, <1>3 DEF IInv, TypeOK, GrantedTime
    <3> QED
      BY <3>1, <1>2, <1>3, <1>5, <1>6, <1>8 DEF Holds
  <2> QED
    BY <2>1, <2>2
<1> QED
  BY <1>4, <1>7, <1>9, <1>10 DEF IInv

\* A late release leaves nobody with the key who is not counted as robbed.
LEMMA ExecuteLateStep ==
    ASSUME IInv, ExecuteLate
    PROVE  IInv'
<1>1. PICK m \in late :
          /\ Effect(m[1], m[2]) /\ late' = late \ {m}
          /\ robbed' = IF m[1] = "release" /\ owner = m[2]
                       THEN robbed \cup {i \in Instances : Identity[i] = m[2]}
                       ELSE robbed
  BY DEF ExecuteLate
<1>2. m[1] \in {"setnx", "renew", "release"} /\ m[2] \in Identities
  BY <1>1 DEF IInv, TypeOK
<1>3. UNCHANGED <<pc, answer, spent, timer, due, stopping, leader, faults>>
  BY DEF ExecuteLate, loopVars
<1>4. \A j \in Instances : Identity[j] \in Identities /\ Identity[j] # NoOwner
  BY LeadershipAssumption DEF Identities
<1>5. TTL \in Nat /\ lease \in 0..TTL
  BY LeadershipAssumption DEF IInv, TypeOK
<1>6. /\ owner' \in Identities \cup {NoOwner} /\ lease' \in 0..TTL
      /\ owner' = NoOwner => lease' = 0
      /\ \A j \in Instances \ robbed' :
             j \notin robbed /\ (Holds(j) => Holds(j)' /\ lease' >= lease)
  <2>1. CASE m[1] # "release"
    <3>1. /\ owner' = owner \/ (owner = NoOwner /\ owner' = m[2])
          /\ lease' = lease \/ lease' = TTL
          /\ owner' \in Identities \cup {NoOwner} /\ lease' \in 0..TTL
          /\ owner' = NoOwner => lease' = 0
      BY <2>1, <1>1, <1>2, EffectCases
    <3> QED
      BY <2>1, <3>1, <1>1, <1>4, <1>5 DEF Holds
  <2>2. CASE m[1] = "release"
    <3>1. ReleaseKey(m[2])
      BY <2>2, <1>1 DEF Effect
    <3>2. CASE owner = m[2]
      BY <2>2, <3>1, <3>2, <1>1, <1>5 DEF ReleaseKey, Holds
    <3>3. CASE owner # m[2]
      BY <2>2, <3>1, <3>3, <1>1, <1>5 DEF ReleaseKey, Holds, redisVars, IInv, TypeOK
    <3> QED
      BY <3>2, <3>3
  <2> QED
    BY <2>1, <2>2
<1>7. TypeOK'
  BY <1>1, <1>3, <1>6 DEF IInv, TypeOK
<1>8. TickerRuns'
  BY <1>3 DEF IInv, TickerRuns
<1>9. \A j \in Instances : Until(j) \in Nat /\ Until(j)' = Until(j)
  BY <1>3, Times DEF IInv, TypeOK, Until
<1>10. \A j \in Instances : spent[j] \in Nat
  BY Times DEF IInv, TypeOK
<1>11. LeadersTime'
  BY <1>3, <1>5, <1>6, <1>9, <1>10, Times DEF IInv, LeadersTime, InCall
<1>12. GrantedTime'
  BY <1>3, <1>5, <1>6, <1>10, Times DEF IInv, GrantedTime
<1> QED
  BY <1>7, <1>8, <1>11, <1>12 DEF IInv

LEMMA CancelledStep ==
    ASSUME IInv, Distinct, FitsLease, NEW i \in Instances, Cancelled(i)
    PROVE  IInv'
<1>1. TypeOK'
  BY Times, LeadershipAssumption
  DEF IInv, TypeOK, Places, Answers, Calling, Identities, redisVars, loopVars, Cancelled, InCall
<1>2. TickerRuns'
  BY Times DEF IInv, TypeOK, TickerRuns, redisVars, loopVars, Cancelled, InCall, Calling, Places
<1>3. LeadersTime'
  BY Times, LeadershipAssumption DEF IInv, TypeOK, TickerRuns, LeadersTime, GrantedTime, Distinct, Holds, Until, InCall, Calling, Places, Identities, redisVars, loopVars, Cancelled
<1>4. GrantedTime'
  BY Times, LeadershipAssumption DEF IInv, TypeOK, GrantedTime, LeadersTime, Distinct, Holds, InCall, Calling, Places, Identities, redisVars, loopVars, Cancelled
<1> QED
  BY <1>1, <1>2, <1>3, <1>4 DEF IInv

LEMMA StopStep ==
    ASSUME IInv, Distinct, FitsLease, NEW i \in Instances, Stop(i)
    PROVE  IInv'
<1>1. TypeOK'
  BY Times, LeadershipAssumption
  DEF IInv, TypeOK, Places, Answers, Calling, Identities, redisVars, loopVars, Stop, Fault, InCall
<1>2. TickerRuns'
  BY Times DEF IInv, TypeOK, TickerRuns, redisVars, loopVars, Stop, Fault, InCall, Calling, Places
<1>3. LeadersTime'
  BY Times, LeadershipAssumption DEF IInv, TypeOK, TickerRuns, LeadersTime, GrantedTime, Distinct, Holds, Until, InCall, Calling, Places, Identities, redisVars, loopVars, Stop, Fault
<1>4. GrantedTime'
  BY Times, LeadershipAssumption DEF IInv, TypeOK, GrantedTime, LeadersTime, Distinct, Holds, InCall, Calling, Places, Identities, redisVars, loopVars, Stop, Fault
<1> QED
  BY <1>1, <1>2, <1>3, <1>4 DEF IInv

LEMMA ReleaseStep ==
    ASSUME IInv, Distinct, FitsLease, NEW i \in Instances, Release(i)
    PROVE  IInv'
<1>1. TypeOK'
  BY Times, LeadershipAssumption
  DEF IInv, TypeOK, Places, Answers, Calling, Identities, redisVars, loopVars, Release, Off, Effect, ReleaseKey, Fault, Outstanding, InCall
<1>2. TickerRuns'
  BY Times DEF IInv, TypeOK, TickerRuns, redisVars, loopVars, Release, Off, Effect, ReleaseKey, Fault, Outstanding, InCall, Calling, Places
<1>3. LeadersTime'
  BY Times, LeadershipAssumption DEF IInv, TypeOK, TickerRuns, LeadersTime, GrantedTime, Distinct, Holds, Until, InCall, Calling, Places, Identities, redisVars, loopVars, Release, Off, Effect, ReleaseKey, Fault, Outstanding
<1>4. GrantedTime'
  BY Times, LeadershipAssumption DEF IInv, TypeOK, GrantedTime, LeadersTime, Distinct, Holds, InCall, Calling, Places, Identities, redisVars, loopVars, Release, Off, Effect, ReleaseKey, Fault, Outstanding
<1> QED
  BY <1>1, <1>2, <1>3, <1>4 DEF IInv

LEMMA CrashStep ==
    ASSUME IInv, Distinct, FitsLease, NEW i \in Instances, Crash(i)
    PROVE  IInv'
<1>1. TypeOK'
  BY Times, LeadershipAssumption
  DEF IInv, TypeOK, Places, Answers, Calling, Identities, redisVars, loopVars, Crash, Off, Fault, Outstanding, InCall
<1>2. TickerRuns'
  BY Times DEF IInv, TypeOK, TickerRuns, redisVars, loopVars, Crash, Off, Fault, Outstanding, InCall, Calling, Places
<1>3. LeadersTime'
  BY Times, LeadershipAssumption DEF IInv, TypeOK, TickerRuns, LeadersTime, GrantedTime, Distinct, Holds, Until, InCall, Calling, Places, Identities, redisVars, loopVars, Crash, Off, Fault, Outstanding
<1>4. GrantedTime'
  BY Times, LeadershipAssumption DEF IInv, TypeOK, GrantedTime, LeadersTime, Distinct, Holds, InCall, Calling, Places, Identities, redisVars, loopVars, Crash, Off, Fault, Outstanding
<1> QED
  BY <1>1, <1>2, <1>3, <1>4 DEF IInv

LEMMA FailStep ==
    ASSUME IInv, Distinct, FitsLease, NEW i \in Instances, Fail(i)
    PROVE  IInv'
<1>1. TypeOK'
  BY Times, LeadershipAssumption
  DEF IInv, TypeOK, Places, Answers, Calling, Identities, redisVars, loopVars, Fail, Return, Fault, Outstanding, InCall
<1>2. TickerRuns'
  BY Times DEF IInv, TypeOK, TickerRuns, redisVars, loopVars, Fail, Return, Fault, Outstanding, InCall, Calling, Places
<1>3. LeadersTime'
  BY Times, LeadershipAssumption DEF IInv, TypeOK, TickerRuns, LeadersTime, GrantedTime, Distinct, Holds, Until, InCall, Calling, Places, Identities, redisVars, loopVars, Fail, Return, Fault, Outstanding
<1>4. GrantedTime'
  BY Times, LeadershipAssumption DEF IInv, TypeOK, GrantedTime, LeadersTime, Distinct, Holds, InCall, Calling, Places, Identities, redisVars, loopVars, Fail, Return, Fault, Outstanding
<1> QED
  BY <1>1, <1>2, <1>3, <1>4 DEF IInv

LEMMA ResendStep ==
    ASSUME IInv, Distinct, FitsLease, NEW i \in Instances, Resend(i)
    PROVE  IInv'
<1>1. TypeOK'
  BY Times, LeadershipAssumption
  DEF IInv, TypeOK, Places, Answers, Calling, Identities, redisVars, loopVars, Resend, Fault, Outstanding, InCall
<1>2. TickerRuns'
  BY Times DEF IInv, TypeOK, TickerRuns, redisVars, loopVars, Resend, Fault, Outstanding, InCall, Calling, Places
<1>3. LeadersTime'
  BY Times, LeadershipAssumption DEF IInv, TypeOK, TickerRuns, LeadersTime, GrantedTime, Distinct, Holds, Until, InCall, Calling, Places, Identities, redisVars, loopVars, Resend, Fault, Outstanding
<1>4. GrantedTime'
  BY Times, LeadershipAssumption DEF IInv, TypeOK, GrantedTime, LeadersTime, Distinct, Holds, InCall, Calling, Places, Identities, redisVars, loopVars, Resend, Fault, Outstanding
<1> QED
  BY <1>1, <1>2, <1>3, <1>4 DEF IInv

LEMMA ReceiveStep ==
    ASSUME IInv, Distinct, FitsLease, NEW i \in Instances, Receive(i)
    PROVE  IInv'
<1>1. CASE pc[i] \in {"setnx", "renew"} /\ answer[i] = "yes" /\ Return(i, TRUE)
  <2>1. TypeOK' /\ TickerRuns'
    BY <1>1, Times DEF IInv, TypeOK, TickerRuns, Receive, Return, redisVars, Places, Answers
  <2>2. /\ i \notin robbed => Holds(i) /\ lease >= TTL - spent[i]
        /\ spent[i] \in 0..CallTimeout
    BY <1>1 DEF IInv, GrantedTime, TypeOK
  <2>3. /\ timer'[i] \in 0..Interval /\ pc'[i] = "idle"
        /\ i \notin robbed => Holds(i)'
        /\ lease' = lease
    <3>1. timer' \in [Instances -> 0..Interval] /\ pc \in [Instances -> Places]
      BY <2>1 DEF TypeOK, IInv
    <3> QED
      BY <1>1, <2>2, <3>1 DEF Return, redisVars, Holds
  <2>4. Until(i)' \in 0..Interval
    BY <2>3, Times DEF Until
  <2>5. i \notin robbed => lease' >= Until(i)' + CallTimeout
    BY <2>2, <2>3, <2>4, Times DEF IInv, TypeOK
  <2>6. LeadersTime'
    BY <1>1, <2>3, <2>5, Times DEF IInv, TypeOK, LeadersTime, Return, redisVars, Holds, Until, InCall, Calling
  <2>7. GrantedTime'
    BY <1>1, Times DEF IInv, TypeOK, GrantedTime, Return, redisVars, Holds
  <2> QED
    BY <2>1, <2>6, <2>7 DEF IInv
<1>2. CASE pc[i] \in {"get", "renew"} /\ answer[i] = "no" /\ Return(i, FALSE)
  <2>1. TypeOK' /\ TickerRuns'
    BY <1>2, Times DEF IInv, TypeOK, TickerRuns, Receive, Return, redisVars, Places, Answers
  <2>2. LeadersTime'
    BY <1>2, Times DEF IInv, TypeOK, LeadersTime, Return, redisVars, Holds, Until, InCall, Calling
  <2>3. GrantedTime'
    BY <1>2, Times DEF IInv, TypeOK, GrantedTime, Return, redisVars, Holds
  <2> QED
    BY <2>1, <2>2, <2>3 DEF IInv
<1>3. CASE pc[i] \in {"setnx", "get"} /\ (Proceed(i, "get") \/ Proceed(i, "renew"))
  <2>1. TypeOK' /\ TickerRuns'
    BY <1>3, Times DEF IInv, TypeOK, TickerRuns, Receive, Proceed, redisVars, Places, Answers, Calling
  <2>2. LeadersTime'
    BY <1>3, Times DEF IInv, TypeOK, LeadersTime, Proceed, redisVars, Holds, Until, InCall, Calling
  <2>3. GrantedTime'
    BY <1>3, Times DEF IInv, TypeOK, GrantedTime, Proceed, redisVars, Holds
  <2> QED
    BY <2>1, <2>2, <2>3 DEF IInv
<1> QED
  BY <1>1, <1>2, <1>3 DEF Receive

\* Time: the key of a leader cannot lapse, since time waits for a call whose
\* deadline has come and for a loop that has a tick to receive.
LEMMA TickStep ==
    ASSUME IInv, Distinct, FitsLease, Tick
    PROVE  IInv'
<1>1. /\ lease \in 0..TTL
      /\ \A j \in Instances : /\ spent[j] \in 0..CallTimeout
                              /\ timer[j] \in 0..Interval
                              /\ Until(j) \in Nat
  BY Times DEF IInv, TypeOK, Until
<1>2. \A j \in Instances \ robbed : leader[j] => lease > 0
  BY <1>1, Times DEF IInv, LeadersTime, Tick, MayTick, InCall
<1>3. \A j \in Instances \ robbed :
          pc[j] \in {"setnx", "renew"} /\ answer[j] = "yes" => lease > 0
  BY <1>1, Times DEF IInv, GrantedTime, FitsLease
<1>4. lease' \in 0..TTL /\ (lease > 0 => owner' = owner /\ lease' = lease - 1)
      /\ (owner' = NoOwner => lease' = 0) /\ owner' \in Identities \cup {NoOwner}
  BY <1>1, Times DEF IInv, TypeOK, Tick
<1>5. \A j \in Instances : InCall(j) => spent[j] < CallTimeout /\ spent'[j] = spent[j] + 1
  BY DEF Tick, MayTick
<1>6. spent' \in [Instances -> 0..CallTimeout]
  BY <1>1, <1>5, Times DEF Tick
<1>7. timer' \in [Instances -> 0..Interval] /\ due' \in [Instances -> BOOLEAN]
  <2>1. timer' \in [Instances -> 0..Interval]
    BY <1>1, Times DEF Tick, Ticking
  <2>2. due' \in [Instances -> BOOLEAN]
    BY DEF Tick
  <2> QED
    BY <2>1, <2>2
<1>8. TypeOK'
  BY <1>4, <1>6, <1>7 DEF Tick, IInv, TypeOK
<1>9. TickerRuns'
  BY <1>1, Times DEF Tick, Ticking, IInv, TickerRuns
<1>10. LeadersTime'
  <2> SUFFICES ASSUME NEW j \in Instances \ robbed, leader[j]
               PROVE  /\ pc[j] \in Calling \cup {"idle"}
                      /\ Holds(j)'
                      /\ pc[j] = "idle" => lease' >= Until(j)' + CallTimeout
                      /\ InCall(j) => lease' >= CallTimeout - spent'[j]
    BY DEF LeadersTime, Tick, InCall
  <2>1. /\ pc[j] \in Calling \cup {"idle"} /\ Holds(j)
        /\ pc[j] = "idle" => lease >= Until(j) + CallTimeout
        /\ InCall(j) => lease >= CallTimeout - spent[j]
        /\ lease' = lease - 1 /\ owner' = owner
    BY <1>2, <1>4 DEF IInv, LeadersTime
  <2>2. ASSUME pc[j] = "idle"
        PROVE  Until(j) = timer[j] /\ timer[j] > 0 /\ Until(j)' = timer[j] - 1
    <3>1. ~due[j] /\ timer[j] > 0 /\ Ticking(j)
      BY <2>2 DEF Tick, MayTick, IInv, TickerRuns, Ticking
    <3>2. timer[j] \in Nat /\ due' = [i \in Instances |-> due[i] \/ (Ticking(i) /\ timer[i] = 1)]
      BY <1>1, Times DEF Tick
    <3>3. due'[j] <=> timer[j] = 1
      <4>1. due'[j] = (due[j] \/ (Ticking(j) /\ timer[j] = 1))
        BY <3>2, Zenon
      <4> QED
        BY <4>1, <3>1, Zenon
    <3>4. CASE timer[j] = 1
      BY <3>1, <3>4, <3>3 DEF Until
    <3>5. CASE timer[j] > 1
      <4>1. timer'[j] = timer[j] - 1
        BY <3>1, <3>5 DEF Tick
      <4>2. ~due'[j]
        BY <3>5, <3>3, <3>2
      <4> QED
        BY <3>1, <4>1, <4>2 DEF Until
    <3> QED
      BY <3>1, <3>2, <3>4, <3>5 DEF Until
  <2> QED
    BY <2>1, <2>2, <1>1, <1>5, Times DEF Holds
<1>11. GrantedTime'
  <2> SUFFICES ASSUME NEW j \in Instances \ robbed, pc[j] \in {"setnx", "renew"}, answer[j] = "yes"
               PROVE  Holds(j)' /\ lease' >= TTL - spent'[j]
    BY DEF GrantedTime, Tick
  <2> QED
    BY <1>1, <1>3, <1>4, <1>5, Times DEF IInv, GrantedTime, Holds, InCall, Calling
<1> QED
  BY <1>8, <1>9, <1>10, <1>11 DEF IInv

-----------------------------------------------------------------------------
\* Under the two conditions every leader that was not robbed has the key, and
\* time enough to find out that it cannot renew it, in every reachable state.
THEOREM LeadershipInductive ==
    ASSUME Distinct, FitsLease
    PROVE  Spec => []IInv
<1>1. IInv /\ [Next]_vars => IInv'
  <2> SUFFICES ASSUME IInv, [Next]_vars PROVE IInv'
    OBVIOUS
  <2>1. CASE UNCHANGED vars
    BY <2>1 DEF vars, redisVars, loopVars, IInv, TypeOK, TickerRuns, LeadersTime,
                GrantedTime, Holds, Until, InCall
  <2>2. CASE Tick
    BY <2>2, TickStep
  <2>3. CASE ExecuteLate
    BY <2>3, ExecuteLateStep
  <2>4. ASSUME NEW i \in Instances,
               \/ Start(i) \/ Attempt(i) \/ Execute(i) \/ Receive(i) \/ Fail(i)
               \/ Resend(i) \/ Stop(i) \/ Cancelled(i) \/ Release(i) \/ Crash(i)
        PROVE  IInv'
    BY <2>4, StartStep, AttemptStep, ExecuteStep, ReceiveStep, FailStep, ResendStep, StopStep,
       CancelledStep, ReleaseStep, CrashStep
  <2> QED
    BY <2>1, <2>2, <2>3, <2>4 DEF Next
<1> QED
  BY InitInductive, <1>1, PTL DEF Spec

\* The election is well typed in every reachable state; in particular no call
\* outlives its deadline.
THEOREM LeadershipTypeCorrect ==
    ASSUME Distinct, FitsLease
    PROVE  Spec => []TypeOK
<1>1. IInv => TypeOK
  BY DEF IInv
<1> QED
  BY <1>1, LeadershipInductive, PTL

\* At most one instance leads, whatever calls are slow, fail, are repeated or come
\* late and whoever stops or crashes, but for one whose key the late release of
\* an earlier life has deleted since it last got or renewed it.
THEOREM AtMostOneLeaderHolds ==
    ASSUME Distinct, FitsLease
    PROVE  Spec => []AtMostOneLeader
<1>1. IInv => AtMostOneLeader
  BY DEF IInv, LeadersTime, Holds, Distinct, AtMostOneLeader
<1> QED
  BY <1>1, LeadershipInductive, PTL

\* With the default renewal interval nothing but identities of their own is
\* needed, if the lease is a multiple of three units.  The exception remains.
THEOREM AtMostOneLeaderByDefault ==
    ASSUME Distinct, RenewInterval <= 0, NEW k \in Nat, TTL = 3 * k
    PROVE  Spec => []AtMostOneLeader
BY DefaultFits, AtMostOneLeaderHolds
=============================================================================
