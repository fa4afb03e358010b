----------------------------- MODULE LockProofs -----------------------------
(***************************************************************************)
(* Proofs about what runs under an expiring lock: the rounds of crons and  *)
(* the access token of WeChat, as the parts of module Agreement.  Both     *)
(* rest on what ties a holder to his lock: as long as he has not been at   *)
(* work for the time of the lock, the lock is his, and what is left of it  *)
(* is what he has not used yet.                                            *)
(***************************************************************************)
EXTENDS Agreement, FiniteSets, FiniteSetTheorems, TLAPS

-----------------------------------------------------------------------------
(* The rounds of a cron (Scheduler). *)

Rounds ==
    [pc : {"asleep", "ask", "work", "report", "save"}, at : Instance \cup {"none"},
     age : Nat, seen : Nat \cup {J!None}]

JobTypes ==
    /\ jConfig \in Jobs
    /\ jLock.by \in Round \cup {"none"} /\ jLock.left \in Nat
    /\ jLock.by = "none" <=> jLock = J!NoLock
    /\ jLock = [by |-> jLock.by, left |-> jLock.left]
    /\ round \in [Round -> Rounds]
    /\ success \in [J!Place -> Nat \cup {J!None}] /\ reported \in [J!Place -> Nat]
    /\ raced \subseteq J!Place

\* A round that is not asleep is one of an instance, and young until it works.
RoundOk(v) ==
    /\ v.pc # "asleep" => v.at \in Instance
    /\ v.pc = "ask" => v.age = 0

\* Who is at work has the lock, or has had it for as long as it lasts.
Holds(r) ==
    \/ round[r].age >= jConfig.ttl
    \/ jLock.by = r /\ jLock.left = (jConfig.ttl - round[r].age) * 1000

\* A counter that no two rounds count at a time.
Counts(p) ==
    /\ success[p] = IF reported[p] = 0 THEN J!None
                    ELSE IF p = "redis" THEN reported[p] ELSE 1
    /\ \A r \in J!At("save") : J!Kept(r) = p =>
          /\ round[r].seen = success[p]
          /\ \A q \in J!At("save") : J!Kept(q) = p => q = r

\* The inductive invariant.
JobInv ==
    /\ JobTypes
    /\ \A r \in Round : RoundOk(round[r])
    /\ jConfig.redis => \A r \in J!At("work") : Holds(r)
    /\ \A p \in J!Read \ raced : Counts(p)

\* Counters are read in places.
LEMMA ReadPlaces == J!Read \subseteq J!Place
BY DEF J!Read, J!Place

\* It holds in the beginning.
LEMMA InitJobInv == ASSUME J!SchedulerAssumption, J!Init PROVE JobInv
<1> USE DEF J!Init, J!SchedulerAssumption
<1>1. J!Asleep \in Rounds /\ RoundOk(J!Asleep) /\ J!Asleep.pc = "asleep"
  BY DEF J!Asleep, Rounds, RoundOk, J!None
<1>2. \A pc \in {"work", "save"} : J!At(pc) = {}
  BY <1>1 DEF J!At
<1>3. JobTypes
  BY <1>1 DEF JobTypes, J!NoLock
<1>4. \A p \in J!Place : Counts(p)
  BY <1>2 DEF Counts
<1> QED BY <1>1, <1>2, <1>3, <1>4, ReadPlaces DEF JobInv

\* A step of a round that touches no counter.
LEMMA RoundStep ==
    ASSUME JobInv, NEW r \in Round, NEW n \in Rounds, round' = [round EXCEPT ![r] = n],
           RoundOk(n), n.pc # "save", n.pc = "asleep" \/ n.at = round[r].at,
           UNCHANGED <<jConfig, success, reported, raced>>
    PROVE  \A p \in J!Read \ raced : Counts(p)'
<1> SUFFICES ASSUME NEW p \in J!Read \ raced PROVE Counts(p)'
  OBVIOUS
<1>1. Counts(p) /\ JobTypes
  BY DEF JobInv
<1>2. \A q \in J!At("save")' : /\ q \in J!At("save") /\ round'[q] = round[q]
                               /\ J!Kept(q)' = J!Kept(q)
  BY <1>1 DEF J!At, JobTypes, J!Kept
<1> QED BY <1>1, <1>2 DEF Counts

\* A round starts.
LEMMA OnTickRound ==
    ASSUME JobInv, NEW i \in Instance, NEW r \in Round, J!OnTick(i, r)
    PROVE  JobInv'
<1> PICK n : n = [J!Asleep EXCEPT !.pc = "ask", !.at = i]
  OBVIOUS
<1>1. JobTypes /\ round' = [round EXCEPT ![r] = n] /\ round[r] = J!Asleep
      /\ UNCHANGED <<jConfig, jLock, success, reported, raced>>
  BY DEF JobInv, J!OnTick
<1>2. n \in Rounds /\ RoundOk(n) /\ n.pc = "ask"
  BY DEF J!Asleep, Rounds, RoundOk, J!None
<1>3. JobTypes'
  BY <1>1, <1>2 DEF JobTypes
<1>4. \A q \in Round : RoundOk(round'[q])
  BY <1>1, <1>2 DEF JobInv, JobTypes
<1>5. \A q \in Round : round'[q].pc \in {"work", "save"} => round'[q] = round[q]
  BY <1>1, <1>2 DEF JobTypes
<1>6. ASSUME jConfig'.redis, NEW q \in J!At("work")' PROVE Holds(q)'
  <2>1. q \in J!At("work") /\ round'[q] = round[q]
    BY <1>5, <1>6 DEF J!At
  <2>2. Holds(q)
    BY <1>1, <1>6, <2>1 DEF JobInv
  <2> QED BY <1>1, <2>1, <2>2 DEF Holds
<1>7. ASSUME NEW p \in J!Read \ raced PROVE Counts(p)'
  <2>1. Counts(p)
    BY <1>7 DEF JobInv
  <2>2. \A q \in J!At("save")' : /\ q \in J!At("save") /\ round'[q] = round[q]
                                 /\ J!Kept(q)' = J!Kept(q)
    BY <1>1, <1>5 DEF J!At, J!Kept
  <2> QED BY <1>1, <2>1, <2>2 DEF Counts
<1> QED BY <1>1, <1>3, <1>4, <1>6, <1>7 DEF JobInv, J!Read

\* A round asks for the lock, and works, or is passed over; or it ends its work.
LEMMA WorkingRound ==
    ASSUME J!SchedulerAssumption, JobInv, NEW r \in Round,
           J!Work(r) \/ J!PassOver(r) \/ J!Succeed(r) \/ J!Fail(r)
    PROVE  JobInv'
<1>1. /\ JobTypes /\ RoundOk(round[r]) /\ round[r] \in Rounds
      /\ UNCHANGED <<jConfig, success, reported, raced>>
  BY DEF JobInv, JobTypes, J!Work, J!PassOver, J!Succeed, J!Fail
<1>2. jConfig \in [redis : BOOLEAN, ttl : Nat \ {0}, work : Nat]
  BY <1>1 DEF J!SchedulerAssumption, JobTypes
<1>3. \E pc \in {"work", "report", "asleep"} :
         /\ round' = IF pc = "asleep" THEN [round EXCEPT ![r] = J!Asleep]
                     ELSE [round EXCEPT ![r].pc = pc]
         /\ pc # "work" => jLock' \in {jLock, J!Released(jLock, r)}
         /\ pc = "work" => /\ round[r].pc = "ask"
                           /\ jConfig.redis => jLock = J!NoLock /\ jLock' = J!Taken(r, J!Ttl)
                           /\ ~jConfig.redis => jLock' = jLock
  <2>1. CASE J!Work(r)
    BY <1>2, <2>1 DEF J!Work, J!Free
  <2>2. CASE J!PassOver(r)
    BY <2>2 DEF J!PassOver
  <2>3. CASE J!Succeed(r)
    BY <2>3 DEF J!Succeed
  <2>4. CASE J!Fail(r)
    BY <2>4 DEF J!Fail
  <2> QED BY <2>1, <2>2, <2>3, <2>4
<1>4. PICK pc \in {"work", "report", "asleep"} :
         /\ round' = IF pc = "asleep" THEN [round EXCEPT ![r] = J!Asleep]
                     ELSE [round EXCEPT ![r].pc = pc]
         /\ pc # "work" => jLock' \in {jLock, J!Released(jLock, r)}
         /\ pc = "work" => /\ round[r].pc = "ask"
                           /\ jConfig.redis => jLock = J!NoLock /\ jLock' = J!Taken(r, J!Ttl)
                           /\ ~jConfig.redis => jLock' = jLock
  BY <1>3
<1>5. round[r].pc # "asleep"
  BY DEF J!Work, J!PassOver, J!Succeed, J!Fail
<1> PICK n : n = IF pc = "asleep" THEN J!Asleep ELSE [round[r] EXCEPT !.pc = pc]
  OBVIOUS
<1>6. round' = [round EXCEPT ![r] = n]
  BY <1>1, <1>4 DEF JobTypes
<1>7. n \in Rounds /\ n.pc = pc /\ (pc # "asleep" => n.at = round[r].at /\ n.age = round[r].age)
  BY <1>1 DEF Rounds, J!Asleep, J!None
<1>8. RoundOk(n)
  BY <1>1, <1>5, <1>7 DEF RoundOk
<1>9. round'[r] = n /\ \A q \in Round \ {r} : round'[q] = round[q]
  BY <1>1, <1>6 DEF JobTypes
<1>10. JobTypes'
  <2>1. /\ jLock'.by \in Round \cup {"none"} /\ jLock'.left \in Nat
        /\ jLock'.by = "none" <=> jLock' = J!NoLock
        /\ jLock' = [by |-> jLock'.by, left |-> jLock'.left]
    <3>1. CASE jLock' = jLock
      BY <1>1, <3>1 DEF JobTypes
    <3>2. CASE jLock' = J!NoLock
      BY <3>2 DEF J!NoLock
    <3>3. CASE jLock' = J!Taken(r, J!Ttl)
      <4>1. J!Ttl \in Nat /\ r # "none"
        BY <1>2 DEF J!Ttl, J!SchedulerAssumption
      <4> QED BY <3>3, <4>1 DEF J!Taken, J!NoLock
    <3> QED BY <1>2, <1>4, <3>1, <3>2, <3>3 DEF J!Released
  <2> QED BY <1>1, <1>6, <1>7, <2>1 DEF JobTypes
<1>11. ASSUME jConfig'.redis, NEW q \in J!At("work")' PROVE Holds(q)'
  <2>1. CASE q = r
    <3>1. pc = "work" /\ n.age = 0
      BY <1>1, <1>4, <1>7, <1>9, <1>11, <2>1 DEF J!At, RoundOk
    <3>2. jLock'.by = r /\ jLock'.left = jConfig.ttl * 1000
      BY <1>1, <1>4, <1>11, <3>1 DEF J!Taken, J!Ttl
    <3>3. round'[r].age = 0 /\ jConfig' = jConfig /\ jConfig.ttl \in Nat
      BY <1>1, <1>2, <1>9, <3>1
    <3>4. jLock'.left = (jConfig.ttl - round'[r].age) * 1000
      BY <3>2, <3>3
    <3> QED BY <2>1, <3>2, <3>3, <3>4 DEF Holds
  <2>2. CASE q # r
    <3>1. q \in J!At("work") /\ round'[q] = round[q]
      BY <1>9, <1>11, <2>2 DEF J!At
    <3>2. Holds(q) /\ q \in Round
      BY <1>1, <1>11, <3>1 DEF JobInv, J!At
    <3>3. jLock.by = q => jLock' = jLock
      <4>1. jLock.by = q => jLock # J!NoLock
        BY <3>2 DEF J!NoLock, J!SchedulerAssumption
      <4> QED BY <1>1, <1>4, <1>11, <2>2, <4>1 DEF J!Released
    <3> QED BY <1>1, <3>1, <3>2, <3>3 DEF Holds
  <2> QED BY <2>1, <2>2
<1>12. \A p \in J!Read \ raced : Counts(p)'
  BY <1>1, <1>6, <1>7, <1>8, RoundStep
<1>13. \A q \in Round : RoundOk(round'[q])
  BY <1>8, <1>9 DEF JobInv
<1> QED BY <1>1, <1>10, <1>11, <1>12, <1>13 DEF JobInv, J!Read

\* A round reads the counter.
LEMMA ReportRound ==
    ASSUME JobInv, NEW r \in Round, J!Report(r)
    PROVE  JobInv'
<1> PICK n : n = [round[r] EXCEPT !.pc = "save", !.seen = success[J!Kept(r)]]
  OBVIOUS
<1>1. /\ JobTypes /\ RoundOk(round[r]) /\ round[r] \in Rounds /\ round[r].pc = "report"
      /\ UNCHANGED <<jConfig, jLock, success, reported>>
      /\ raced' = raced \cup {J!Kept(r) : q \in {q \in J!At("save") : J!Kept(q) = J!Kept(r)}}
  BY DEF JobInv, JobTypes, J!Report
<1>2. J!Kept(r) \in J!Place
  BY <1>1 DEF J!Kept, J!Place, RoundOk
<1>3. n \in Rounds /\ n.pc = "save" /\ n.at = round[r].at /\ n.seen = success[J!Kept(r)]
  BY <1>1, <1>2 DEF Rounds, JobTypes
<1>4. round' = [round EXCEPT ![r] = n]
  BY <1>1 DEF J!Report, JobTypes
<1>5. round'[r] = n /\ \A q \in Round \ {r} : round'[q] = round[q]
  BY <1>1, <1>4 DEF JobTypes
<1>6. JobTypes'
  BY <1>1, <1>2, <1>3, <1>4 DEF JobTypes, J!Place
<1>7. \A q \in Round : RoundOk(round'[q])
  BY <1>1, <1>3, <1>5 DEF JobInv, RoundOk
<1>8. ASSUME jConfig'.redis, NEW q \in J!At("work")' PROVE Holds(q)'
  <2>1. q \in J!At("work") /\ round'[q] = round[q]
    BY <1>3, <1>5, <1>8 DEF J!At
  <2>2. Holds(q)
    BY <1>1, <1>8, <2>1 DEF JobInv
  <2> QED BY <1>1, <2>1, <2>2 DEF Holds
<1>9. \A q \in Round : J!Kept(q)' = J!Kept(q)
  BY <1>1, <1>3, <1>5 DEF J!Kept
<1>10. J!At("save")' = J!At("save") \cup {r} /\ r \notin J!At("save")
  BY ZenonT(60), <1>1, <1>3, <1>5 DEF J!At
<1>11. ASSUME NEW p \in J!Read \ raced' PROVE Counts(p)'
  <2>1. Counts(p)
    BY <1>1, <1>11 DEF JobInv
  <2>2. J!Kept(r) = p => \A q \in J!At("save") : J!Kept(q) # p
    BY <1>1, <1>11
  <2>3. \A q \in J!At("save") : round'[q] = round[q] /\ q \in Round
    BY <1>5, <1>10 DEF J!At
  <2> QED BY ZenonT(60), <1>1, <1>3, <1>5, <1>9, <1>10, <2>1, <2>2, <2>3 DEF Counts
<1> QED BY <1>1, <1>6, <1>7, <1>8, <1>11 DEF JobInv, J!Read

\* A round ends without counting.
LEMMA EndOfRound ==
    ASSUME JobInv, NEW r \in Round, round' = [round EXCEPT ![r] = J!Asleep],
           UNCHANGED <<jConfig, jLock, raced>>, JobTypes',
           \A p \in J!Read \ raced :
              (success'[p] = success[p] /\ reported'[p] = reported[p]) \/ Counts(p)'
    PROVE  JobInv'
<1>1. JobTypes /\ J!Asleep.pc = "asleep" /\ RoundOk(J!Asleep)
  BY DEF JobInv, J!Asleep, RoundOk
<1>2. round'[r] = J!Asleep /\ \A q \in Round \ {r} : round'[q] = round[q]
  BY <1>1 DEF JobTypes
<1>3. \A q \in Round : RoundOk(round'[q])
  BY <1>1, <1>2 DEF JobInv
<1>4. ASSUME jConfig'.redis, NEW q \in J!At("work")' PROVE Holds(q)'
  <2>1. q \in J!At("work") /\ round'[q] = round[q]
    BY <1>1, <1>2, <1>4 DEF J!At
  <2>2. Holds(q)
    BY <1>4, <2>1 DEF JobInv
  <2> QED BY <2>1, <2>2 DEF Holds
<1>5. \A q \in J!At("save")' : /\ q \in J!At("save") /\ round'[q] = round[q]
                               /\ J!Kept(q)' = J!Kept(q)
  BY <1>1, <1>2 DEF J!At, J!Kept
<1>6. ASSUME NEW p \in J!Read \ raced PROVE Counts(p)'
  <2>1. Counts(p)
    BY <1>6 DEF JobInv
  <2>2. CASE success'[p] = success[p] /\ reported'[p] = reported[p]
    BY <1>5, <2>1, <2>2 DEF Counts
  <2> QED BY <1>6, <2>2
<1> QED BY <1>3, <1>4, <1>6 DEF JobInv, J!Read

\* A round saves the counter, which is the one it read if nobody else counted; or
\* it saves where nobody reads.
LEMMA SaveRound ==
    ASSUME J!SchedulerAssumption, JobInv, NEW r \in Round, J!Save(r)
    PROVE  JobInv'
<1> PICK k \in J!Saved(r) :
       /\ success' = [success EXCEPT ![k] = IF k = "redis" \/ @ = J!None
                                            THEN J!Counted(round[r].seen) ELSE @]
       /\ reported' = [reported EXCEPT ![k] = @ + 1]
  BY DEF J!Save
<1>1. /\ JobTypes /\ RoundOk(round[r]) /\ round[r] \in Rounds /\ round[r].pc = "save"
      /\ UNCHANGED <<jConfig, jLock, raced>> /\ round' = [round EXCEPT ![r] = J!Asleep]
  BY DEF JobInv, JobTypes, J!Save
<1>2. /\ k \in J!Place /\ (k = "redis" => jConfig.redis)
      /\ k \in J!Read => k = J!Kept(r)
  BY <1>1 DEF J!Saved, J!Kept, J!Place, J!Read, RoundOk, J!SchedulerAssumption
<1>3. J!Asleep \in Rounds /\ J!Asleep.pc = "asleep"
  BY DEF Rounds, J!Asleep, J!None
<1>4. round'[r] = J!Asleep /\ \A q \in Round \ {r} : round'[q] = round[q]
  BY <1>1 DEF JobTypes
<1>5. J!Counted(round[r].seen) \in Nat \ {0}
  BY <1>1 DEF Rounds, J!Counted, J!None
<1>6. /\ success' \in [J!Place -> Nat \cup {J!None}] /\ reported' \in [J!Place -> Nat]
      /\ reported'[k] = reported[k] + 1 /\ reported[k] \in Nat
      /\ success'[k] = IF k = "redis" \/ success[k] = J!None
                       THEN J!Counted(round[r].seen) ELSE success[k]
      /\ \A p \in J!Place \ {k} : success'[p] = success[p] /\ reported'[p] = reported[p]
  BY <1>1, <1>2, <1>5 DEF JobTypes
<1>7. JobTypes'
  BY <1>1, <1>3, <1>6 DEF JobTypes
<1>8. J!At("save")' = J!At("save") \ {r} /\ r \in J!At("save")
       /\ \A q \in J!At("save")' : round'[q] = round[q] /\ J!Kept(q)' = J!Kept(q)
  BY <1>1, <1>3, <1>4 DEF J!At, J!Kept
<1>9. ASSUME k \in J!Read \ raced PROVE Counts(k)'
  <2>1. Counts(k) /\ k = J!Kept(r)
    BY <1>2, <1>9 DEF JobInv
  <2>2. round[r].seen = success[k] /\ \A q \in J!At("save") : J!Kept(q) = k => q = r
    BY <1>8, <2>1 DEF Counts
  <2>3. \A q \in J!At("save")' : J!Kept(q)' # k
    BY <1>8, <2>2
  <2>4. success[k] = IF reported[k] = 0 THEN J!None
                     ELSE IF k = "redis" THEN reported[k] ELSE 1
    BY <2>1 DEF Counts
  <2>5. success'[k] = IF reported'[k] = 0 THEN J!None
                      ELSE IF k = "redis" THEN reported'[k] ELSE 1
    <3>1. CASE reported[k] = 0
      <4>1. success'[k] = 1
        BY <1>6, <2>2, <2>4, <3>1 DEF J!Counted
      <4> QED BY <1>6, <3>1, <4>1
    <3>2. CASE reported[k] # 0 /\ k = "redis"
      <4>1. success[k] = reported[k] /\ success[k] # J!None
        BY <1>6, <2>4, <3>2 DEF J!None
      <4>2. success'[k] = reported[k] + 1
        BY <1>6, <2>2, <3>2, <4>1 DEF J!Counted
      <4> QED BY <1>6, <3>2, <4>2
    <3>3. CASE reported[k] # 0 /\ k # "redis"
      <4>1. success[k] = 1 /\ success'[k] = 1
        BY <1>6, <2>4, <3>3 DEF J!None
      <4> QED BY <1>6, <3>3, <4>1
    <3> QED BY <3>1, <3>2, <3>3
  <2> QED BY <2>3, <2>5 DEF Counts
<1>10. \A p \in J!Read \ raced :
          (success'[p] = success[p] /\ reported'[p] = reported[p]) \/ Counts(p)'
  BY <1>6, <1>9, ReadPlaces
<1> QED BY <1>1, <1>7, <1>10, EndOfRound

\* Redis rejects a round that reports.
LEMMA RejectRound ==
    ASSUME JobInv, NEW r \in Round, J!Reject(r)
    PROVE  JobInv'
<1>1. /\ JobTypes /\ UNCHANGED <<jConfig, jLock, success, reported, raced>>
      /\ round' = [round EXCEPT ![r] = J!Asleep]
  BY DEF JobInv, J!Reject
<1>2. J!Asleep \in Rounds
  BY DEF Rounds, J!Asleep, J!None
<1>3. JobTypes'
  BY <1>1, <1>2 DEF JobTypes
<1> QED BY <1>1, <1>3, EndOfRound

\* A counter runs out: unless somebody has read it, counting starts again.
LEMMA ExpireCounter ==
    ASSUME JobInv, NEW k \in J!Place, J!Expire(k)
    PROVE  JobInv'
<1>1. /\ JobTypes /\ UNCHANGED <<jConfig, jLock, round>>
      /\ success' = [success EXCEPT ![k] = J!None] /\ reported' = [reported EXCEPT ![k] = 0]
      /\ raced' = IF \E q \in J!At("save") : J!Kept(q) = k
                  THEN raced \cup {k} ELSE raced \ {k}
  BY DEF JobInv, J!Expire
<1>2. /\ success' \in [J!Place -> Nat \cup {J!None}] /\ reported' \in [J!Place -> Nat]
      /\ success'[k] = J!None /\ reported'[k] = 0
      /\ \A p \in J!Place \ {k} : success'[p] = success[p] /\ reported'[p] = reported[p]
  BY <1>1 DEF JobTypes
<1>3. JobTypes'
  BY <1>1, <1>2 DEF JobTypes
<1>4. /\ \A pc : J!At(pc)' = J!At(pc)
      /\ \A r \in Round : /\ J!Kept(r)' = J!Kept(r) /\ (Holds(r) => Holds(r)')
                           /\ RoundOk(round'[r])
  BY <1>1 DEF J!At, J!Kept, Holds, JobInv
<1>5. ASSUME NEW p \in J!Read \ raced' PROVE Counts(p)'
  <2>1. CASE p = k
    <3>1. \A q \in J!At("save") : J!Kept(q) # k
      BY <1>1, <1>5, <2>1
    <3>2. \A q \in J!At("save")' : J!Kept(q)' # k
      BY <1>4, <3>1 DEF J!At
    <3> QED BY <1>2, <2>1, <3>2 DEF Counts
  <2>2. CASE p # k
    <3>1. Counts(p)
      BY <1>1, <1>5, <2>2 DEF JobInv
    <3>2. success'[p] = success[p] /\ reported'[p] = reported[p]
      BY <1>2, <1>5, <2>2, ReadPlaces
    <3>3. \A q \in J!At("save")' : q \in J!At("save") /\ J!Kept(q)' = J!Kept(q)
      BY <1>4 DEF J!At
    <3> QED BY <1>1, <3>1, <3>2, <3>3 DEF Counts
  <2> QED BY <2>1, <2>2
<1>6. jConfig'.redis => \A r \in J!At("work")' : Holds(r)'
  BY <1>1, <1>4 DEF JobInv, J!At
<1> QED BY <1>1, <1>3, <1>4, <1>5, <1>6 DEF JobInv, J!Read

\* An instance stops: its rounds and the counter in its memory are gone.
LEMMA CrashRounds ==
    ASSUME J!SchedulerAssumption, JobInv, NEW i \in Instance, J!Crash(i)
    PROVE  JobInv'
<1>1. /\ JobTypes /\ UNCHANGED <<jConfig, jLock, raced>>
      /\ round' = [r \in Round |-> IF round[r].at = i THEN J!Asleep ELSE round[r]]
      /\ success' = [success EXCEPT ![i] = J!None] /\ reported' = [reported EXCEPT ![i] = 0]
  BY DEF JobInv, J!Crash
<1>2. J!Asleep \in Rounds /\ RoundOk(J!Asleep) /\ J!Asleep.pc = "asleep"
  BY DEF Rounds, J!Asleep, J!None, RoundOk
<1>3. /\ success' \in [J!Place -> Nat \cup {J!None}] /\ reported' \in [J!Place -> Nat]
      /\ success'[i] = J!None /\ reported'[i] = 0 /\ i \in J!Place /\ i # "redis"
      /\ \A p \in J!Place \ {i} : success'[p] = success[p] /\ reported'[p] = reported[p]
  BY <1>1 DEF JobTypes, J!Place, J!SchedulerAssumption
<1>4. round' \in [Round -> Rounds]
  BY <1>1, <1>2 DEF JobTypes
<1>5. JobTypes'
  BY <1>1, <1>3, <1>4 DEF JobTypes
<1>6. \A q \in Round : RoundOk(round'[q])
  BY <1>1, <1>2 DEF JobInv
<1>7. \A q \in Round : round'[q].pc # "asleep" => round'[q] = round[q] /\ round[q].at # i
  BY <1>1, <1>2
<1>8. ASSUME jConfig'.redis, NEW q \in J!At("work")' PROVE Holds(q)'
  <2>1. q \in J!At("work") /\ round'[q] = round[q]
    BY <1>7, <1>8 DEF J!At
  <2>2. Holds(q)
    BY <1>1, <1>8, <2>1 DEF JobInv
  <2> QED BY <1>1, <2>1, <2>2 DEF Holds
<1>9. \A q \in J!At("save")' : /\ q \in J!At("save") /\ round'[q] = round[q]
                               /\ J!Kept(q)' = J!Kept(q) /\ J!Kept(q) # i
  BY <1>1, <1>3, <1>7 DEF J!At, J!Kept
<1>10. ASSUME NEW p \in J!Read \ raced' PROVE Counts(p)'
  <2>1. Counts(p)
    BY <1>1, <1>10 DEF JobInv
  <2>2. CASE p = i
    BY <1>3, <1>9, <2>2 DEF Counts
  <2>3. CASE p # i
    <3>1. success'[p] = success[p] /\ reported'[p] = reported[p]
      BY <1>3, <1>10, <2>3, ReadPlaces
    <3> QED BY <1>9, <2>1, <3>1 DEF Counts
  <2> QED BY <2>2, <2>3
<1> QED BY <1>1, <1>5, <1>6, <1>8, <1>10 DEF JobInv, J!Read

\* A second passes for the lock and for who is at work.
LEMMA TickRounds ==
    ASSUME J!SchedulerAssumption, JobInv, J!Tick
    PROVE  JobInv'
<1>1. /\ JobTypes /\ UNCHANGED <<jConfig, success, reported, raced>>
      /\ jLock' = J!Aged(jLock, 1000)
      /\ round' = [r \in Round |-> IF round[r].pc = "work"
                                   THEN [round[r] EXCEPT !.age = @ + 1] ELSE round[r]]
  BY DEF JobInv, J!Tick, J!Second
<1>2. jConfig.ttl \in Nat
  BY <1>1 DEF J!SchedulerAssumption, JobTypes
<1>3. ASSUME NEW q \in Round
      PROVE  /\ round'[q] \in Rounds /\ round'[q].pc = round[q].pc
             /\ round'[q].at = round[q].at /\ round'[q].seen = round[q].seen
             /\ round'[q].age = IF round[q].pc = "work" THEN round[q].age + 1
                                ELSE round[q].age
             /\ round[q].age \in Nat
  <2>1. round[q] \in Rounds
    BY <1>1 DEF JobTypes
  <2>2. round'[q] = IF round[q].pc = "work" THEN [round[q] EXCEPT !.age = @ + 1]
                    ELSE round[q]
    BY <1>1
  <2> QED BY <2>1, <2>2 DEF Rounds
<1>4. /\ jLock'.by \in Round \cup {"none"} /\ jLock'.left \in Nat
      /\ jLock'.by = "none" <=> jLock' = J!NoLock
      /\ jLock' = [by |-> jLock'.by, left |-> jLock'.left]
      /\ jLock.left > 1000 => jLock'.by = jLock.by /\ jLock'.left = jLock.left - 1000
  <2>1. CASE jLock.left > 1000
    <3> PICK b, l : b = jLock.by /\ l = jLock.left
      OBVIOUS
    <3>1. jLock = [by |-> b, left |-> l] /\ b \in Round \cup {"none"} /\ l \in Nat
          /\ (b = "none" => jLock = J!NoLock)
      BY <1>1 DEF JobTypes
    <3>2. b # "none"
      BY <2>1, <3>1 DEF J!NoLock
    <3>3. jLock' = [by |-> b, left |-> l - 1000]
      BY <1>1, <2>1, <3>1 DEF J!Aged
    <3>4. l - 1000 \in Nat
      BY <2>1, <3>1
    <3> QED BY <3>1, <3>2, <3>3, <3>4 DEF J!NoLock
  <2>2. CASE ~(jLock.left > 1000)
    <3>1. jLock' = J!NoLock
      BY <1>1, <2>2 DEF J!Aged
    <3> QED BY <2>2, <3>1 DEF J!NoLock
  <2> QED BY <2>1, <2>2
<1>5. JobTypes'
  <2>1. round' \in [Round -> Rounds]
    BY <1>1, <1>3
  <2> QED BY <1>1, <1>4, <2>1 DEF JobTypes
<1>6. \A q \in Round : RoundOk(round'[q])
  BY <1>3 DEF JobInv, RoundOk
<1>7. ASSUME jConfig'.redis, NEW q \in J!At("work")' PROVE Holds(q)'
  <2>1. q \in J!At("work") /\ q \in Round /\ round[q].pc = "work"
    BY <1>3, <1>7 DEF J!At
  <2>2. Holds(q)
    BY <1>1, <1>7, <2>1 DEF JobInv
  <2>3. round'[q].age = round[q].age + 1 /\ round[q].age \in Nat
    BY <1>3, <2>1
  <2>4. CASE round[q].age + 1 >= jConfig.ttl
    BY <1>1, <1>2, <2>3, <2>4 DEF Holds
  <2>5. CASE ~(round[q].age + 1 >= jConfig.ttl)
    <3>1. jLock.by = q /\ jLock.left = (jConfig.ttl - round[q].age) * 1000
      BY <1>2, <2>2, <2>3, <2>5 DEF Holds
    <3>2. jLock.left > 1000
      BY <1>2, <2>3, <2>5, <3>1
    <3>3. jLock'.by = q /\ jLock'.left = (jConfig.ttl - round'[q].age) * 1000
      BY <1>2, <1>4, <2>3, <3>1, <3>2
    <3> QED BY <1>1, <3>3 DEF Holds
  <2> QED BY <2>4, <2>5
<1>8. J!At("save")' = J!At("save") /\ \A q \in J!At("save") : J!Kept(q)' = J!Kept(q)
      /\ round'[q].seen = round[q].seen
  BY <1>1, <1>3 DEF J!At, J!Kept
<1>9. ASSUME NEW p \in J!Read \ raced' PROVE Counts(p)'
  <2>1. Counts(p)
    BY <1>1, <1>9 DEF JobInv
  <2> QED BY <1>1, <1>8, <2>1 DEF Counts
<1> QED BY <1>1, <1>5, <1>6, <1>7, <1>9 DEF JobInv, J!Read

\* Every step of the composite keeps it.
LEMMA JobInvariance == Spec => []JobInv
<1>1. J!SchedulerAssumption
  BY AgreementAssumption
<1>2. Init => JobInv
  BY <1>1, InitJobInv DEF Init
<1>3. JobInv /\ [Next]_vars => JobInv'
  <2> SUFFICES ASSUME JobInv, [Next]_vars PROVE JobInv'
    OBVIOUS
  <2>1. CASE J!Next
    <3>1. CASE J!Tick
      BY <1>1, <3>1, TickRounds
    <3>2. ASSUME NEW i \in Instance, J!Crash(i) PROVE JobInv'
      BY <1>1, <3>2, CrashRounds
    <3>3. ASSUME NEW i \in Instance, NEW r \in Round, J!OnTick(i, r) PROVE JobInv'
      BY <3>3, OnTickRound
    <3>4. ASSUME NEW r \in Round,
                 J!Work(r) \/ J!PassOver(r) \/ J!Succeed(r) \/ J!Fail(r)
          PROVE  JobInv'
      BY <1>1, <3>4, WorkingRound
    <3>5. ASSUME NEW r \in Round, J!Report(r) PROVE JobInv'
      BY <3>5, ReportRound
    <3>6. ASSUME NEW r \in Round, J!Save(r) PROVE JobInv'
      BY <1>1, <3>6, SaveRound
    <3>7. ASSUME NEW r \in Round, J!Reject(r) PROVE JobInv'
      BY <3>7, RejectRound
    <3>8. ASSUME NEW p \in J!Place, J!Expire(p) PROVE JobInv'
      BY <3>8, ExpireCounter
    <3> QED BY <2>1, <3>1, <3>2, <3>3, <3>4, <3>5, <3>6, <3>7, <3>8 DEF J!Next
  <2>2. CASE UNCHANGED jobs
    <3>1. JobTypes' = JobTypes
      BY <2>2 DEF jobs, JobTypes
    <3>2. \A pc : J!At(pc)' = J!At(pc)
      BY <2>2 DEF jobs, J!At
    <3>3. \A r : J!Kept(r)' = J!Kept(r) /\ Holds(r)' = Holds(r)
      BY <2>2 DEF jobs, J!Kept, Holds
    <3>4. ASSUME NEW p, Counts(p) PROVE Counts(p)'
      BY <2>2, <3>2, <3>3, <3>4 DEF jobs, Counts
    <3>5. \A r \in Round : RoundOk(round'[r])
      BY <2>2 DEF jobs, JobInv
    <3>6. \A p \in J!Read' \ raced' : Counts(p)'
      <4>1. J!Read' = J!Read /\ raced' = raced
        BY <2>2 DEF jobs, J!Read
      <4> QED BY <3>4, <4>1 DEF JobInv
    <3>7. jConfig'.redis => \A r \in J!At("work")' : Holds(r)'
      BY <2>2, <3>2, <3>3 DEF jobs, JobInv
    <3> QED BY <3>1, <3>5, <3>6, <3>7 DEF JobInv
  <2>3. J!Next \/ UNCHANGED jobs
    BY DEF Next, vars
  <2> QED BY <2>1, <2>2, <2>3
<1> QED BY <1>2, <1>3, PTL DEF Spec

\* For any number of instances, rounds and crashes and any lock, two rounds of a
\* cron work at a time only if one has worked for as long as its lock lasts.
THEOREM OverlapTakesLateness == Spec => []OverlapOnlyWhenLate
<1>1. JobInv => OverlapOnlyWhenLate
  <2> SUFFICES ASSUME JobInv, jConfig.redis, NEW r \in J!At("work"), NEW q \in J!At("work"),
                      r # q
               PROVE  \E late \in {r, q} : round[late].age >= jConfig.ttl
    BY DEF OverlapOnlyWhenLate, J!OverlapOnlyWhenLate
  <2>1. Holds(r) /\ Holds(q)
    BY DEF JobInv
  <2> QED BY <2>1 DEF Holds
<1> QED BY <1>1, JobInvariance, PTL

\* A counter of successes that no round read before another changed it or it ran
\* out is the number of rounds that reported since it began, in Redis, and one in
\* the memory of an instance (StatsHelper.addCronSuccessEvent, InMemoryDB).
THEOREM ReportsAreCounted == Spec => []CountsAddUp
<1>1. JobInv => CountsAddUp
  <2> SUFFICES ASSUME JobInv, NEW p \in J!Read \ raced
               PROVE  success[p] = IF reported[p] = 0 THEN J!None
                                   ELSE IF p = "redis" THEN reported[p] ELSE 1
    BY DEF CountsAddUp, J!CountsAddUp
  <2> QED BY DEF JobInv, Counts
<1> QED BY <1>1, JobInvariance, PTL

-----------------------------------------------------------------------------
(* The access token of WeChat (WxToken). *)

Calls == [pc : {"ready", "lock", "fetch", "keep"}, at : W!Place, token : Nat, age : Nat]

TokenTypes ==
    /\ wConfig \in Fetches
    /\ wLock.by \in Caller \cup {"none"} /\ wLock.left \in Nat
    /\ wLock.by = "none" <=> wLock = W!NoLock
    /\ wLock = [by |-> wLock.by, left |-> wLock.left]
    /\ call \in [Caller -> Calls]
    /\ issued \in Nat /\ stored \in [W!Place -> Nat] /\ wLast \in W!Place
    /\ wCrossed \subseteq W!Place /\ lost \in BOOLEAN

\* Who fetches has the lock, or has fetched for as long as it lasts.
Fetched(c) ==
    \/ call[c].age >= 3
    \/ wLock.by = c /\ wLock.left = 60 - 20 * call[c].age

\* Who has not begun to fetch has no token yet, and who has the newest one has it
\* for the place it was issued for.
CallOk(v) ==
    /\ v.pc \in {"ready", "lock"} => v.age = 0
    /\ v.pc # "keep" => v.token = 0
    /\ v.pc = "lock" => wConfig.redis
    /\ wConfig.redis => v.at = "redis"
    /\ v.token <= issued
    /\ v.pc = "keep" /\ v.token = issued => v.at = wLast

\* The newest token is nowhere else than in the place it was issued for.
StoredOk(p) ==
    /\ stored[p] <= issued
    /\ p # wLast /\ stored[p] # 0 => stored[p] < issued /\ ~wConfig.redis

\* As long as fetches for a place have not crossed there is one at a time; and for
\* the place of the newest token, what it has is that token, which is stored, or
\* was lost, unless it is about to be stored.
OneFetch(p) ==
    /\ \A c, d \in W!FetchingFor(p) : c = d
    /\ p = wLast =>
          /\ \A c \in W!FetchingFor(p) : call[c].pc = "keep" => call[c].token = issued
          /\ \/ lost
             \/ stored[p] \in {0, issued}
             \/ \E c \in W!FetchingFor(p) : call[c].pc = "keep"

\* The inductive invariant.
TokenInv ==
    /\ TokenTypes
    /\ wConfig.redis => wLast = "redis"
    /\ \A c \in Caller : CallOk(call[c])
    /\ wConfig.redis => \A c \in W!Fetching : Fetched(c)
    /\ \A p \in W!Place : StoredOk(p)
    /\ \A p \in W!Place \ wCrossed : OneFetch(p)

\* It holds in the beginning.
LEMMA InitTokenInv == ASSUME W!WxTokenAssumption, W!Init PROVE TokenInv
<1> USE DEF W!Init, W!WxTokenAssumption
<1>1. W!Ready \in Calls /\ CallOk(W!Ready) /\ W!Ready.pc = "ready" /\ "redis" \in W!Place
  BY DEF W!Ready, Calls, CallOk, W!Place
<1>2. W!Fetching = {}
  BY <1>1 DEF W!Fetching
<1>3. TokenTypes
  BY <1>1 DEF TokenTypes, W!NoLock
<1>4. \A p \in W!Place : StoredOk(p) /\ OneFetch(p)
  BY <1>2 DEF StoredOk, OneFetch, W!FetchingFor
<1> QED BY <1>1, <1>2, <1>3, <1>4 DEF TokenInv

\* The lock after a step keeps its shape.
LEMMA LockShape ==
    ASSUME W!WxTokenAssumption, TokenTypes, NEW c \in Caller,
           wLock' \in {wLock, W!NoLock, W!Taken(c, 60)}
    PROVE  /\ wLock'.by \in Caller \cup {"none"} /\ wLock'.left \in Nat
           /\ wLock'.by = "none" <=> wLock' = W!NoLock
           /\ wLock' = [by |-> wLock'.by, left |-> wLock'.left]
<1>1. CASE wLock' = wLock
  BY <1>1 DEF TokenTypes
<1>2. CASE wLock' = W!NoLock
  BY <1>2 DEF W!NoLock
<1>3. CASE wLock' = W!Taken(c, 60)
  <2>1. c # "none"
    BY DEF W!WxTokenAssumption
  <2> QED BY <1>3, <2>1 DEF W!Taken, W!NoLock
<1> QED BY <1>1, <1>2, <1>3

\* The others who fetch keep what ties them to the lock, unless it is taken from
\* them, and their places.
LEMMA OthersFetch ==
    ASSUME W!WxTokenAssumption, TokenInv, NEW c \in Caller, NEW n \in Calls,
           call' = [call EXCEPT ![c] = n], wConfig' = wConfig,
           \/ wLock' = wLock
           \/ wLock' = W!Released(wLock, c)
           \/ wLock = W!NoLock
    PROVE  /\ \A d \in W!Fetching' \ {c} : d \in W!Fetching /\ call'[d] = call[d]
           /\ \A d \in W!Fetching \ {c} : d \in W!Fetching'
           /\ c \in W!Fetching' <=> n.pc \in {"fetch", "keep"}
           /\ call'[c] = n /\ c # "none"
           /\ \A p : \A d \in W!FetchingFor(p)' \ {c} :
                 d \in W!FetchingFor(p) /\ call'[d] = call[d]
           /\ \A p : \A d \in W!FetchingFor(p) \ {c} : d \in W!FetchingFor(p)'
           /\ \A p : c \in W!FetchingFor(p)' <=> n.pc \in {"fetch", "keep"} /\ n.at = p
           /\ wConfig.redis => \A d \in W!Fetching' \ {c} : Fetched(d)'
<1>1. /\ call'[c] = n /\ \A d \in Caller \ {c} : call'[d] = call[d]
      /\ TokenTypes /\ c # "none"
  BY DEF TokenInv, TokenTypes, W!WxTokenAssumption
<1>2. ASSUME wConfig.redis, NEW d \in W!Fetching' \ {c} PROVE Fetched(d)'
  <2>1. d \in W!Fetching /\ call'[d] = call[d] /\ d # "none" /\ Fetched(d)
    BY <1>1, <1>2 DEF W!Fetching, TokenInv, W!WxTokenAssumption
  <2>2. wLock.by = d => wLock' = wLock
    BY <1>2, <2>1 DEF W!Released, W!NoLock
  <2> QED BY <2>1, <2>2 DEF Fetched
<1>3. /\ \A d \in W!Fetching' \ {c} : d \in W!Fetching /\ call'[d] = call[d]
      /\ \A d \in W!Fetching \ {c} : d \in W!Fetching' /\ call'[d] = call[d]
      /\ c \in W!Fetching' <=> n.pc \in {"fetch", "keep"}
  BY <1>1 DEF W!Fetching
<1>4. /\ \A p : \A d \in W!FetchingFor(p)' \ {c} :
                 d \in W!FetchingFor(p) /\ call'[d] = call[d]
      /\ \A p : \A d \in W!FetchingFor(p) \ {c} : d \in W!FetchingFor(p)'
      /\ \A p : c \in W!FetchingFor(p)' <=> n.pc \in {"fetch", "keep"} /\ n.at = p
  BY <1>1, <1>3 DEF W!FetchingFor
<1> QED BY <1>1, <1>2, <1>3, <1>4

\* A place whose fetches, tokens and newest token a step leaves alone.
LEMMA SamePlace ==
    ASSUME NEW p, OneFetch(p), stored'[p] = stored[p],
           issued' = issued, wLast' = wLast, lost => lost',
           \A d \in W!FetchingFor(p)' : d \in W!FetchingFor(p) /\ call'[d] = call[d],
           \A d \in W!FetchingFor(p) : d \in W!FetchingFor(p)'
    PROVE  OneFetch(p)'
<1>1. \A d \in W!FetchingFor(p) : call'[d] = call[d]
  OBVIOUS
<1> QED BY <1>1 DEF OneFetch

\* A caller finds no token.
LEMMA LookCall ==
    ASSUME W!WxTokenAssumption, TokenInv, NEW c \in Caller, NEW i \in Instance,
           W!Look(c, i)
    PROVE  TokenInv'
<1> PICK pc : pc = IF wConfig.redis THEN "lock" ELSE "fetch"
  OBVIOUS
<1> PICK at : at = W!Kept(i)
  OBVIOUS
<1> PICK n : n = [W!Ready EXCEPT !.at = at, !.pc = pc]
  OBVIOUS
<1>1. /\ TokenTypes /\ call' = [call EXCEPT ![c] = n] /\ call[c] = W!Ready
      /\ UNCHANGED <<wConfig, wLock, stored, issued, wLast, lost>> /\ wConfig.redis \in BOOLEAN
      /\ stored[at] = 0
      /\ wCrossed' = IF ~wConfig.redis /\ W!FetchingFor(at) # {}
                     THEN wCrossed \cup {at} ELSE wCrossed
  BY DEF TokenInv, TokenTypes, W!Look, W!WxTokenAssumption
<1>2. /\ n \in Calls /\ n.pc = pc /\ n.at = at /\ n.token = 0 /\ n.age = 0
      /\ pc \in {"lock", "fetch"} /\ at \in W!Place /\ (wConfig.redis => at = "redis")
  BY DEF W!Ready, Calls, W!Kept, W!Place
<1>3. CallOk(n)' /\ c \notin W!Fetching
  BY <1>1, <1>2 DEF CallOk, W!Fetching, W!Ready, TokenTypes
<1>4. /\ \A d \in W!Fetching' \ {c} : d \in W!Fetching /\ call'[d] = call[d]
      /\ c \in W!Fetching' <=> n.pc \in {"fetch", "keep"}
      /\ call'[c] = n
      /\ \A p : \A d \in W!FetchingFor(p)' \ {c} :
            d \in W!FetchingFor(p) /\ call'[d] = call[d]
      /\ \A p : \A d \in W!FetchingFor(p) \ {c} : d \in W!FetchingFor(p)'
      /\ \A p : c \in W!FetchingFor(p)' <=> n.pc \in {"fetch", "keep"} /\ n.at = p
      /\ wConfig.redis => \A d \in W!Fetching' \ {c} : Fetched(d)'
  <2>1. /\ n \in Calls /\ call' = [call EXCEPT ![c] = n] /\ wConfig' = wConfig
        /\ wLock' = wLock /\ c \in Caller
    BY <1>1, <1>2
  <2> QED BY ONLY W!WxTokenAssumption, TokenInv, <2>1, OthersFetch
<1>5. TokenTypes'
  BY <1>1, <1>2 DEF TokenTypes, W!Place
<1>6. \A d \in Caller : CallOk(call[d])'
  BY <1>1, <1>3, <1>4 DEF TokenInv, CallOk, TokenTypes
<1>7. wConfig'.redis => \A d \in W!Fetching' : Fetched(d)'
  BY <1>1, <1>2, <1>4
<1>8. ASSUME NEW p \in W!Place \ wCrossed' PROVE OneFetch(p)'
  <2>1. OneFetch(p) /\ p \notin wCrossed
    BY <1>1, <1>8 DEF TokenInv
  <2>2. CASE pc = "lock" \/ p # at
    <3>1. /\ \A d \in W!FetchingFor(p)' : d \in W!FetchingFor(p) /\ call'[d] = call[d]
          /\ \A d \in W!FetchingFor(p) : d \in W!FetchingFor(p)'
      BY <1>2, <1>3, <1>4, <2>2 DEF W!FetchingFor
    <3> QED BY <1>1, <2>1, <3>1, SamePlace
  <2>3. CASE pc # "lock" /\ p = at
    <3>1. W!FetchingFor(p)' = {c} /\ stored'[p] = 0
      BY <1>1, <1>2, <1>4, <1>8, <2>3
    <3> QED BY <1>2, <1>4, <2>3, <3>1 DEF OneFetch
  <2> QED BY <2>2, <2>3
<1>9. \A p \in W!Place : StoredOk(p)'
  BY <1>1 DEF TokenInv, StoredOk
<1> QED BY <1>1, <1>5, <1>6, <1>7, <1>8, <1>9 DEF TokenInv, W!Place

\* A caller takes the lock: whoever still fetches is slower than the lock.
LEMMA TakeLockCall ==
    ASSUME W!WxTokenAssumption, TokenInv, NEW c \in Caller, W!TakeLock(c)
    PROVE  TokenInv'
<1> PICK n : n = [call[c] EXCEPT !.pc = "fetch"]
  OBVIOUS
<1>1. /\ TokenTypes /\ call' = [call EXCEPT ![c] = n] /\ call[c].pc = "lock"
      /\ call[c] \in Calls /\ CallOk(call[c])
      /\ UNCHANGED <<wConfig, stored, issued, wLast, lost>>
      /\ wLock = W!NoLock /\ wLock' = W!Taken(c, 60)
      /\ wCrossed' = IF \E d \in W!Fetching : W!Slow(d)
                     THEN wCrossed \cup {"redis"} ELSE wCrossed
  BY DEF TokenInv, TokenTypes, W!TakeLock, W!Free, W!Ttl
<1>2. /\ n \in Calls /\ n.pc = "fetch" /\ n.token = 0 /\ n.age = 0 /\ n.at = "redis"
      /\ wConfig.redis /\ wLast = "redis"
  BY <1>1 DEF Calls, CallOk, TokenInv
<1>3. CallOk(n)' /\ c \notin W!Fetching
  BY <1>1, <1>2 DEF CallOk, W!Fetching, TokenTypes
<1>4. /\ \A d \in W!Fetching' \ {c} : d \in W!Fetching /\ call'[d] = call[d]
      /\ c \in W!Fetching' <=> n.pc \in {"fetch", "keep"}
      /\ call'[c] = n /\ c # "none"
      /\ \A p : \A d \in W!FetchingFor(p)' \ {c} :
            d \in W!FetchingFor(p) /\ call'[d] = call[d]
      /\ \A p : \A d \in W!FetchingFor(p) \ {c} : d \in W!FetchingFor(p)'
      /\ \A p : c \in W!FetchingFor(p)' <=> n.pc \in {"fetch", "keep"} /\ n.at = p
      /\ wConfig.redis => \A d \in W!Fetching' \ {c} : Fetched(d)'
  <2>1. /\ n \in Calls /\ call' = [call EXCEPT ![c] = n] /\ wConfig' = wConfig
        /\ wLock = W!NoLock /\ c \in Caller
    BY <1>1, <1>2
  <2> QED BY ONLY W!WxTokenAssumption, TokenInv, <2>1, OthersFetch
<1>5. TokenTypes'
  <2>1. /\ wLock'.by \in Caller \cup {"none"} /\ wLock'.left \in Nat
        /\ wLock'.by = "none" <=> wLock' = W!NoLock
        /\ wLock' = [by |-> wLock'.by, left |-> wLock'.left]
    BY <1>1, LockShape
  <2> QED BY <1>1, <1>2, <2>1 DEF TokenTypes, W!Place
<1>6. \A d \in Caller : CallOk(call[d])'
  BY <1>1, <1>3, <1>4 DEF TokenInv, CallOk, TokenTypes
<1>7. Fetched(c)'
  BY <1>1, <1>2, <1>4 DEF Fetched, W!Taken
<1>8. ASSUME NEW p \in W!Place \ wCrossed' PROVE OneFetch(p)'
  <2>1. OneFetch(p) /\ p \notin wCrossed
    BY <1>1, <1>8 DEF TokenInv
  <2>2. CASE p = "redis"
    <3>1. W!Fetching = {}
      <4> SUFFICES ASSUME NEW d \in W!Fetching PROVE FALSE
        OBVIOUS
      <4>1. Fetched(d) /\ d # "none" /\ call[d].age \in Nat /\ ~W!Slow(d)
        BY <1>1, <1>2, <1>8, <2>2
           DEF TokenInv, W!Fetching, W!WxTokenAssumption, TokenTypes, Calls
      <4>2. call[d].age >= 3
        BY <1>1, <4>1 DEF Fetched, W!NoLock
      <4> QED BY <4>1, <4>2 DEF W!Slow, W!Tick20, W!Ttl
    <3>2. W!FetchingFor(p) = {}
      BY <3>1 DEF W!FetchingFor
    <3>3. W!FetchingFor(p)' = {c}
      BY <1>2, <1>4, <2>2, <3>2
    <3>4. p = wLast => lost \/ stored[p] \in {0, issued}
      BY <2>1, <3>2 DEF OneFetch
    <3> QED BY <1>1, <1>2, <1>4, <3>3, <3>4 DEF OneFetch
  <2>3. CASE p # "redis"
    <3>1. /\ \A d \in W!FetchingFor(p)' : d \in W!FetchingFor(p) /\ call'[d] = call[d]
          /\ \A d \in W!FetchingFor(p) : d \in W!FetchingFor(p)'
      BY <1>2, <1>3, <1>4, <2>3 DEF W!FetchingFor
    <3> QED BY <1>1, <2>1, <3>1, SamePlace
  <2> QED BY <2>2, <2>3
<1>9. \A p \in W!Place : StoredOk(p)'
  BY <1>1 DEF TokenInv, StoredOk
<1> QED BY <1>1, <1>2, <1>4, <1>5, <1>6, <1>7, <1>8, <1>9 DEF TokenInv, W!Place

\* A caller is refused.
LEMMA RefuseCall ==
    ASSUME W!WxTokenAssumption, TokenInv, NEW c \in Caller, W!Refuse(c)
    PROVE  TokenInv'
<1> PICK n : n = W!Ready
  OBVIOUS
<1>1. /\ TokenTypes /\ call' = [call EXCEPT ![c] = n] /\ call[c].pc = "lock"
      /\ UNCHANGED <<wConfig, wLock, stored, issued, wLast, lost, wCrossed>>
  BY DEF TokenInv, W!Refuse
<1>2. n \in Calls /\ n.pc = "ready" /\ CallOk(n)' /\ c \notin W!Fetching
  BY <1>1 DEF W!Ready, Calls, CallOk, W!Fetching, W!Place, TokenTypes
<1>4. /\ \A d \in W!Fetching' \ {c} : d \in W!Fetching /\ call'[d] = call[d]
      /\ c \in W!Fetching' <=> n.pc \in {"fetch", "keep"}
      /\ call'[c] = n
      /\ \A p : \A d \in W!FetchingFor(p)' \ {c} :
            d \in W!FetchingFor(p) /\ call'[d] = call[d]
      /\ \A p : \A d \in W!FetchingFor(p) \ {c} : d \in W!FetchingFor(p)'
      /\ \A p : c \in W!FetchingFor(p)' <=> n.pc \in {"fetch", "keep"} /\ n.at = p
      /\ wConfig.redis => \A d \in W!Fetching' \ {c} : Fetched(d)'
  BY <1>1, <1>2, OthersFetch
<1>5. TokenTypes'
  BY <1>1, <1>2 DEF TokenTypes, W!Place
<1>6. \A d \in Caller : CallOk(call[d])'
  BY <1>1, <1>2, <1>4 DEF TokenInv, CallOk, TokenTypes
<1>8. ASSUME NEW p \in W!Place \ wCrossed' PROVE OneFetch(p)'
  <2>1. OneFetch(p)
    BY <1>1, <1>8 DEF TokenInv
  <2>2. /\ \A d \in W!FetchingFor(p)' : d \in W!FetchingFor(p) /\ call'[d] = call[d]
        /\ \A d \in W!FetchingFor(p) : d \in W!FetchingFor(p)'
    BY <1>2, <1>4 DEF W!FetchingFor
  <2> QED BY <1>1, <2>1, <2>2, SamePlace
<1>9. \A p \in W!Place : StoredOk(p)'
  BY <1>1 DEF TokenInv, StoredOk
<1> QED BY <1>1, <1>2, <1>4, <1>5, <1>6, <1>8, <1>9 DEF TokenInv, W!Place

\* WeChat issues a token, which is the newest then.
LEMMA IssueCall ==
    ASSUME W!WxTokenAssumption, TokenInv, NEW c \in Caller, W!Issue(c)
    PROVE  TokenInv'
<1> PICK k : k = issued + 1
  OBVIOUS
<1> PICK n : n = [call[c] EXCEPT !.pc = "keep", !.token = k]
  OBVIOUS
<1>1. /\ TokenTypes /\ call' = [call EXCEPT ![c] = n] /\ call[c].pc = "fetch"
      /\ call[c] \in Calls /\ CallOk(call[c]) /\ issued' = k /\ issued \in Nat /\ k \in Nat
      /\ UNCHANGED <<wConfig, wLock, stored, wCrossed>> /\ lost' = FALSE
      /\ wLast' = call[c].at
  <2>1. TokenTypes /\ CallOk(call[c]) /\ call[c] \in Calls /\ issued \in Nat /\ k \in Nat
    BY DEF TokenInv, TokenTypes
  <2>2. call' = [call EXCEPT ![c] = n]
    BY <2>1 DEF TokenTypes, W!Issue
  <2> QED BY <2>1, <2>2 DEF W!Issue
<1>2. /\ n \in Calls /\ n.pc = "keep" /\ n.token = k /\ n.age = call[c].age
      /\ n.at = call[c].at /\ call[c].at \in W!Place
  BY <1>1 DEF Calls
<1>3. CallOk(n)' /\ c \in W!Fetching
  BY <1>1, <1>2 DEF CallOk, W!Fetching
<1>4. /\ \A d \in W!Fetching' \ {c} : d \in W!Fetching /\ call'[d] = call[d]
      /\ call'[c] = n
      /\ \A p : \A d \in W!FetchingFor(p)' \ {c} :
            d \in W!FetchingFor(p) /\ call'[d] = call[d]
      /\ \A p : c \in W!FetchingFor(p)' <=> n.pc \in {"fetch", "keep"} /\ n.at = p
      /\ wConfig.redis => \A d \in W!Fetching' \ {c} : Fetched(d)'
  <2>1. /\ n \in Calls /\ call' = [call EXCEPT ![c] = n] /\ wConfig' = wConfig
        /\ wLock' = wLock /\ c \in Caller
    BY <1>1, <1>2
  <2> QED BY ONLY W!WxTokenAssumption, TokenInv, <2>1, OthersFetch
<1>5. TokenTypes'
  BY <1>1, <1>2 DEF TokenTypes, W!Place
<1>6. ASSUME NEW d \in Caller PROVE CallOk(call[d])'
  <2>1. CASE d = c
    BY <1>3, <1>4, <2>1 DEF CallOk
  <2>2. CASE d # c
    <3>1. call'[d] = call[d] /\ CallOk(call[d]) /\ call[d].token \in Nat
      BY <1>1, <2>2 DEF TokenInv, TokenTypes, Calls
    <3>2. call[d].token <= k /\ call[d].token # k
      BY <1>1, <3>1 DEF CallOk
    <3> QED BY <1>1, <3>1, <3>2 DEF CallOk
  <2> QED BY <2>1, <2>2
<1>7. wConfig.redis => Fetched(c)'
  BY <1>1, <1>2, <1>3, <1>4 DEF TokenInv, Fetched
<1>8. ASSUME NEW p \in W!Place \ wCrossed' PROVE OneFetch(p)'
  <2>1. OneFetch(p)
    BY <1>1, <1>8 DEF TokenInv
  <2>2. CASE p = n.at
    <3>1. c \in W!FetchingFor(p)
      BY <1>2, <1>3, <2>2 DEF W!FetchingFor
    <3>2. W!FetchingFor(p)' = {c}
      BY <1>2, <1>4, <2>1, <2>2, <3>1 DEF OneFetch
    <3>3. call'[c].pc = "keep" /\ call'[c].token = issued'
      BY <1>1, <1>2, <1>4
    <3> QED BY ZenonT(30), <3>2, <3>3 DEF OneFetch
  <2>3. CASE p # n.at
    <3>1. \A d \in W!FetchingFor(p)' : d \in W!FetchingFor(p)
      BY <1>4, <2>3
    <3> QED BY <1>1, <1>2, <2>1, <2>3, <3>1 DEF OneFetch
  <2> QED BY <2>2, <2>3
<1>9. ASSUME NEW p \in W!Place PROVE StoredOk(p)'
  <2>1. StoredOk(p) /\ stored[p] \in Nat
    BY <1>1 DEF TokenInv, TokenTypes
  <2>2. stored[p] <= k /\ stored[p] < k
    BY <1>1, <2>1 DEF StoredOk
  <2>3. wConfig.redis => wLast' = "redis" /\ wLast = "redis"
    BY <1>1 DEF CallOk, TokenInv
  <2> QED BY <1>1, <2>1, <2>2, <2>3 DEF StoredOk
<1>10. wConfig'.redis => wLast' = "redis"
  BY <1>1 DEF CallOk
<1> QED BY <1>1, <1>4, <1>5, <1>6, <1>7, <1>8, <1>9, <1>10 DEF TokenInv, W!Place

\* The token is stored: if it is the newest and nobody else fetches for the place,
\* all is well there again.
LEMMA KeepCall ==
    ASSUME W!WxTokenAssumption, TokenInv, NEW c \in Caller, W!Keep(c)
    PROVE  TokenInv'
<1> PICK n : n = W!Ready
  OBVIOUS
<1> PICK at, t : at = call[c].at /\ t = call[c].token
  OBVIOUS
<1>1. /\ TokenTypes /\ call' = [call EXCEPT ![c] = n] /\ call[c].pc = "keep"
      /\ call[c] \in Calls /\ CallOk(call[c]) /\ stored' = [stored EXCEPT ![at] = t]
      /\ wLock' = W!Released(wLock, c) /\ UNCHANGED <<wConfig, issued, wLast, lost>>
      /\ wCrossed' = IF t = issued /\ W!FetchingFor(at) = {c}
                     THEN wCrossed \ {at} ELSE wCrossed
  BY DEF TokenInv, TokenTypes, W!Keep
<1>2. /\ n \in Calls /\ n.pc = "ready" /\ CallOk(n)' /\ c \in W!FetchingFor(at)
      /\ at \in W!Place /\ t \in Nat
  BY <1>1 DEF W!Ready, Calls, CallOk, W!FetchingFor, W!Fetching, W!Place, TokenTypes
<1>3. /\ stored' \in [W!Place -> Nat] /\ stored'[at] = t
      /\ \A p \in W!Place \ {at} : stored'[p] = stored[p]
  BY <1>1, <1>2 DEF TokenTypes
<1>4. /\ \A d \in W!Fetching' \ {c} : d \in W!Fetching /\ call'[d] = call[d]
      /\ c \in W!Fetching' <=> n.pc \in {"fetch", "keep"}
      /\ call'[c] = n
      /\ \A p : \A d \in W!FetchingFor(p)' \ {c} :
            d \in W!FetchingFor(p) /\ call'[d] = call[d]
      /\ \A p : \A d \in W!FetchingFor(p) \ {c} : d \in W!FetchingFor(p)'
      /\ \A p : c \in W!FetchingFor(p)' <=> n.pc \in {"fetch", "keep"} /\ n.at = p
      /\ wConfig.redis => \A d \in W!Fetching' \ {c} : Fetched(d)'
  BY <1>1, <1>2, OthersFetch
<1>5. TokenTypes'
  <2>1. /\ wLock'.by \in Caller \cup {"none"} /\ wLock'.left \in Nat
        /\ wLock'.by = "none" <=> wLock' = W!NoLock
        /\ wLock' = [by |-> wLock'.by, left |-> wLock'.left]
    BY <1>1, LockShape DEF W!Released
  <2> QED BY <1>1, <1>2, <1>3, <2>1 DEF TokenTypes, W!Place
<1>6. \A d \in Caller : CallOk(call[d])'
  BY <1>1, <1>2, <1>4 DEF TokenInv, CallOk, TokenTypes
<1>8. ASSUME NEW p \in W!Place \ wCrossed' PROVE OneFetch(p)'
  <2>1. CASE p = at
    <3>1. W!FetchingFor(p) = {c} /\ (p = wLast => t = issued)
      <4>1. CASE p \in wCrossed
        BY <1>1, <1>8, <2>1, <4>1
      <4>2. CASE p \notin wCrossed
        <5>1. OneFetch(p)
          BY <1>8, <4>2 DEF TokenInv
        <5> QED BY <1>1, <1>2, <2>1, <5>1 DEF OneFetch
      <4> QED BY <4>1, <4>2
    <3>2. W!FetchingFor(p)' = {} /\ stored'[p] = t
      BY <1>2, <1>3, <1>4, <2>1, <3>1
    <3> QED BY <1>1, <3>1, <3>2 DEF OneFetch
  <2>2. CASE p # at
    <3>1. OneFetch(p) /\ c \notin W!FetchingFor(p)
      BY <1>1, <1>8, <2>2 DEF TokenInv, W!FetchingFor
    <3>2. /\ \A d \in W!FetchingFor(p)' : d \in W!FetchingFor(p) /\ call'[d] = call[d]
          /\ \A d \in W!FetchingFor(p) : d \in W!FetchingFor(p)'
      BY <1>2, <1>4, <3>1
    <3> QED BY <1>1, <1>3, <1>8, <2>2, <3>1, <3>2, SamePlace
  <2> QED BY <2>1, <2>2
<1>9. ASSUME NEW p \in W!Place PROVE StoredOk(p)'
  <2>1. CASE p # at
    BY <1>1, <1>3, <2>1 DEF TokenInv, StoredOk
  <2>2. CASE p = at
    <3>1. t <= issued /\ (p # wLast => t # issued) /\ (wConfig.redis => p = wLast)
      BY <1>1, <2>2 DEF CallOk, TokenInv
    <3>2. issued \in Nat /\ (p # wLast => t < issued)
      BY <1>1, <1>2, <3>1 DEF TokenTypes
    <3> QED BY <1>1, <1>3, <2>2, <3>1, <3>2 DEF StoredOk
  <2> QED BY <2>1, <2>2
<1> QED BY <1>1, <1>2, <1>4, <1>5, <1>6, <1>8, <1>9 DEF TokenInv, W!Place

\* A fetch breaks off, and its token is lost if it was the newest.
LEMMA BreakCall ==
    ASSUME W!WxTokenAssumption, TokenInv, NEW c \in Caller, W!Break(c)
    PROVE  TokenInv'
<1> PICK n : n = W!Ready
  OBVIOUS
<1>1. /\ TokenTypes /\ call' = [call EXCEPT ![c] = n] /\ call[c].pc \in {"fetch", "keep"}
      /\ call[c] \in Calls /\ wLock' \in {wLock, W!Released(wLock, c)}
      /\ UNCHANGED <<wConfig, stored, issued, wLast, wCrossed>>
      /\ lost' = (lost \/ (call[c].pc = "keep" /\ call[c].token = issued))
  BY DEF TokenInv, TokenTypes, W!Break
<1>2. n \in Calls /\ n.pc = "ready" /\ CallOk(n)'
  BY <1>1 DEF W!Ready, Calls, CallOk, W!Place, TokenTypes
<1>4. /\ \A d \in W!Fetching' \ {c} : d \in W!Fetching /\ call'[d] = call[d]
      /\ c \in W!Fetching' <=> n.pc \in {"fetch", "keep"}
      /\ call'[c] = n
      /\ \A p : \A d \in W!FetchingFor(p)' \ {c} :
            d \in W!FetchingFor(p) /\ call'[d] = call[d]
      /\ \A p : \A d \in W!FetchingFor(p) \ {c} : d \in W!FetchingFor(p)'
      /\ \A p : c \in W!FetchingFor(p)' <=> n.pc \in {"fetch", "keep"} /\ n.at = p
      /\ wConfig.redis => \A d \in W!Fetching' \ {c} : Fetched(d)'
  BY <1>1, <1>2, OthersFetch
<1>5. TokenTypes'
  <2>1. /\ wLock'.by \in Caller \cup {"none"} /\ wLock'.left \in Nat
        /\ wLock'.by = "none" <=> wLock' = W!NoLock
        /\ wLock' = [by |-> wLock'.by, left |-> wLock'.left]
    BY <1>1, LockShape DEF W!Released
  <2>2. lost' \in BOOLEAN
    BY <1>1 DEF TokenTypes
  <2> QED BY <1>1, <1>2, <2>1, <2>2 DEF TokenTypes, W!Place
<1>6. \A d \in Caller : CallOk(call[d])'
  BY <1>1, <1>2, <1>4 DEF TokenInv, CallOk, TokenTypes
<1>8. ASSUME NEW p \in W!Place \ wCrossed' PROVE OneFetch(p)'
  <2>1. OneFetch(p)
    BY <1>1, <1>8 DEF TokenInv
  <2>2. CASE c \in W!FetchingFor(p)
    <3>1. W!FetchingFor(p) = {c}
      BY <2>1, <2>2 DEF OneFetch
    <3>2. W!FetchingFor(p)' = {}
      BY <1>2, <1>4, <3>1
    <3>3. p = wLast => lost' \/ stored[p] \in {0, issued}
      BY <1>1, <2>1, <2>2, <3>1 DEF OneFetch
    <3> QED BY <1>1, <3>2, <3>3 DEF OneFetch
  <2>3. CASE c \notin W!FetchingFor(p)
    <3>1. /\ \A d \in W!FetchingFor(p)' : d \in W!FetchingFor(p) /\ call'[d] = call[d]
          /\ \A d \in W!FetchingFor(p) : d \in W!FetchingFor(p)'
      BY <1>2, <1>4, <2>3
    <3> QED BY <1>1, <2>1, <3>1, SamePlace
  <2> QED BY <2>2, <2>3
<1>9. \A p \in W!Place : StoredOk(p)'
  BY <1>1 DEF TokenInv, StoredOk
<1> QED BY <1>1, <1>2, <1>4, <1>5, <1>6, <1>8, <1>9 DEF TokenInv, W!Place

\* Twenty milliseconds pass for the lock and for who fetches.
LEMMA TickCalls ==
    ASSUME W!WxTokenAssumption, TokenInv, W!Tick
    PROVE  TokenInv'
<1>1. /\ TokenTypes /\ UNCHANGED <<wConfig, stored, issued, wLast, wCrossed, lost>>
      /\ wLock' = W!Aged(wLock, 20)
      /\ call' = [c \in Caller |-> IF c \in W!Fetching
                                   THEN [call[c] EXCEPT !.age = @ + 1] ELSE call[c]]
  BY DEF TokenInv, W!Tick, W!Tick20
<1>2. ASSUME NEW c \in Caller
      PROVE  /\ call'[c] \in Calls /\ call'[c].pc = call[c].pc
             /\ call'[c].token = call[c].token /\ call'[c].at = call[c].at
             /\ call'[c].age = IF c \in W!Fetching THEN call[c].age + 1 ELSE call[c].age
             /\ call[c].age \in Nat
  <2>1. call[c] \in Calls
    BY <1>1 DEF TokenTypes
  <2>2. call'[c] = IF c \in W!Fetching THEN [call[c] EXCEPT !.age = @ + 1] ELSE call[c]
    BY <1>1
  <2> QED BY <2>1, <2>2 DEF Calls
<1>3. /\ wLock'.by \in Caller \cup {"none"} /\ wLock'.left \in Nat
      /\ wLock'.by = "none" <=> wLock' = W!NoLock
      /\ wLock' = [by |-> wLock'.by, left |-> wLock'.left]
      /\ wLock.left > 20 => wLock'.by = wLock.by /\ wLock'.left = wLock.left - 20
  <2>1. CASE wLock.left > 20
    <3> PICK b, l : b = wLock.by /\ l = wLock.left
      OBVIOUS
    <3>1. wLock = [by |-> b, left |-> l] /\ b \in Caller \cup {"none"} /\ l \in Nat
          /\ (b = "none" => wLock = W!NoLock)
      BY <1>1 DEF TokenTypes
    <3>2. b # "none"
      BY <2>1, <3>1 DEF W!NoLock
    <3>3. wLock' = [by |-> b, left |-> l - 20]
      BY <1>1, <2>1, <3>1 DEF W!Aged
    <3>4. l - 20 \in Nat
      BY <2>1, <3>1
    <3> QED BY <3>1, <3>2, <3>3, <3>4 DEF W!NoLock
  <2>2. CASE ~(wLock.left > 20)
    <3>1. wLock' = W!NoLock
      BY <1>1, <2>2 DEF W!Aged
    <3> QED BY <2>2, <3>1 DEF W!NoLock
  <2> QED BY <2>1, <2>2
<1>4. TokenTypes'
  <2>1. call' \in [Caller -> Calls]
    BY <1>1, <1>2
  <2> QED BY <1>1, <1>3, <2>1 DEF TokenTypes, W!Place
<1>5. W!Fetching' = W!Fetching /\ W!Fetching \subseteq Caller
  BY <1>2 DEF W!Fetching
<1>6. \A c \in Caller : CallOk(call[c])'
  BY <1>1, <1>2 DEF TokenInv, CallOk, W!Fetching
<1>7. ASSUME wConfig'.redis, NEW c \in W!Fetching' PROVE Fetched(c)'
  <2>1. c \in W!Fetching /\ Fetched(c) /\ c \in Caller
    BY <1>1, <1>5, <1>7 DEF TokenInv
  <2>2. call'[c].age = call[c].age + 1 /\ call[c].age \in Nat
    BY <1>2, <2>1
  <2>3. CASE call[c].age >= 2
    BY <2>2, <2>3 DEF Fetched
  <2>4. CASE ~(call[c].age >= 2)
    <3>1. wLock.by = c /\ wLock.left = 60 - 20 * call[c].age
      BY <2>1, <2>2, <2>4 DEF Fetched
    <3>2. wLock.left > 20
      BY <2>2, <2>4, <3>1
    <3>3. wLock'.by = c /\ wLock'.left = 60 - 20 * call'[c].age
      BY <1>3, <2>2, <3>1, <3>2
    <3> QED BY <3>3 DEF Fetched
  <2> QED BY <2>3, <2>4
<1>8. ASSUME NEW p \in W!Place \ wCrossed PROVE OneFetch(p)'
  <2>1. OneFetch(p)
    BY <1>8 DEF TokenInv
  <2>2. W!FetchingFor(p)' = W!FetchingFor(p) /\ W!FetchingFor(p) \subseteq Caller
    BY <1>2, <1>5 DEF W!FetchingFor
  <2>3. \A c \in W!FetchingFor(p) : /\ call'[c].pc = call[c].pc
                                     /\ call'[c].token = call[c].token
    BY <1>2, <2>2
  <2> QED BY <1>1, <2>1, <2>2, <2>3 DEF OneFetch
<1>9. \A p \in W!Place : StoredOk(p)'
  BY <1>1 DEF TokenInv, StoredOk
<1>10. wConfig'.redis => wLast' = "redis"
  BY <1>1 DEF TokenInv
<1> QED BY <1>1, <1>4, <1>6, <1>7, <1>8, <1>9, <1>10 DEF TokenInv, W!Place

\* Every step of the composite keeps it.
LEMMA TokenInvariance == Spec => []TokenInv
<1>1. W!WxTokenAssumption
  BY AgreementAssumption
<1>2. Init => TokenInv
  BY <1>1, InitTokenInv DEF Init
<1>3. TokenInv /\ [Next]_vars => TokenInv'
  <2> SUFFICES ASSUME TokenInv, [Next]_vars PROVE TokenInv'
    OBVIOUS
  <2>1. ASSUME UNCHANGED <<wConfig, wLock, issued, wLast, call, wCrossed, lost>>,
               stored' \in [W!Place -> Nat],
               \A p \in W!Place : stored'[p] \in {stored[p], 0}
        PROVE  TokenInv'
    <3>1. TokenTypes'
      BY <2>1 DEF TokenInv, TokenTypes, W!Place
    <3>2. W!Fetching' = W!Fetching /\ \A p : W!FetchingFor(p)' = W!FetchingFor(p)
      BY <2>1 DEF W!Fetching, W!FetchingFor
    <3>3. \A p \in W!Place : OneFetch(p) => OneFetch(p)'
      BY <2>1, <3>2 DEF OneFetch
    <3>4. \A c : (CallOk(call[c]) => CallOk(call[c])') /\ (Fetched(c) => Fetched(c)')
      BY <2>1 DEF CallOk, Fetched
    <3>5. \A p \in W!Place : StoredOk(p)'
      <4>1. issued \in Nat
        BY DEF TokenInv, TokenTypes
      <4> QED BY <2>1, <4>1 DEF TokenInv, StoredOk
    <3>6. wCrossed' = wCrossed /\ wConfig' = wConfig /\ wLast' = wLast
      BY <2>1
    <3> QED BY <3>1, <3>2, <3>3, <3>4, <3>5, <3>6, <2>1 DEF TokenInv, W!Place
  <2>2. CASE W!Next
    <3>1. ASSUME NEW q \in W!Place, W!Expire(q) PROVE TokenInv'
      <4>1. stored \in [W!Place -> Nat] /\ stored' = [stored EXCEPT ![q] = 0]
        BY <3>1 DEF W!Expire, TokenInv, TokenTypes
      <4>2. /\ stored' \in [W!Place -> Nat]
            /\ \A p \in W!Place : stored'[p] \in {stored[p], 0}
        BY <4>1
      <4> QED BY <2>1, <3>1, <4>2 DEF W!Expire
    <3>2. CASE W!Tick
      BY <1>1, <3>2, TickCalls
    <3>3. ASSUME NEW c \in Caller,
                 \/ W!TakeLock(c) \/ W!Refuse(c) \/ W!Issue(c)
                 \/ W!Keep(c) \/ W!Break(c)
          PROVE  TokenInv'
      BY <1>1, <3>3, TakeLockCall, RefuseCall, IssueCall, KeepCall, BreakCall
    <3>4. ASSUME NEW c \in Caller, NEW i \in Instance, W!Look(c, i) PROVE TokenInv'
      BY <1>1, <3>4, LookCall
    <3> QED BY <2>2, <3>1, <3>2, <3>3, <3>4 DEF W!Next
  <2>3. CASE UNCHANGED token
    <3>1. /\ UNCHANGED <<wConfig, wLock, issued, wLast, call, wCrossed, lost>>
          /\ stored' = stored /\ stored \in [W!Place -> Nat]
      BY <2>3 DEF token, TokenInv, TokenTypes
    <3> QED BY <2>1, <3>1
  <2>4. W!Next \/ UNCHANGED token
    BY DEF Next, vars
  <2> QED BY <2>2, <2>3, <2>4
<1> QED BY <1>2, <1>3, PTL DEF Spec

\* For any number of instances, callers, issued tokens and failures, a token that
\* is answered from the place of the newest is the newest or about to be replaced
\* by it, until fetches crossed there or it was lost; every other place answers a
\* token that has ended, which with Redis none does (WxHelper.getAccessToken).
THEOREM NewestIsStored == Spec => []StoredIsNewest
<1>1. TokenInv => StoredIsNewest
  <2>1. ASSUME TokenInv, stored[wLast] # 0, wLast \notin wCrossed, ~lost
        PROVE  \/ stored[wLast] = issued
               \/ \E c \in W!FetchingFor(wLast) : call[c].token = issued
    <3>1. OneFetch(wLast)
      BY <2>1 DEF TokenInv, TokenTypes
    <3> QED BY <2>1, <3>1 DEF OneFetch
  <2>2. ASSUME TokenInv, NEW p \in W!Place \ {wLast}, stored[p] # 0
        PROVE  stored[p] < issued /\ ~wConfig.redis
    BY <2>2 DEF TokenInv, StoredOk
  <2> QED BY <2>1, <2>2 DEF StoredIsNewest, W!StoredIsNewest
<1> QED BY <1>1, TokenInvariance, PTL

-----------------------------------------------------------------------------
(* The types of the rounds: what their numbers are bounded by.               *)

Awake == {r \in Round : round[r].pc # "asleep"}

\* The counters of a place and the rounds that may still report to it are not more
\* than the rounds that were started.
JobBounds ==
    /\ jLock.left <= J!Ttl
    /\ \A r \in Round : round[r].age <= jConfig.work
    /\ started \in 0 .. MaxRounds /\ jCrashes \in 0 .. MaxFail
    /\ IsFiniteSet(Awake)
    /\ \A p \in J!Place : reported[p] + Cardinality(Awake) <= started

\* The bounds add what the types of the invariant leave open.
LEMMA JobBoundsAreTypes ==
    ASSUME J!SchedulerAssumption, JobTypes, JobBounds
    PROVE  J!TypeOK
<1>1. jConfig \in [redis : BOOLEAN, ttl : Nat \ {0}, work : Nat] /\ J!Ttl \in Nat
  BY DEF J!SchedulerAssumption, JobTypes, J!Ttl
<1>2. jLock \in [by : Round \cup {"none"}, left : 0 .. J!Ttl]
  BY <1>1 DEF JobTypes, JobBounds
<1>3. round \in [Round -> [pc : {"asleep", "ask", "work", "report", "save"},
                           at : Instance \cup {"none"}, age : 0 .. jConfig.work,
                           seen : Nat \cup {J!None}]]
  <2>1. \A r \in Round : round[r] \in [pc : {"asleep", "ask", "work", "report", "save"},
                           at : Instance \cup {"none"}, age : 0 .. jConfig.work,
                           seen : Nat \cup {J!None}]
    BY <1>1 DEF JobTypes, JobBounds, Rounds
  <2> QED BY <2>1 DEF JobTypes
<1>4. reported \in [J!Place -> 0 .. started]
  <2>1. Cardinality(Awake) \in Nat
    BY FS_CardinalityType DEF JobBounds
  <2>2. \A p \in J!Place : reported[p] \in 0 .. started
    BY <2>1 DEF JobTypes, JobBounds, J!SchedulerAssumption
  <2> QED BY <2>2 DEF JobTypes
<1> QED BY <1>2, <1>3, <1>4 DEF J!TypeOK, JobTypes, JobBounds

\* They hold in the beginning.
LEMMA InitJobBounds == ASSUME J!SchedulerAssumption, J!Init PROVE JobBounds
<1> USE DEF J!Init, J!SchedulerAssumption
<1>1. Awake = {}
  BY DEF Awake, J!Asleep
<1>2. IsFiniteSet(Awake) /\ Cardinality(Awake) = 0
  BY <1>1, FS_EmptySet
<1>3. J!Ttl \in Nat
  BY DEF J!Ttl
<1> QED BY <1>2, <1>3 DEF JobBounds, J!NoLock, J!Asleep

\* What a step has to show: the rounds that are awake, and the counters.
LEMMA JobBoundsStep ==
    ASSUME J!SchedulerAssumption, JobInv, JobBounds, jConfig' = jConfig,
           jLock' \in {jLock, J!NoLock} \/ jLock'.left <= J!Ttl,
           \A r \in Round : round'[r] = round[r] \/ round'[r].age <= jConfig.work,
           Awake' \subseteq Awake,
           \A p \in J!Place :
              \/ reported'[p] \in {0, reported[p]}
              \/ reported'[p] = reported[p] + 1 /\ \E r \in Awake : r \notin Awake',
           started' = started, jCrashes' \in 0 .. MaxFail
    PROVE  JobBounds'
<1>1. jConfig \in [redis : BOOLEAN, ttl : Nat \ {0}, work : Nat] /\ J!Ttl \in Nat
  BY DEF J!SchedulerAssumption, JobInv, JobTypes, J!Ttl
<1>2. jLock'.left <= J!Ttl /\ J!Ttl' = J!Ttl
  BY <1>1 DEF JobBounds, J!NoLock, J!Ttl
<1>3. /\ IsFiniteSet(Awake) /\ IsFiniteSet(Awake')
      /\ Cardinality(Awake) \in Nat /\ Cardinality(Awake') \in Nat
      /\ Cardinality(Awake') <= Cardinality(Awake)
  BY FS_Subset, FS_CardinalityType DEF JobBounds
<1>4. ASSUME NEW r \in Awake, r \notin Awake'
      PROVE  Cardinality(Awake') + 1 <= Cardinality(Awake)
  <2>1. Awake' # Awake
    BY <1>4
  <2>2. Cardinality(Awake') < Cardinality(Awake)
    BY <1>3, <2>1, FS_Subset
  <2> QED BY <1>3, <2>2
<1>5. ASSUME NEW p \in J!Place PROVE reported'[p] + Cardinality(Awake') <= started'
  <2>1. reported[p] \in Nat /\ reported[p] + Cardinality(Awake) <= started
        /\ started \in Int
    BY DEF JobInv, JobTypes, JobBounds, J!SchedulerAssumption
  <2>2. CASE reported'[p] \in {0, reported[p]}
    BY <1>3, <2>1, <2>2
  <2>3. CASE reported'[p] = reported[p] + 1 /\ \E r \in Awake : r \notin Awake'
    BY <1>3, <1>4, <2>1, <2>3
  <2> QED BY <2>2, <2>3
<1>6. \A r \in Round : round'[r].age <= jConfig'.work
  BY DEF JobBounds
<1> QED BY <1>2, <1>3, <1>5, <1>6 DEF JobBounds, J!Place

\* Rounds, lock and counters are well formed throughout every behaviour.
LEMMA JobsAreTyped == Spec => []J!TypeOK
<1>1. J!SchedulerAssumption
  BY AgreementAssumption
<1>2. Init => JobBounds
  BY <1>1, InitJobBounds DEF Init
<1>3. JobInv /\ JobBounds /\ [Next]_vars => JobBounds'
  <2> SUFFICES ASSUME JobInv, JobBounds, [Next]_vars PROVE JobBounds'
    OBVIOUS
  <2>1. /\ JobTypes /\ jConfig \in [redis : BOOLEAN, ttl : Nat \ {0}, work : Nat]
        /\ J!Ttl \in Nat /\ J!Asleep.age = 0 /\ J!Asleep.pc = "asleep"
        /\ round = [r \in Round |-> round[r]] /\ MaxFail \in Nat /\ MaxRounds \in Nat
        /\ started \in 0 .. MaxRounds /\ jCrashes \in 0 .. MaxFail
    BY <1>1 DEF J!SchedulerAssumption, JobInv, JobTypes, J!Ttl, J!Asleep, JobBounds
  <2>2. ASSUME NEW i \in Instance, NEW r \in Round, J!OnTick(i, r) PROVE JobBounds'
    <3>1. /\ UNCHANGED <<jConfig, jLock, reported, jCrashes>>
          /\ started < MaxRounds /\ started' = started + 1 /\ round[r] = J!Asleep
          /\ round'[r].pc = "ask" /\ round'[r].age = 0
          /\ \A q \in Round : q # r => round'[q] = round[q]
      BY <2>1, <2>2 DEF J!OnTick, J!Asleep
    <3>2. Awake' = Awake \cup {r} /\ r \notin Awake
      BY <2>1, <3>1 DEF Awake
    <3>3. /\ IsFiniteSet(Awake) /\ IsFiniteSet(Awake') /\ Cardinality(Awake) \in Nat
          /\ Cardinality(Awake') = Cardinality(Awake) + 1
      BY <3>2, FS_AddElement, FS_CardinalityType DEF JobBounds
    <3>4. ASSUME NEW p \in J!Place PROVE reported'[p] + Cardinality(Awake') <= started'
      <4>1. reported[p] \in Nat /\ reported[p] + Cardinality(Awake) <= started
        BY <2>1 DEF JobTypes, JobBounds
      <4> QED BY <2>1, <3>1, <3>3, <4>1
    <3>5. \A q \in Round : round'[q].age <= jConfig.work
      BY <2>1, <3>1 DEF JobBounds
    <3>6. started' \in 0 .. MaxRounds
      BY <2>1, <3>1
    <3>7. jLock'.left <= J!Ttl'
      BY <3>1 DEF JobBounds, J!Ttl
    <3> QED BY <3>1, <3>3, <3>4, <3>5, <3>6, <3>7 DEF JobBounds, J!Place
  <2>3. ASSUME NEW r \in Round,
               \/ J!Work(r) \/ J!PassOver(r) \/ J!Succeed(r) \/ J!Fail(r)
               \/ J!Report(r) \/ J!Save(r) \/ J!Reject(r)
        PROVE  JobBounds'
    <3>1. /\ UNCHANGED <<jConfig, started, jCrashes>> /\ round[r].pc # "asleep"
      BY <2>3 DEF J!Work, J!PassOver, J!Succeed, J!Fail, J!Report, J!Save, J!Reject
    <3>2. jLock' \in {jLock, J!NoLock} \/ jLock'.left <= J!Ttl
      BY <2>1, <2>3 DEF J!Work, J!PassOver, J!Succeed, J!Fail, J!Report, J!Save, J!Reject,
                        J!Released, J!Taken
    <3>3. /\ \A q \in Round : q # r => round'[q] = round[q]
          /\ round'[r].age \in {0, round[r].age}
      <4> PICK v \in Rounds : v = round[r]
        BY <2>1 DEF JobTypes
      <4>1. \E pc \in {"work", "report", "save", "asleep"}, n \in Nat \cup {J!None} :
               round' \in {[round EXCEPT ![r] = J!Asleep], [round EXCEPT ![r].pc = pc],
                           [round EXCEPT ![r].pc = pc, ![r].seen = success[J!Kept(r)]]}
        BY <2>3 DEF J!Work, J!PassOver, J!Succeed, J!Fail, J!Report, J!Save, J!Reject
      <4> QED BY <2>1, <4>1 DEF Rounds
    <3>4. \A q \in Round : round'[q] = round[q] \/ round'[q].age <= jConfig.work
      BY <2>1, <3>3 DEF JobBounds
    <3>5. Awake' \subseteq Awake
      BY <3>1, <3>3 DEF Awake
    <3>6. ASSUME NEW p \in J!Place
          PROVE  \/ reported'[p] \in {0, reported[p]}
                 \/ reported'[p] = reported[p] + 1 /\ \E q \in Awake : q \notin Awake'
      <4>1. CASE J!Save(r)
        <5>1. round'[r].pc = "asleep"
          BY <2>1, <4>1 DEF J!Save
        <5>2. r \in Awake /\ r \notin Awake'
          BY <3>1, <5>1 DEF Awake
        <5>3. reported'[p] \in {reported[p], reported[p] + 1}
          BY <2>1, <4>1 DEF J!Save, JobTypes
        <5> QED BY <5>2, <5>3
      <4>2. CASE ~J!Save(r)
        BY <2>3, <4>2 DEF J!Work, J!PassOver, J!Succeed, J!Fail, J!Report, J!Reject
      <4> QED BY <4>1, <4>2
    <3> QED BY <1>1, <2>1, <3>1, <3>2, <3>4, <3>5, <3>6, JobBoundsStep
  <2>4. ASSUME NEW i \in Instance, J!Crash(i) PROVE JobBounds'
    <3>1. /\ UNCHANGED <<jConfig, jLock, started>> /\ jCrashes' = jCrashes + 1
          /\ jCrashes < MaxFail
          /\ \A q \in Round : round'[q] \in {round[q], J!Asleep}
          /\ \A p \in J!Place : reported'[p] \in {0, reported[p]}
      BY <2>1, <2>4 DEF J!Crash, JobTypes
    <3>2. Awake' \subseteq Awake
      BY <2>1, <3>1 DEF Awake
    <3>3. \A q \in Round : round'[q] = round[q] \/ round'[q].age <= jConfig.work
      BY <2>1, <3>1
    <3>4. jCrashes' \in 0 .. MaxFail
      BY <2>1, <3>1
    <3> QED BY <1>1, <3>1, <3>2, <3>3, <3>4, JobBoundsStep
  <2>5. CASE J!Tick
    <3>1. /\ UNCHANGED <<jConfig, reported, started, jCrashes>>
          /\ jLock' = J!Aged(jLock, 1000)
          /\ \A q \in J!At("work") : round[q].age < jConfig.work
          /\ round' = [r \in Round |-> IF round[r].pc = "work"
                                       THEN [round[r] EXCEPT !.age = @ + 1] ELSE round[r]]
      BY <2>5 DEF J!Tick, J!Second
    <3>2. ASSUME NEW q \in Round
          PROVE  /\ round'[q] = round[q] \/ round'[q].age <= jConfig.work
                 /\ round'[q].pc = round[q].pc
      <4> PICK v \in Rounds : v = round[q]
        BY <2>1 DEF JobTypes
      <4>1. round'[q] = IF v.pc = "work" THEN [v EXCEPT !.age = @ + 1] ELSE v
        BY <3>1
      <4>2. v.pc = "work" => v.age < jConfig.work
        BY <3>1 DEF J!At
      <4> QED BY <2>1, <4>1, <4>2 DEF Rounds
    <3>3. Awake' \subseteq Awake
      BY <3>2 DEF Awake
    <3>4. jLock' \in {jLock, J!NoLock} \/ jLock'.left <= J!Ttl
      <4> DEFINE b == jLock.by
      <4>1. PICK l \in Nat : l = jLock.left
        BY <2>1 DEF JobTypes
      <4>2. jLock = [by |-> b, left |-> l]
        BY <2>1, <4>1 DEF JobTypes
      <4>3. l <= J!Ttl
        BY <4>1 DEF JobBounds
      <4>4. jLock' \in {J!NoLock, [by |-> b, left |-> l - 1000]}
        BY <3>1, <4>2 DEF J!Aged
      <4> QED BY <2>1, <4>1, <4>3, <4>4
    <3> QED BY <1>1, <2>1, <3>1, <3>2, <3>3, <3>4, JobBoundsStep
  <2>8. ASSUME NEW k \in J!Place, J!Expire(k) PROVE JobBounds'
    <3>1. /\ UNCHANGED <<jConfig, jLock, round, started, jCrashes>>
          /\ \A p \in J!Place : reported'[p] \in {0, reported[p]}
      BY <2>1, <2>8 DEF J!Expire, JobTypes
    <3>2. Awake' \subseteq Awake
      BY <3>1 DEF Awake
    <3> QED BY <1>1, <2>1, <3>1, <3>2, JobBoundsStep
  <2>6. CASE UNCHANGED jobs
    BY <1>1, <2>1, <2>6, JobBoundsStep DEF jobs, Awake
  <2>7. J!Next \/ UNCHANGED jobs
    BY DEF Next, vars
  <2> QED BY <2>2, <2>3, <2>4, <2>5, <2>6, <2>7, <2>8 DEF J!Next
<1>4. JobInv /\ JobBounds => J!TypeOK
  BY <1>1, JobBoundsAreTypes DEF JobInv
<1> QED BY <1>2, <1>3, <1>4, JobInvariance, PTL DEF Spec

-----------------------------------------------------------------------------
(* The types of the token: nobody has one that was not issued.               *)

TokenBounds ==
    /\ wLock.left <= W!Ttl
    /\ issued <= MaxIssued /\ wFails \in 0 .. MaxFail
    /\ \A c \in Caller : call[c].token <= issued /\ call[c].age <= wConfig.work

\* The bounds add what the types of the invariant leave open.
LEMMA TokenBoundsAreTypes ==
    ASSUME W!WxTokenAssumption, TokenTypes, TokenBounds,
           \A p \in W!Place : StoredOk(p)
    PROVE  W!TypeOK
<1>1. wConfig.work \in Nat /\ MaxIssued \in Nat /\ W!Ttl \in Nat
  BY DEF W!WxTokenAssumption, TokenTypes, W!Ttl
<1>2. wLock \in [by : Caller \cup {"none"}, left : 0 .. W!Ttl]
  BY <1>1 DEF TokenTypes, TokenBounds
<1>3. call \in [Caller -> [pc : {"ready", "lock", "fetch", "keep"},
                           at : W!Place, token : 0 .. issued, age : 0 .. wConfig.work]]
  <2>1. \A c \in Caller : call[c] \in [pc : {"ready", "lock", "fetch", "keep"},
                                       at : W!Place, token : 0 .. issued, age : 0 .. wConfig.work]
    BY <1>1 DEF TokenTypes, TokenBounds, Calls
  <2> QED BY <2>1 DEF TokenTypes
<1>4. issued \in 0 .. MaxIssued /\ stored \in [W!Place -> 0 .. issued]
  <2>1. \A p \in W!Place : stored[p] \in 0 .. issued
    BY <1>1 DEF TokenTypes, StoredOk
  <2> QED BY <1>1, <2>1 DEF TokenTypes, TokenBounds
<1> QED BY <1>2, <1>3, <1>4 DEF W!TypeOK, TokenTypes, TokenBounds

\* What a step has to show of the callers it moves.
LEMMA TokenBoundsStep ==
    ASSUME TokenTypes, TokenBounds, wConfig' = wConfig,
           wLock' \in {wLock, W!NoLock} \/ wLock'.left <= W!Ttl,
           issued <= issued', issued' \in Nat, issued' <= MaxIssued,
           wFails' \in 0 .. MaxFail,
           \A c \in Caller :
              \/ call'[c] = call[c]
              \/ call'[c].token <= issued' /\ call'[c].age <= wConfig.work
    PROVE  TokenBounds'
<1>1. wLock'.left <= W!Ttl /\ W!Ttl' = W!Ttl
  BY DEF TokenBounds, W!NoLock, W!Ttl
<1>2. ASSUME NEW c \in Caller
      PROVE  call'[c].token <= issued' /\ call'[c].age <= wConfig'.work
  <2>1. call[c].token \in Nat /\ issued \in Nat
    BY DEF TokenTypes, Calls
  <2>2. call[c].token <= issued /\ call[c].age <= wConfig.work
    BY DEF TokenBounds
  <2>3. call[c].token <= issued'
    BY <2>1, <2>2
  <2> QED BY <2>2, <2>3
<1> QED BY <1>1, <1>2 DEF TokenBounds

\* Token, lock and callers are well formed throughout every behaviour.
LEMMA TokenIsTyped == Spec => []W!TypeOK
<1>1. W!WxTokenAssumption
  BY AgreementAssumption
<1>2. Init => TokenBounds
  <2> SUFFICES ASSUME W!Init PROVE TokenBounds
    BY DEF Init
  <2>1. wConfig.work \in Nat /\ MaxIssued \in Nat /\ MaxFail \in Nat
    BY <1>1 DEF W!WxTokenAssumption, W!Init
  <2> QED BY <2>1 DEF W!Init, TokenBounds, W!NoLock, W!Ready, W!Ttl
<1>3. TokenInv /\ TokenBounds /\ [Next]_vars => TokenBounds'
  <2> SUFFICES ASSUME TokenInv, TokenBounds, [Next]_vars PROVE TokenBounds'
    OBVIOUS
  <2>1. /\ TokenTypes /\ wConfig.work \in Nat /\ issued \in Nat
        /\ MaxFail \in Nat /\ MaxIssued \in Nat /\ W!Ttl = 60
        /\ W!Ready.token = 0 /\ W!Ready.age = 0
        /\ issued <= MaxIssued /\ wFails \in 0 .. MaxFail
    BY <1>1 DEF W!WxTokenAssumption, TokenInv, TokenTypes, TokenBounds, W!Ready, W!Ttl
  <2>8. ASSUME NEW c \in Caller, NEW i \in Instance, W!Look(c, i) PROVE TokenBounds'
    <3>1. UNCHANGED <<wConfig, issued, wLock, wFails>>
      BY <2>8 DEF W!Look
    <3>2. \E n : call' = [call EXCEPT ![c] = n] /\ n.token = 0 /\ n.age = 0
      <4>1. PICK at, pc : call' = [call EXCEPT ![c].at = at, ![c].pc = pc]
        BY <2>8 DEF W!Look
      <4>2. call[c] = W!Ready
        BY <2>8 DEF W!Look
      <4>3. call' = [call EXCEPT ![c] = [W!Ready EXCEPT !.at = at, !.pc = pc]]
        BY <4>1, <4>2
      <4> DEFINE n == [W!Ready EXCEPT !.at = at, !.pc = pc]
      <4>4. n.token = 0 /\ n.age = 0
        BY DEF W!Ready
      <4> HIDE DEF n
      <4> QED BY <4>3, <4>4 DEF n
    <3>3. ASSUME NEW d \in Caller
          PROVE  \/ call'[d] = call[d]
                 \/ call'[d].token <= issued /\ call'[d].age <= wConfig.work
      BY <2>1, <3>2 DEF TokenTypes
    <3> QED BY <2>1, <3>1, <3>3, TokenBoundsStep
  <2>2. ASSUME NEW c \in Caller,
               W!TakeLock(c) \/ W!Refuse(c) \/ W!Keep(c) \/ W!Break(c)
        PROVE  TokenBounds'
    <3>1. UNCHANGED <<wConfig, issued>>
      BY <2>2 DEF W!TakeLock, W!Refuse, W!Keep, W!Break
    <3>2. wLock' \in {wLock, W!NoLock} \/ wLock'.left <= W!Ttl
      BY <2>1, <2>2 DEF W!TakeLock, W!Refuse, W!Keep, W!Break, W!Released, W!Taken
    <3>4. wFails' \in 0 .. MaxFail
      BY <2>1, <2>2 DEF W!TakeLock, W!Refuse, W!Keep, W!Break
    <3>5. ASSUME NEW d \in Caller
          PROVE  \/ call'[d] = call[d]
                 \/ call'[d].token <= issued /\ call'[d].age <= wConfig.work
      <4>1. PICK v \in Calls : v = call[c]
        BY <2>1 DEF TokenTypes
      <4>2. v.token <= issued /\ v.age <= wConfig.work
        BY <4>1 DEF TokenBounds
      <4>3. call' \in {[call EXCEPT ![c] = W!Ready], [call EXCEPT ![c].pc = "fetch"]}
        BY <2>2 DEF W!TakeLock, W!Refuse, W!Keep, W!Break
      <4>4. d = c => \/ call'[d] = W!Ready
                     \/ call'[d].token = v.token /\ call'[d].age = v.age
        BY <2>1, <4>1, <4>3 DEF TokenTypes, Calls
      <4>5. d # c => call'[d] = call[d]
        BY <2>1, <4>3 DEF TokenTypes
      <4> QED BY <2>1, <4>2, <4>4, <4>5
    <3> QED BY <2>1, <3>1, <3>2, <3>4, <3>5, TokenBoundsStep
  <2>3. ASSUME NEW c \in Caller, W!Issue(c) PROVE TokenBounds'
    <3>1. /\ UNCHANGED <<wConfig, wLock, stored, wFails>>
          /\ issued < MaxIssued /\ issued' = issued + 1
      BY <2>3 DEF W!Issue
    <3>2. ASSUME NEW d \in Caller
          PROVE  \/ call'[d] = call[d]
                 \/ call'[d].token <= issued' /\ call'[d].age <= wConfig.work
      <4>1. PICK v \in Calls : v = call[c]
        BY <2>1 DEF TokenTypes
      <4>2. v.age <= wConfig.work
        BY <4>1 DEF TokenBounds
      <4>3. call' = [call EXCEPT ![c] = [v EXCEPT !.pc = "keep", !.token = issued + 1]]
        BY <2>3, <4>1 DEF W!Issue
      <4>4. d = c => call'[d].token = issued + 1 /\ call'[d].age = v.age
        BY <2>1, <4>3 DEF TokenTypes, Calls
      <4>5. d # c => call'[d] = call[d]
        BY <2>1, <4>3 DEF TokenTypes
      <4> QED BY <2>1, <3>1, <4>2, <4>4, <4>5
    <3>3. issued <= issued' /\ issued' \in Nat /\ issued' <= MaxIssued
      BY <2>1, <3>1
    <3> QED BY <2>1, <3>1, <3>2, <3>3, TokenBoundsStep
  <2>4. ASSUME NEW p \in W!Place, W!Expire(p) PROVE TokenBounds'
    BY <2>1, <2>4, TokenBoundsStep DEF W!Expire
  <2>5. CASE W!Tick
    <3>1. /\ UNCHANGED <<wConfig, stored, issued, wFails>>
          /\ wLock' = W!Aged(wLock, 20)
          /\ \A c \in W!Fetching : call[c].age < wConfig.work
          /\ call' = [c \in Caller |-> IF c \in W!Fetching
                                       THEN [call[c] EXCEPT !.age = @ + 1] ELSE call[c]]
      BY <2>5 DEF W!Tick, W!Tick20
    <3>2. ASSUME NEW d \in Caller
          PROVE  \/ call'[d] = call[d]
                 \/ call'[d].token <= issued /\ call'[d].age <= wConfig.work
      <4>1. PICK v \in Calls : v = call[d]
        BY <2>1 DEF TokenTypes
      <4>2. v.token <= issued
        BY <4>1 DEF TokenBounds
      <4>3. call'[d] = IF d \in W!Fetching THEN [v EXCEPT !.age = @ + 1] ELSE v
        BY <3>1, <4>1
      <4>4. d \in W!Fetching => v.age < wConfig.work
        BY <3>1, <4>1
      <4> QED BY <2>1, <4>1, <4>2, <4>3, <4>4 DEF Calls
    <3>3. wLock' \in {wLock, W!NoLock} \/ wLock'.left <= W!Ttl
      <4> DEFINE b == wLock.by
      <4>1. PICK l \in Nat : l = wLock.left
        BY <2>1 DEF TokenTypes
      <4>2. wLock = [by |-> b, left |-> l]
        BY <2>1, <4>1 DEF TokenTypes
      <4>3. l <= W!Ttl
        BY <4>1 DEF TokenBounds
      <4>4. wLock' \in {W!NoLock, [by |-> b, left |-> l - 20]}
        BY <3>1, <4>2 DEF W!Aged
      <4> QED BY <2>1, <4>1, <4>3, <4>4
    <3> QED BY <2>1, <3>1, <3>2, <3>3, TokenBoundsStep
  <2>6. CASE UNCHANGED token
    BY <2>1, <2>6, TokenBoundsStep DEF token
  <2>7. W!Next \/ UNCHANGED token
    BY DEF Next, vars
  <2> QED BY <2>2, <2>3, <2>4, <2>5, <2>6, <2>7, <2>8 DEF W!Next
<1>4. TokenInv /\ TokenBounds => W!TypeOK
  BY <1>1, TokenBoundsAreTypes DEF TokenInv
<1> QED BY <1>2, <1>3, <1>4, TokenInvariance, PTL DEF Spec
=============================================================================
