---------------------------- MODULE ServiceProofs ----------------------------
(***************************************************************************)
(* Proofs about Service.  Every step of the service is a step of the       *)
(* executor and of the model calls or leaves them alone, so the invariants *)
(* of both are shown of their own steps and hold of the composition.       *)
(***************************************************************************)
EXTENDS Service, DataInduction, TLAPS

Holding == {"publish", "run", "fetch", "plan_on", "plan", "plan_off", "release"}
Places == Holding \cup {"idle", "connect", "ended", "returned"}
Timeouts == Operations \cup {"none", "default"}
Contexts == Tenants \cup {NoTenant}

ConnectionType ==
    [open : BOOLEAN, user : Callers \cup {Nobody}, context : Contexts, timeout : Timeouts,
     plan : BOOLEAN, stuck : BOOLEAN]

ThreadType ==
    [op : Operations \cup {"none"}, at : Places, attempt : Nat, gone : BOOLEAN,
     conn : Connections \cup {Nobody}, previous : Timeouts,
     error : Classes \cup {Unclassified, "none"}, ranAs : SUBSET Contexts, answer : Seq(Nat),
     kept : Nat, bytes : Nat, truncated : BOOLEAN, limited : BOOLEAN]

Types ==
    /\ conns \in [Connections -> ConnectionType]
    /\ thread \in [Callers -> ThreadType]

\* A thread that holds a connection is its user, and a connection's user holds it.
Owned ==
    /\ \A k \in Callers : thread[k].at \in Holding =>
          thread[k].conn \in Connections /\ conns[thread[k].conn].user = k
    /\ \A c \in Connections : conns[c].user # Nobody =>
          thread[conns[c].user].at \in Holding /\ thread[conns[c].user].conn = c

\* What a thread puts back is what a clean connection had.
Restorable == \A k \in Callers : thread[k].at \in Holding => thread[k].previous = "default"

\* A connection in use is in plan mode only between the two statements that switch it, or is stuck there.
PlansOnly ==
    \A k \in Callers : thread[k].at \in Holding =>
        (conns[thread[k].conn].plan => conns[thread[k].conn].stuck \/ thread[k].at \in {"plan", "plan_off"})

Scoped(k) == Publishes /\ TenantOf[k] # NoTenant /\ thread[k].op \in {"execute", "dry_run"}

\* A thread that is about to read for a tenant is in a session of that tenant, or in one that reads nothing.
Published ==
    \A k \in Callers : Scoped(k) /\ thread[k].at = "run" =>
        conns[thread[k].conn].plan \/ conns[thread[k].conn].context = TenantOf[k]

ExecutorInv ==
    Types /\ Owned /\ Restorable /\ PlansOnly /\ Published /\ IdleIsClean /\ RunsAsItsTenant

-----------------------------------------------------------------------------
\* A thread that has not started is well typed.
LEMMA UnstartedType == Unstarted \in ThreadType /\ Unstarted.at = "idle" /\ Unstarted.ranAs = {}
BY ExecutorAssumption DEF Unstarted, ThreadType, Places, Timeouts

\* Before anything runs every connection is closed and every thread idle (SQLExecutor.__init__).
LEMMA ExecutorInitially == ExecutorInit => ExecutorInv
<1> SUFFICES ASSUME ExecutorInit PROVE ExecutorInv
  OBVIOUS
<1> USE ExecutorAssumption
<1>1. Closed \in ConnectionType
  BY DEF Closed, ConnectionType, Contexts, Timeouts
<1>2. Types
  BY <1>1, UnstartedType DEF ExecutorInit, Types
<1>3. (\A c \in Connections : conns[c].user = Nobody /\ conns[c].timeout = "default" /\ ~ conns[c].plan)
      /\ (\A k \in Callers : thread[k].at = "idle" /\ thread[k].ranAs = {})
  BY DEF ExecutorInit, Closed, Unstarted
<1> QED
  BY <1>2, <1>3 DEF ExecutorInv, Owned, Restorable, PlansOnly, Published, IdleIsClean,
     RunsAsItsTenant, Holding

\* A step of k that leaves the connections alone, and keeps k where it holds the connection it held or where
\* it holds none it did not hold.
Quiet(k) ==
    /\ UNCHANGED conns
    /\ \A j \in Callers \ {k} : thread'[j] = thread[j]
    /\ thread'[k].at \in Holding <=> thread[k].at \in Holding
    /\ thread[k].at \in Holding =>
          thread'[k].conn = thread[k].conn /\ thread'[k].previous = thread[k].previous
    /\ thread[k].at \in {"plan", "plan_off"} => thread'[k].at \in {"plan", "plan_off"}
    /\ thread'[k].at = "run" => thread[k].at = "run" /\ thread'[k].op = thread[k].op
    /\ thread'[k].ranAs # {} =>
          /\ thread'[k].op = thread[k].op
          /\ \/ thread'[k].ranAs = thread[k].ranAs
             \/ /\ thread[k].at = "run" /\ ~ conns[thread[k].conn].plan
                /\ thread'[k].ranAs = {conns[thread[k].conn].context}

\* Such a step keeps the invariant.
LEMMA QuietKeeps ==
    ASSUME NEW k \in Callers, ExecutorInv, Types', Quiet(k)
    PROVE  ExecutorInv'
<1>1. Owned'
  <2>1. ASSUME NEW j \in Callers, thread'[j].at \in Holding
        PROVE  thread'[j].conn \in Connections /\ conns'[thread'[j].conn].user = j
    <3>1. thread[j].at \in Holding /\ thread'[j].conn = thread[j].conn
      BY <2>1 DEF Quiet
    <3> QED BY <3>1 DEF ExecutorInv, Owned, Quiet
  <2>2. ASSUME NEW c \in Connections, conns'[c].user # Nobody
        PROVE  thread'[conns'[c].user].at \in Holding /\ thread'[conns'[c].user].conn = c
    <3>1. conns[c].user \in Callers /\ conns'[c].user = conns[c].user
      BY <2>2 DEF ExecutorInv, Types, ConnectionType, Quiet
    <3>2. thread[conns[c].user].at \in Holding /\ thread[conns[c].user].conn = c
      BY <2>2, <3>1 DEF ExecutorInv, Owned
    <3> QED BY <3>1, <3>2 DEF Quiet
  <2> QED BY <2>1, <2>2 DEF Owned
<1>2. Restorable' /\ PlansOnly' /\ IdleIsClean'
  BY DEF ExecutorInv, Types, Owned, Quiet, Restorable, PlansOnly, IdleIsClean, Holding
<1>3. Published'
  BY DEF ExecutorInv, Quiet, Published, Scoped, Holding
<1>4. RunsAsItsTenant'
  BY DEF ExecutorInv, Quiet, Published, Scoped, RunsAsItsTenant
<1> QED BY <1>1, <1>2, <1>3, <1>4 DEF ExecutorInv

\* A step of k on the connection it holds.
LEMMA HolderKeeps ==
    ASSUME NEW k \in Callers, ExecutorInv, Types',
           thread[k].at \in Holding,
           \A j \in Callers \ {k} : thread'[j] = thread[j],
           \A c \in Connections \ {thread[k].conn} : conns'[c] = conns[c],
           thread'[k].at \in Holding,
           thread'[k].op = thread[k].op, thread'[k].conn = thread[k].conn,
           thread'[k].previous = thread[k].previous, thread'[k].ranAs = thread[k].ranAs,
           conns'[thread[k].conn].user = k,
           conns'[thread[k].conn].plan =>
               conns'[thread[k].conn].stuck \/ thread'[k].at \in {"plan", "plan_off"},
           Scoped(k) /\ thread'[k].at = "run" =>
               conns'[thread[k].conn].plan \/ conns'[thread[k].conn].context = TenantOf[k]
    PROVE  ExecutorInv'
<1>1. thread[k].conn \in Connections /\ conns[thread[k].conn].user = k
  BY DEF ExecutorInv, Owned
<1>2. \A j \in Callers \ {k} : thread[j].at \in Holding =>
          thread[j].conn \in Connections \ {thread[k].conn} /\ conns[thread[j].conn].user = j
  BY <1>1 DEF ExecutorInv, Owned
<1>3. Owned'
  <2>1. ASSUME NEW j \in Callers, thread'[j].at \in Holding
        PROVE  thread'[j].conn \in Connections /\ conns'[thread'[j].conn].user = j
    BY <1>1, <1>2, <2>1
  <2>2. ASSUME NEW c \in Connections, conns'[c].user # Nobody
        PROVE  thread'[conns'[c].user].at \in Holding /\ thread'[conns'[c].user].conn = c
    <3>1. CASE c = thread[k].conn
      BY <3>1
    <3>2. CASE c # thread[k].conn
      <4>1. conns[c].user \in Callers /\ conns'[c] = conns[c]
        BY <2>2, <3>2 DEF ExecutorInv, Types, ConnectionType
      <4>2. thread[conns[c].user].at \in Holding /\ thread[conns[c].user].conn = c
        BY <2>2, <4>1 DEF ExecutorInv, Owned
      <4> QED BY <3>2, <4>1, <4>2
    <3> QED BY <3>1, <3>2
  <2> QED BY <2>1, <2>2 DEF Owned
<1>4. Restorable'
  BY DEF ExecutorInv, Restorable
<1>5. PlansOnly'
  BY <1>1, <1>2 DEF ExecutorInv, PlansOnly
<1>6. Published'
  BY <1>1, <1>2 DEF ExecutorInv, Published, Scoped, Holding
<1>7. IdleIsClean'
  <2>1. Nobody # k
    BY ExecutorAssumption
  <2> QED BY <1>1, <2>1 DEF ExecutorInv, IdleIsClean
<1>8. RunsAsItsTenant'
  BY DEF ExecutorInv, RunsAsItsTenant
<1> QED BY <1>3, <1>4, <1>5, <1>6, <1>7, <1>8 DEF ExecutorInv

\* Connect gives k a connection nobody has.
LEMMA ConnectKeeps ==
    ASSUME NEW k \in Callers, NEW c \in Connections, NEW fresh \in BOOLEAN, ExecutorInv, Connect(k, c, fresh)
    PROVE  ExecutorInv'
<1>1. thread[k] \in ThreadType /\ thread[k].at = "connect" /\ conns[c].user = Nobody /\ k # Nobody
  BY ExecutorAssumption DEF ExecutorInv, Types, Connect
<1>2. PICK session \in ConnectionType : session = IF fresh THEN Closed ELSE conns[c]
  BY ExecutorAssumption DEF ExecutorInv, Types, Closed, ConnectionType, Contexts, Timeouts
<1>3. session.timeout = "default" /\ (session.plan => session.stuck)
  BY <1>1, <1>2 DEF ExecutorInv, IdleIsClean, Closed
<1>4. PICK timeout \in Timeouts :
          conns' = [conns EXCEPT ![c] = [session EXCEPT !.open = TRUE, !.user = k, !.timeout = timeout]]
  <2>1. (IF thread[k].op = "ping" THEN session.timeout ELSE thread[k].op) \in Timeouts
    BY <1>1, <1>2 DEF ThreadType, ConnectionType, Timeouts
  <2> QED BY <1>2, <2>1 DEF Connect
<1>5. PICK at \in {"plan_on", "publish", "run"} :
          /\ thread' = [thread EXCEPT ![k].conn = c, ![k].previous = session.timeout, ![k].at = at]
          /\ Scoped(k) => at # "run"
  BY <1>2 DEF Connect, Scoped
<1>6. Types'
  <2>1. [session EXCEPT !.open = TRUE, !.user = k, !.timeout = timeout] \in ConnectionType
    BY <1>2, <1>4 DEF ConnectionType
  <2>2. [thread[k] EXCEPT !.conn = c, !.previous = session.timeout, !.at = at] \in ThreadType
    BY <1>1, <1>3, <1>5, ZenonT(40) DEF ThreadType, Places, Holding, Timeouts
  <2>3. thread' = [thread EXCEPT ![k] = [thread[k] EXCEPT !.conn = c, !.previous = session.timeout, !.at = at]]
    BY <1>5 DEF ExecutorInv, Types, ThreadType
  <2> QED BY <1>4, <2>1, <2>2, <2>3 DEF ExecutorInv, Types
<1>7. /\ thread'[k].conn = c /\ thread'[k].previous = "default" /\ thread'[k].at \in Holding \ {"plan", "plan_off"}
      /\ thread'[k].op = thread[k].op /\ thread'[k].ranAs = thread[k].ranAs
      /\ Scoped(k) => thread'[k].at # "run"
      /\ \A j \in Callers \ {k} : thread'[j] = thread[j]
  BY <1>1, <1>3, <1>5 DEF ExecutorInv, Types, ThreadType, Holding
<1>8. /\ conns'[c].user = k /\ (conns'[c].plan => conns'[c].stuck)
      /\ \A d \in Connections \ {c} : conns'[d] = conns[d]
  BY <1>3, <1>4 DEF ExecutorInv, Types, ConnectionType
<1>9. \A j \in Callers \ {k} : thread[j].at \in Holding =>
          thread[j].conn \in Connections \ {c} /\ conns[thread[j].conn].user = j
  BY <1>1, ExecutorAssumption DEF ExecutorInv, Owned
<1>10. Owned'
  <2>1. ASSUME NEW j \in Callers, thread'[j].at \in Holding
        PROVE  thread'[j].conn \in Connections /\ conns'[thread'[j].conn].user = j
    BY <1>7, <1>8, <1>9, <2>1
  <2>2. ASSUME NEW d \in Connections, conns'[d].user # Nobody
        PROVE  thread'[conns'[d].user].at \in Holding /\ thread'[conns'[d].user].conn = d
    <3>1. CASE d = c
      BY <1>7, <1>8, <3>1
    <3>2. CASE d # c
      <4>1. conns[d].user \in Callers /\ conns'[d] = conns[d]
        BY <1>8, <2>2, <3>2 DEF ExecutorInv, Types, ConnectionType
      <4>2. thread[conns[d].user].at \in Holding /\ conns[d].user # k
        BY <1>1, <2>2, <4>1 DEF ExecutorInv, Owned, Holding
      <4>3. thread[conns[d].user].conn = d
        BY <2>2, <4>1 DEF ExecutorInv, Owned
      <4> QED BY <1>7, <4>1, <4>2, <4>3
    <3> QED BY <3>1, <3>2
  <2> QED BY <2>1, <2>2 DEF Owned
<1>11. Restorable'
  BY <1>7 DEF ExecutorInv, Restorable
<1>12. PlansOnly'
  BY <1>7, <1>8, <1>9 DEF ExecutorInv, PlansOnly
<1>13. Published'
  BY <1>7, <1>8, <1>9 DEF ExecutorInv, Published, Scoped, Holding
<1>14. IdleIsClean'
  BY <1>1, <1>8 DEF ExecutorInv, IdleIsClean
<1>15. RunsAsItsTenant'
  BY <1>7 DEF ExecutorInv, RunsAsItsTenant
<1> QED BY <1>6, <1>10, <1>11, <1>12, <1>13, <1>14, <1>15 DEF ExecutorInv

\* Release puts back what k holds, as it was before, or closes it.
LEMMA ReleaseKeeps ==
    ASSUME NEW k \in Callers, NEW broken \in BOOLEAN, ExecutorInv, Release(k, broken)
    PROVE  ExecutorInv'
<1> DEFINE c == thread[k].conn
<1>1. thread[k] \in ThreadType /\ thread[k].at = "release" /\ k # Nobody
  BY ExecutorAssumption DEF ExecutorInv, Types, Release
<1>2. c \in Connections /\ conns[c].user = k /\ conns[c] \in ConnectionType
  BY <1>1 DEF ExecutorInv, Types, Owned, Holding
<1>3. thread[k].previous = "default" /\ (conns[c].plan => conns[c].stuck)
  BY <1>1 DEF ExecutorInv, Restorable, PlansOnly, Holding
<1>4. PICK session \in ConnectionType :
          /\ conns' = [conns EXCEPT ![c] = session]
          /\ session.user = Nobody /\ session.timeout = "default" /\ (session.plan => session.stuck)
  <2>1. CASE conns' = [conns EXCEPT ![c] = Closed]
    <3>1. Closed \in ConnectionType /\ Closed.user = Nobody /\ Closed.timeout = "default" /\ ~ Closed.plan
      BY DEF Closed, ConnectionType, Contexts, Timeouts
    <3> QED BY <2>1, <3>1
  <2>2. CASE conns' = [conns EXCEPT ![c] = [conns[c] EXCEPT !.user = Nobody, !.timeout = thread[k].previous]]
    <3> DEFINE session == [conns[c] EXCEPT !.user = Nobody, !.timeout = thread[k].previous]
    <3>1. session \in ConnectionType /\ session.user = Nobody /\ session.timeout = "default"
          /\ (session.plan => session.stuck)
      BY <1>2, <1>3 DEF ConnectionType, Timeouts
    <3> QED BY <2>2, <3>1
  <2> QED BY <1>2, <2>1, <2>2 DEF Release, ExecutorInv, Types
<1>5. /\ thread'[k] \in ThreadType /\ thread'[k].at = "ended" /\ thread'[k].ranAs = {}
      /\ thread' = [thread EXCEPT ![k] = thread'[k]]
  <2> DEFINE t == [Unstarted EXCEPT !.op = thread[k].op, !.at = "ended", !.attempt = thread[k].attempt,
                                    !.gone = thread[k].gone, !.error = thread[k].error]
  <2>1. t \in ThreadType /\ t.at = "ended" /\ t.ranAs = {}
    <3>1. thread[k].op \in Operations \cup {"none"} /\ thread[k].attempt \in Nat /\ thread[k].gone \in BOOLEAN
          /\ thread[k].error \in Classes \cup {Unclassified, "none"}
      BY <1>1 DEF ThreadType
    <3> QED BY <3>1, UnstartedType, ZenonT(40) DEF ThreadType, Unstarted, Places
  <2>2. thread' = [thread EXCEPT ![k] = t]
    BY DEF Release
  <2> QED BY <2>1, <2>2 DEF ExecutorInv, Types
<1>6. Types'
  BY <1>4, <1>5 DEF ExecutorInv, Types
<1>7. \A j \in Callers \ {k} : thread'[j] = thread[j]
  BY <1>5 DEF ExecutorInv, Types
<1>8. conns'[c].user = Nobody /\ conns'[c].timeout = "default" /\ (conns'[c].plan => conns'[c].stuck)
      /\ \A d \in Connections \ {c} : conns'[d] = conns[d]
  BY <1>2, <1>4 DEF ExecutorInv, Types
<1>9. \A j \in Callers \ {k} : thread[j].at \in Holding =>
          thread[j].conn \in Connections \ {c} /\ conns[thread[j].conn].user = j
  BY <1>2 DEF ExecutorInv, Owned
<1>10. thread'[k].at \notin Holding
  BY <1>5 DEF Holding
<1>11. Owned'
  <2>1. ASSUME NEW j \in Callers, thread'[j].at \in Holding
        PROVE  thread'[j].conn \in Connections /\ conns'[thread'[j].conn].user = j
    BY <1>7, <1>8, <1>9, <1>10, <2>1
  <2>2. ASSUME NEW d \in Connections, conns'[d].user # Nobody
        PROVE  thread'[conns'[d].user].at \in Holding /\ thread'[conns'[d].user].conn = d
    <3>1. d # c /\ conns'[d] = conns[d] /\ conns[d].user \in Callers
      BY <1>8, <2>2 DEF ExecutorInv, Types, ConnectionType
    <3>2. thread[conns[d].user].at \in Holding /\ thread[conns[d].user].conn = d
      BY <2>2, <3>1 DEF ExecutorInv, Owned
    <3>3. conns[d].user # k
      BY <3>1, <3>2
    <3> QED BY <1>7, <3>1, <3>2, <3>3
  <2> QED BY <2>1, <2>2 DEF Owned
<1>12. Restorable'
  BY <1>7, <1>10 DEF ExecutorInv, Restorable
<1>13. PlansOnly'
  BY <1>7, <1>8, <1>9, <1>10 DEF ExecutorInv, PlansOnly
<1>14. Published'
  BY <1>5, <1>7, <1>8, <1>9 DEF ExecutorInv, Published, Scoped, Holding
<1>15. IdleIsClean'
  BY <1>8 DEF ExecutorInv, IdleIsClean
<1>16. RunsAsItsTenant'
  BY <1>5, <1>7 DEF ExecutorInv, RunsAsItsTenant
<1> QED BY <1>6, <1>11, <1>12, <1>13, <1>14, <1>15, <1>16 DEF ExecutorInv

\* The steps of a thread on the connection it holds.
LEMMA ThreadKeeps ==
    ASSUME NEW k \in Callers, ExecutorInv, ThreadStep(k)
    PROVE  ExecutorInv'
<1> USE ExecutorAssumption
<1>0. thread[k] \in ThreadType /\ Types
  BY DEF ExecutorInv, Types
<1>1. CASE \E c \in Connections, fresh \in BOOLEAN : Connect(k, c, fresh)
  BY <1>1, ConnectKeeps
<1>2. CASE \E broken \in BOOLEAN : Release(k, broken)
  BY <1>2, ReleaseKeeps
<1>3. CASE ConnectFails(k)
  <2>1. Types'
    BY <1>0, <1>3 DEF ConnectFails, Types, ThreadType, Places
  <2>2. Quiet(k)
    BY <1>0, <1>3 DEF ConnectFails, Types, ThreadType, Quiet, Holding
  <2> QED BY <2>1, <2>2, QuietKeeps
<1>4. CASE Publish(k)
  <2> DEFINE c == thread[k].conn
  <2>1. thread[k].at \in Holding /\ c \in Connections /\ conns[c].user = k /\ conns[c] \in ConnectionType
    BY <1>4 DEF Publish, ExecutorInv, Owned, Holding, Types
  <2>2. Types'
    BY <1>0, <1>4, <2>1 DEF Publish, Types, ThreadType, ConnectionType, Places, Holding, Contexts
  <2>3. /\ \A j \in Callers \ {k} : thread'[j] = thread[j]
        /\ \A d \in Connections \ {c} : conns'[d] = conns[d]
        /\ thread'[k].op = thread[k].op /\ thread'[k].conn = c
        /\ thread'[k].previous = thread[k].previous /\ thread'[k].ranAs = thread[k].ranAs
        /\ conns'[c].user = k
    BY <1>0, <1>4, <2>1 DEF Publish, Types, ThreadType, ConnectionType
  <2>4. /\ thread'[k].at = "run" /\ (conns'[c].plan => conns'[c].stuck)
        /\ conns'[c].plan \/ conns'[c].context = TenantOf[k]
    BY <1>0, <1>4, <2>1 DEF Publish, ExecutorInv, PlansOnly, Types, ThreadType, ConnectionType, Holding
  <2> QED BY <2>1, <2>2, <2>3, <2>4, HolderKeeps DEF Holding
<1>5. CASE \E from \in {"publish", "run", "fetch", "plan_on", "plan"} :
             \E error \in Classes \cup {Unclassified} : Fails(k, from, error)
  <2>1. Types'
    <3>1. PICK at \in {"plan_off", "release"}, error \in Classes \cup {Unclassified} :
              thread' = [thread EXCEPT ![k].at = at, ![k].error = error]
      BY <1>5 DEF Fails
    <3>2. [thread[k] EXCEPT !.at = at, !.error = error] \in ThreadType
      BY <1>0 DEF ThreadType, Places, Holding
    <3> QED BY <1>0, <1>5, <3>1, <3>2 DEF Fails, Types, ThreadType
  <2>2. Quiet(k)
    BY <1>0, <1>5 DEF Fails, Types, ThreadType, Quiet, Holding
  <2> QED BY <2>1, <2>2, QuietKeeps
<1>6. CASE \E answer \in Answers : Run(k, answer)
  <2>1. Types'
    <3>1. PICK at \in {"fetch", "release"}, result \in Seq(Nat), ranAs \in SUBSET Contexts :
              thread' = [thread EXCEPT ![k].at = at, ![k].answer = result, ![k].ranAs = ranAs]
      <4>1. PICK answer \in Answers : Run(k, answer)
        BY <1>6
      <4>2. (IF thread[k].op = "ping" THEN "release" ELSE "fetch") \in {"fetch", "release"}
        OBVIOUS
      <4>3. (IF conns[thread[k].conn].plan THEN <<1>>
             ELSE IF thread[k].op = "dry_run" THEN <<>> ELSE answer) \in Seq(Nat)
        OBVIOUS
      <4>4. (IF conns[thread[k].conn].plan THEN {} ELSE {conns[thread[k].conn].context}) \in SUBSET Contexts
        <5>1. thread[k].conn \in Connections
          BY <4>1 DEF Run, ExecutorInv, Owned, Holding
        <5> QED BY <1>0, <5>1 DEF Types, ConnectionType
      <4> QED BY <4>1, <4>2, <4>3, <4>4 DEF Run
    <3>2. [thread[k] EXCEPT !.at = at, !.answer = result, !.ranAs = ranAs] \in ThreadType
      BY <1>0 DEF ThreadType, Places, Holding
    <3> QED BY <1>0, <1>6, <3>1, <3>2, ZenonT(40) DEF Run, Types, ThreadType
  <2>2. Quiet(k)
    BY <1>0, <1>6 DEF Run, Types, ThreadType, Quiet, Holding
  <2> QED BY <2>1, <2>2, QuietKeeps
<1>7. CASE Fetch(k)
  <2>1. Types'
    <3>1. PICK at \in {"fetch", "release"}, kept \in Nat, bytes \in Nat,
               truncated \in BOOLEAN, limited \in BOOLEAN :
              thread' = [thread EXCEPT ![k].at = at, ![k].kept = kept, ![k].bytes = bytes,
                                       ![k].truncated = truncated, ![k].limited = limited]
      <4> DEFINE more == thread[k].kept < Len(thread[k].answer)
                 full == more /\ thread[k].kept >= RowLimitOf(k)
                 size == IF more THEN thread[k].answer[thread[k].kept + 1] ELSE 0
                 fat  == more /\ ~ full /\ thread[k].bytes + size > MaxBytes
      <4>1. thread[k].kept \in Nat /\ thread[k].bytes \in Nat /\ thread[k].answer \in Seq(Nat)
        BY <1>0 DEF ThreadType
      <4>2. size \in Nat
        <5>1. CASE more
          <6>1. thread[k].kept + 1 \in 1 .. Len(thread[k].answer)
            BY <4>1, <5>1
          <6>2. thread[k].answer[thread[k].kept + 1] \in Nat
            BY <4>1, <6>1, SMTT(30)
          <6> QED BY <5>1, <6>2
        <5>2. CASE ~ more
          BY <5>2
        <5> QED BY <5>1, <5>2
      <4>3. (IF more /\ ~ full /\ ~ fat THEN "fetch" ELSE "release") \in {"fetch", "release"}
        OBVIOUS
      <4>4. (IF more /\ ~ full /\ ~ fat THEN thread[k].kept + 1 ELSE thread[k].kept) \in Nat
        BY <4>1
      <4>5. (IF full THEN thread[k].bytes ELSE thread[k].bytes + size) \in Nat
        BY <4>1, <4>2, SMTT(30)
      <4>6. (full \/ fat) \in BOOLEAN /\ fat \in BOOLEAN
        OBVIOUS
      <4> HIDE DEF full, fat
      <4> QED BY <1>7, <4>3, <4>4, <4>5, <4>6 DEF Fetch, full, fat
    <3>2. [thread[k] EXCEPT !.at = at, !.kept = kept, !.bytes = bytes,
                            !.truncated = truncated, !.limited = limited] \in ThreadType
      BY <1>0 DEF ThreadType, Places, Holding
    <3>3. UNCHANGED conns
      BY <1>7 DEF Fetch
    <3> QED BY <1>0, <3>1, <3>2, <3>3, SMTT(30) DEF Types, ThreadType
  <2>2. Quiet(k)
    BY <1>0, <1>7, ZenonT(40) DEF Fetch, Types, ThreadType, Quiet, Holding
  <2> QED BY <2>1, <2>2, QuietKeeps
<1>8. CASE PlanOn(k)
  <2> DEFINE c == thread[k].conn
  <2>1. thread[k].at \in Holding /\ c \in Connections /\ conns[c].user = k /\ conns[c] \in ConnectionType
    BY <1>8 DEF PlanOn, ExecutorInv, Owned, Holding, Types
  <2>2. Types'
    BY <1>0, <1>8, <2>1 DEF PlanOn, Types, ThreadType, ConnectionType, Places, Holding, Contexts
  <2>3. /\ \A j \in Callers \ {k} : thread'[j] = thread[j]
        /\ \A d \in Connections \ {c} : conns'[d] = conns[d]
        /\ thread'[k].op = thread[k].op /\ thread'[k].conn = c
        /\ thread'[k].previous = thread[k].previous /\ thread'[k].ranAs = thread[k].ranAs
        /\ conns'[c].user = k
    BY <1>0, <1>8, <2>1 DEF PlanOn, Types, ThreadType, ConnectionType
  <2>4. thread'[k].at = "plan"
    BY <1>0, <1>8, <2>1 DEF PlanOn, ExecutorInv, PlansOnly, Types, ThreadType, ConnectionType, Holding
  <2> QED BY <2>1, <2>2, <2>3, <2>4, HolderKeeps DEF Holding
<1>9. CASE ReadPlan(k)
  <2>1. Types'
    BY <1>0, <1>9 DEF ReadPlan, Types, ThreadType, Places, Holding
  <2>2. Quiet(k)
    BY <1>0, <1>9 DEF ReadPlan, Types, ThreadType, Quiet, Holding
  <2> QED BY <2>1, <2>2, QuietKeeps
<1>10. CASE PlanOff(k)
  <2> DEFINE c == thread[k].conn
  <2>1. thread[k].at \in Holding /\ c \in Connections /\ conns[c].user = k /\ conns[c] \in ConnectionType
    BY <1>10 DEF PlanOff, ExecutorInv, Owned, Holding, Types
  <2>2. Types'
    BY <1>0, <1>10, <2>1, ZenonT(40) DEF PlanOff, Types, ThreadType, ConnectionType, Places, Holding, Contexts
  <2>3. /\ \A j \in Callers \ {k} : thread'[j] = thread[j]
        /\ \A d \in Connections \ {c} : conns'[d] = conns[d]
        /\ thread'[k].op = thread[k].op /\ thread'[k].conn = c
        /\ thread'[k].previous = thread[k].previous /\ thread'[k].ranAs = thread[k].ranAs
        /\ conns'[c].user = k
    BY <1>0, <1>10, <2>1 DEF PlanOff, Types, ThreadType, ConnectionType
  <2>4. thread'[k].at = "release" /\ ~ conns'[c].plan
    BY <1>0, <1>10, <2>1 DEF PlanOff, ExecutorInv, PlansOnly, Types, ThreadType, ConnectionType, Holding
  <2> QED BY <2>1, <2>2, <2>3, <2>4, HolderKeeps DEF Holding
<1>11. CASE PlanOffFails(k)
  <2> DEFINE c == thread[k].conn
  <2>1. thread[k].at \in Holding /\ c \in Connections /\ conns[c].user = k /\ conns[c] \in ConnectionType
    BY <1>11 DEF PlanOffFails, ExecutorInv, Owned, Holding, Types
  <2>2. Types'
    BY <1>0, <1>11, <2>1, ZenonT(40) DEF PlanOffFails, Types, ThreadType, ConnectionType, Places, Holding, Contexts
  <2>3. /\ \A j \in Callers \ {k} : thread'[j] = thread[j]
        /\ \A d \in Connections \ {c} : conns'[d] = conns[d]
        /\ thread'[k].op = thread[k].op /\ thread'[k].conn = c
        /\ thread'[k].previous = thread[k].previous /\ thread'[k].ranAs = thread[k].ranAs
        /\ conns'[c].user = k
    BY <1>0, <1>11, <2>1 DEF PlanOffFails, Types, ThreadType, ConnectionType
  <2>4. thread'[k].at = "release" /\ conns'[c].stuck
    BY <1>0, <1>11, <2>1 DEF PlanOffFails, ExecutorInv, PlansOnly, Types, ThreadType, ConnectionType, Holding
  <2> QED BY <2>1, <2>2, <2>3, <2>4, HolderKeeps DEF Holding
<1>12. CASE Retry(k)
  <2>1. Types'
    <3>1. PICK attempt \in Nat : attempt = thread[k].attempt + 1
      BY <1>0 DEF ThreadType
    <3>2. [Unstarted EXCEPT !.op = "execute", !.at = "connect", !.attempt = attempt] \in ThreadType
      BY UnstartedType DEF ThreadType, Places, Operations
    <3> QED BY <1>0, <1>12, <3>1, <3>2 DEF Retry, Types
  <2>2. Quiet(k)
    BY <1>0, <1>12 DEF Retry, Types, ThreadType, Quiet, Holding, Unstarted
  <2> QED BY <2>1, <2>2, QuietKeeps
<1>13. CASE End(k)
  <2>1. Types'
    <3>1. PICK error \in Classes \cup {Unclassified, "none"} :
              error = IF thread[k].op \in {"estimate_cost", "ping"} THEN "none" ELSE thread[k].error
      BY <1>0 DEF ThreadType
    <3>2. [Unstarted EXCEPT !.at = "returned", !.error = error] \in ThreadType
      BY UnstartedType DEF ThreadType, Places
    <3> QED BY <1>0, <1>13, <3>1, <3>2, UnstartedType DEF End, Types
  <2>2. Quiet(k)
    BY <1>0, <1>13 DEF End, Types, ThreadType, Quiet, Holding, Unstarted
  <2> QED BY <2>1, <2>2, QuietKeeps
<1> QED
  BY <1>1, <1>2, <1>3, <1>4, <1>5, <1>6, <1>7, <1>8, <1>9, <1>10, <1>11, <1>12, <1>13
  DEF ThreadStep, Classes

\* Every step of the executor keeps its invariant.
LEMMA ExecutorKeeps ==
    ASSUME ExecutorInv, [ExecutorNext]_executorVars
    PROVE  ExecutorInv'
<1> USE ExecutorAssumption
<1>1. CASE UNCHANGED executorVars
  BY <1>1 DEF executorVars, ExecutorInv, Types, Owned, Restorable, PlansOnly, Published, Scoped,
     IdleIsClean, RunsAsItsTenant
<1>2. ASSUME NEW k \in Callers, NEW op \in Operations, Start(k, op) PROVE ExecutorInv'
  <2>0. thread[k] \in ThreadType /\ Types
    BY DEF ExecutorInv, Types
  <2>1. Types'
    <3>1. [Unstarted EXCEPT !.op = op, !.at = "connect", !.attempt = 1] \in ThreadType
      BY UnstartedType DEF ThreadType, Places
    <3> QED BY <1>2, <2>0, <3>1 DEF Start, Types
  <2>2. Quiet(k)
    BY <1>2, <2>0 DEF Start, Types, ThreadType, Quiet, Holding, Unstarted
  <2> QED BY <2>1, <2>2, QuietKeeps
<1>3. ASSUME NEW k \in Callers, Collect(k) PROVE ExecutorInv'
  <2>1. Types'
    BY <1>3, UnstartedType DEF Collect, ExecutorInv, Types
  <2>2. Quiet(k)
    BY <1>3 DEF Collect, ExecutorInv, Types, ThreadType, Quiet, Holding, Unstarted
  <2> QED BY <2>1, <2>2, QuietKeeps
<1>4. ASSUME NEW k \in Callers, Leave(k) PROVE ExecutorInv'
  <2>1. Types'
    <3>1. [thread[k] EXCEPT !.gone = TRUE] \in ThreadType
      BY ZenonT(40) DEF ExecutorInv, Types, ThreadType
    <3>2. thread' = [thread EXCEPT ![k] = [thread[k] EXCEPT !.gone = TRUE]] /\ UNCHANGED conns
      BY <1>4 DEF Leave, ExecutorInv, Types, ThreadType
    <3> QED BY <3>1, <3>2 DEF ExecutorInv, Types
  <2>2. Quiet(k)
    BY <1>4 DEF Leave, ExecutorInv, Types, ThreadType, Quiet, Holding
  <2> QED BY <2>1, <2>2, QuietKeeps
<1> QED BY <1>1, <1>2, <1>3, <1>4, ThreadKeeps DEF ExecutorNext

\* No operation of the service reaches the executor's threads and connections but by the executor's own steps.
LEMMA StepsOfExecutor == [Next]_vars => [ExecutorNext]_executorVars
<1> SUFFICES ASSUME [Next]_vars PROVE [ExecutorNext]_executorVars
  OBVIOUS
<1>1. ASSUME NEW k \in Callers, Statement(k) PROVE [ExecutorNext]_executorVars
  BY <1>1 DEF Statement, ExecutorNext, Operations
<1>2. ASSUME NEW k \in Callers, After(k) PROVE [ExecutorNext]_executorVars
  BY <1>2 DEF After, ExecutorNext
<1>3. ASSUME NEW k \in Callers, Cancel(k) PROVE [ExecutorNext]_executorVars
  BY <1>3 DEF Cancel, ExecutorNext
<1>4. ASSUME NEW k \in Callers, Work(k) PROVE [ExecutorNext]_executorVars
  BY <1>4 DEF Work, ExecutorNext
<1> QED
  BY <1>1, <1>2, <1>3, <1>4 DEF Next, Step, Tick, Receive, Authenticate, Admit, Refuse, Schema, Question,
     Written, Respond, vars

\* The service runs statements only as SQLExecutor does: it implements the executor's specification.
THEOREM ServiceImplementsExecutor == Spec => ExecutorSpec
<1>1. Init => ExecutorInit
  BY DEF Init
<1> QED BY <1>1, StepsOfExecutor, PTL DEF Spec, ExecutorSpec

\* The executor's invariant holds in every state of the service.
LEMMA ExecutorInvariant == Spec => []ExecutorInv
<1>1. ExecutorInv /\ [ExecutorNext]_executorVars => ExecutorInv'
  BY ExecutorKeeps
<1> QED BY <1>1, ExecutorInitially, ServiceImplementsExecutor, PTL DEF ExecutorSpec

\* A statement run for a tenant reads in a session of that tenant (README.md:473).
THEOREM RunsAsItsTenantHolds == Spec => []RunsAsItsTenant
<1>1. ExecutorInv => RunsAsItsTenant
  BY DEF ExecutorInv
<1> QED BY <1>1, ExecutorInvariant, PTL

\* A connection in the pool is as a new one, but for its tenant and a plan mode it is stuck in.
THEOREM IdleIsCleanHolds == Spec => []IdleIsClean
<1>1. ExecutorInv => IdleIsClean
  BY DEF ExecutorInv
<1> QED BY <1>1, ExecutorInvariant, PTL

-----------------------------------------------------------------------------
\* The sums of a result's row sizes are what their recursive definition says, for every result.
LEMMA SizesAre ==
    ASSUME NEW rows \in Seq(Nat)
    PROVE  /\ Sizes(rows) \in [0 .. Len(rows) -> Nat]
           /\ Sizes(rows)[0] = 0
           /\ \A n \in 0 .. Len(rows) - 1 : Sizes(rows)[n + 1] = Sizes(rows)[n] + rows[n + 1]
<1> DEFINE N == Len(rows)
           Adds(g, m) == g = [n \in 0 .. m |-> IF n = 0 THEN 0 ELSE g[n - 1] + rows[n]]
           S == {m \in 0 .. N : \E g \in [0 .. m -> Nat] : Adds(g, m)}
<1>0. N \in Nat /\ \A n \in 1 .. N : rows[n] \in Nat
  OBVIOUS
<1>1. 0 \in S
  <2> DEFINE g == [n \in 0 .. 0 |-> 0]
  <2>1. g \in [0 .. 0 -> Nat]
    OBVIOUS
  <2>2. g = [n \in 0 .. 0 |-> IF n = 0 THEN 0 ELSE g[n - 1] + rows[n]]
    OBVIOUS
  <2>3. 0 \in 0 .. N
    BY <1>0
  <2> HIDE DEF g
  <2> QED BY <2>1, <2>2, <2>3
<1>2. ASSUME NEW m \in 0 .. N - 1, m \in S PROVE m + 1 \in S
  <2>0. m \in Nat /\ m + 1 \in 1 .. N /\ m + 1 \in 0 .. N
    BY <1>0
  <2>1. PICK g \in [0 .. m -> Nat] : Adds(g, m)
    BY <1>2
  <2>6. m \in DOMAIN g /\ g[m] \in Nat
    BY <2>0
  <2> DEFINE h == [n \in 0 .. m + 1 |-> IF n = m + 1 THEN g[m] + rows[m + 1] ELSE g[n]]
  <2>2. g[m] + rows[m + 1] \in Nat
    <3>1. rows[m + 1] \in Nat
      BY <1>0, <2>0
    <3> QED BY <2>6, <3>1
  <2>3. h \in [0 .. m + 1 -> Nat]
    <3>1. \A n \in 0 .. m + 1 : n # m + 1 => n \in 0 .. m
      BY <2>0
    <3> QED BY <2>2, <3>1
  <2>4. \A n \in 0 .. m + 1 : h[n] = IF n = 0 THEN 0 ELSE h[n - 1] + rows[n]
    <3>1. ASSUME NEW n \in 0 .. m PROVE h[n] = IF n = 0 THEN 0 ELSE h[n - 1] + rows[n]
      <4>1. n # m + 1 /\ n \in 0 .. m + 1 /\ n - 1 # m + 1 /\ (n # 0 => n - 1 \in 0 .. m + 1)
        BY <2>0
      <4>2. g[n] = IF n = 0 THEN 0 ELSE g[n - 1] + rows[n]
        BY <2>1
      <4> QED BY <4>1, <4>2
    <3>2. h[m + 1] = h[m] + rows[m + 1] /\ m + 1 # 0
      BY <2>0
    <3>3. m + 1 - 1 = m
      BY <2>0
    <3>4. \A n \in 0 .. m + 1 : n = m + 1 \/ n \in 0 .. m
      BY <2>0
    <3> HIDE DEF h
    <3> QED BY <3>1, <3>2, <3>3, <3>4
  <2>5. Adds(h, m + 1)
    BY <2>3, <2>4
  <2> HIDE DEF h
  <2> QED BY <2>0, <2>3, <2>5
<1>3. N \in S
  <2> HIDE DEF S
  <2>1. 0 .. N \subseteq S
    BY <1>0, <1>1, <1>2, IntervalInduction
  <2> QED BY <1>0, <2>1
<1>4. PICK g \in [0 .. N -> Nat] : Adds(g, N)
  BY <1>3
<1>5. Sizes(rows) = CHOOSE size : Adds(size, N)
  BY DEF Sizes
<1>6. Adds(Sizes(rows), N)
  <2> HIDE DEF Adds
  <2> QED BY <1>4, <1>5
<1>7. Sizes(rows)[0] = 0 /\ \A n \in 0 .. N - 1 : Sizes(rows)[n + 1] = Sizes(rows)[n] + rows[n + 1]
  BY <1>0, <1>6
<1>8. 0 .. N \subseteq {n \in 0 .. N : Sizes(rows)[n] \in Nat}
  <2> DEFINE Sums == {n \in 0 .. N : Sizes(rows)[n] \in Nat}
  <2>1. 0 \in Sums
    BY <1>0, <1>7
  <2>2. ASSUME NEW n \in 0 .. N - 1, n \in Sums PROVE n + 1 \in Sums
    BY <1>0, <1>7, <2>2
  <2>3. 0 .. N \subseteq Sums
    <3> HIDE DEF Sums
    <3> QED BY <1>0, <2>1, <2>2, IntervalInduction
  <2> QED BY <2>3
<1> QED BY <1>6, <1>7, <1>8

\* While it fetches, a thread has kept a prefix of the result within both budgets, and bytes is its size.
Within(k) ==
    LET t == thread[k] IN
    /\ t.error = "none"
    /\ t.kept <= Len(t.answer) /\ t.kept <= RowLimitOf(k)
    /\ t.bytes = Sizes(t.answer)[t.kept] /\ t.bytes <= MaxBytes

Cut(k) ==
    LET t       == thread[k]
        fits(n) == n <= RowLimitOf(k) /\ Sizes(t.answer)[n] <= MaxBytes IN
    /\ fits(t.kept) /\ (t.kept < Len(t.answer) => ~ fits(t.kept + 1))
    /\ t.truncated = (t.kept < Len(t.answer))
    /\ t.limited = (t.truncated /\ t.kept < RowLimitOf(k))

Fetches(k) ==
    /\ thread[k].at \in {"connect", "publish", "run"} =>
          thread[k].kept = 0 /\ thread[k].bytes = 0 /\ thread[k].error = "none"
    /\ thread[k].at \in {"plan_on", "plan", "plan_off"} => thread[k].op = "estimate_cost"
    /\ thread[k].at = "fetch" => Within(k)
    /\ thread[k].at = "release" /\ thread[k].error = "none" /\ thread[k].op \in {"execute", "dry_run"} => Cut(k)

FetchInv == \A k \in Callers : Fetches(k)

\* Reading one row keeps what is kept a prefix within the budgets, and stops exactly at its end.
LEMMA FetchCuts ==
    ASSUME NEW k \in Callers, Types, Fetches(k), Fetch(k)
    PROVE  Fetches(k)'
<1> USE ExecutorAssumption
<1> DEFINE t == thread[k]
           u == thread'[k]
           sizes == Sizes(t.answer)
           limit == RowLimitOf(k)
           more  == t.kept < Len(t.answer)
           full  == more /\ t.kept >= limit
           size  == IF more THEN t.answer[t.kept + 1] ELSE 0
           fat   == more /\ ~ full /\ t.bytes + size > MaxBytes
<1>1. /\ t \in ThreadType /\ t.at = "fetch" /\ t.error = "none"
      /\ t.kept \in Nat /\ t.bytes \in Nat /\ t.answer \in Seq(Nat) /\ Len(t.answer) \in Nat
      /\ limit \in Nat
  BY DEF Types, Fetch, Fetches, Within, ThreadType, RowLimitOf
<1>2. /\ t.kept <= Len(t.answer) /\ t.kept <= limit /\ t.bytes = sizes[t.kept] /\ t.bytes <= MaxBytes
  BY <1>1 DEF Fetches, Within
<1>3. /\ u.at = IF more /\ ~ full /\ ~ fat THEN "fetch" ELSE "release"
      /\ u.kept = IF more /\ ~ full /\ ~ fat THEN t.kept + 1 ELSE t.kept
      /\ u.bytes = IF full THEN t.bytes ELSE t.bytes + size
      /\ u.truncated = (full \/ fat) /\ u.limited = fat
      /\ u.error = t.error /\ u.answer = t.answer /\ u.op = t.op
  BY <1>1, ZenonT(60) DEF Types, Fetch, ThreadType
<1>4. more => /\ t.answer[t.kept + 1] \in Nat /\ sizes[t.kept + 1] = t.bytes + t.answer[t.kept + 1]
              /\ t.kept + 1 <= Len(t.answer)
  <2> SUFFICES ASSUME more PROVE /\ t.answer[t.kept + 1] \in Nat
                                 /\ sizes[t.kept + 1] = t.bytes + t.answer[t.kept + 1]
                                 /\ t.kept + 1 <= Len(t.answer)
    OBVIOUS
  <2>1. t.kept \in 0 .. Len(t.answer) - 1 /\ t.kept + 1 \in 1 .. Len(t.answer)
    BY <1>1
  <2>2. sizes[t.kept + 1] = sizes[t.kept] + t.answer[t.kept + 1]
    BY <1>1, <2>1, SizesAre
  <2>3. t.answer[t.kept + 1] \in Nat
    <3>1. \A rows \in Seq(Nat) : \A n \in 1 .. Len(rows) : rows[n] \in Nat
      OBVIOUS
    <3> HIDE DEF t
    <3> QED BY <1>1, <2>1, <3>1
  <2> QED BY <1>1, <1>2, <2>1, <2>2, <2>3
<1>5. RowLimitOf(k)' = limit
  BY <1>3 DEF RowLimitOf
<1>6. Sizes(u.answer) = sizes
  BY <1>3
<1>7. CASE more /\ ~ full /\ ~ fat
  <2>1. u.at = "fetch" /\ u.kept = t.kept + 1 /\ u.bytes = t.bytes + t.answer[t.kept + 1]
    BY <1>3, <1>7
  <2>2. u.kept <= Len(u.answer) /\ u.kept <= limit /\ u.bytes = sizes[u.kept] /\ u.bytes <= MaxBytes
    <3>1. t.kept < limit /\ ~ (t.bytes + t.answer[t.kept + 1] > MaxBytes)
      BY <1>1, <1>7
    <3> HIDE DEF u, sizes, limit
    <3> QED BY <1>1, <1>3, <1>4, <1>7, <2>1, <3>1
  <2>3. Within(k)'
    BY <1>1, <1>3, <1>5, <1>6, <2>2 DEF Within
  <2> QED BY <2>1, <2>3 DEF Fetches
<1>8. CASE ~ (more /\ ~ full /\ ~ fat)
  <2>1. u.at = "release" /\ u.kept = t.kept
    BY <1>3, <1>8
  <2>2. /\ t.kept <= limit /\ sizes[t.kept] <= MaxBytes
        /\ more => ~ (t.kept + 1 <= limit /\ sizes[t.kept + 1] <= MaxBytes)
        /\ u.truncated = more
        /\ u.limited = (u.truncated /\ t.kept < limit)
    <3>1. CASE ~ more
      <4>1. ~ full /\ ~ fat
        BY <3>1
      <4>2. u.truncated = FALSE /\ u.limited = FALSE
        BY <1>3, <4>1
      <4>3. more = FALSE
        BY <3>1
      <4> HIDE DEF u, sizes, limit, more, full, fat
      <4> QED BY <1>2, <4>2, <4>3
    <3>2. CASE full
      <4>1. more /\ t.kept >= limit /\ ~ fat
        BY <3>2
      <4>2. u.truncated = TRUE /\ u.limited = FALSE
        BY <1>3, <3>2, <4>1
      <4>3. ~ (t.kept + 1 <= limit) /\ ~ (t.kept < limit)
        BY <1>1, <4>1
      <4> HIDE DEF u, sizes, limit, more, full, fat
      <4> QED BY <1>2, <4>1, <4>2, <4>3
    <3>3. CASE fat
      <4>1. more /\ t.kept < limit /\ t.bytes + t.answer[t.kept + 1] > MaxBytes
        BY <1>1, <3>3
      <4>2. u.truncated = TRUE /\ u.limited = TRUE
        BY <1>3, <3>3
      <4>3. ~ (sizes[t.kept + 1] <= MaxBytes)
        <5>1. sizes[t.kept + 1] = t.bytes + t.answer[t.kept + 1] /\ t.answer[t.kept + 1] \in Nat
          BY <1>4, <4>1
        <5>2. t.bytes \in Nat
          BY <1>1
        <5> HIDE DEF t, sizes
        <5> QED BY <4>1, <5>1, <5>2
      <4> HIDE DEF u, sizes, limit, more, full, fat
      <4> QED BY <1>2, <4>1, <4>2, <4>3
    <3> QED BY <1>8, <3>1, <3>2, <3>3
  <2>3. Cut(k)'
    <3> HIDE DEF u, sizes, limit
    <3>1. (u.kept < Len(u.answer)) = more
      BY <1>3, <2>1
    <3>2. u.kept < Len(u.answer) => ~ (u.kept + 1 <= limit /\ sizes[u.kept + 1] <= MaxBytes)
      BY <2>1, <2>2, <3>1
    <3>3. /\ u.kept <= limit /\ sizes[u.kept] <= MaxBytes
          /\ u.truncated = (u.kept < Len(u.answer))
          /\ u.limited = (u.truncated /\ u.kept < limit)
      <4> HIDE DEF more
      <4> QED BY <2>1, <2>2, <3>1
    <3>4. /\ u = thread'[k] /\ Sizes(u.answer) = sizes /\ RowLimitOf(k)' = limit
      BY <1>5, <1>6 DEF u
    <3> QED BY <3>2, <3>3, <3>4, Zenon DEF Cut
  <2> QED BY <2>1, <2>3 DEF Fetches
<1> QED BY <1>7, <1>8

\* A step of one thread leaves what the others have fetched alone.
LEMMA FetchFrame ==
    ASSUME NEW k \in Callers, FetchInv, \A j \in Callers \ {k} : thread'[j] = thread[j], Fetches(k)'
    PROVE  FetchInv'
<1> SUFFICES ASSUME NEW j \in Callers, j # k PROVE Fetches(j)'
  BY DEF FetchInv
<1>1. thread'[j] = thread[j] /\ Fetches(j)
  BY DEF FetchInv
<1>2. Within(j) => Within(j)'
  BY <1>1 DEF Within, RowLimitOf
<1>3. Cut(j) => Cut(j)'
  BY <1>1, Zenon DEF Cut, RowLimitOf
<1> QED BY <1>1, <1>2, <1>3 DEF Fetches

\* Every step of the executor keeps what a thread has fetched a prefix, cut where the budgets cut it.
LEMMA FetchKeeps ==
    ASSUME Types, FetchInv, [ExecutorNext]_executorVars
    PROVE  FetchInv'
<1> USE ExecutorAssumption
<1>1. CASE UNCHANGED executorVars
  <2>1. thread' = thread
    BY <1>1 DEF executorVars
  <2> QED BY <2>1, Zenon DEF FetchInv, Fetches, Within, Cut, RowLimitOf
<1>2. ASSUME NEW k \in Callers, NEW op \in Operations, Start(k, op) PROVE FetchInv'
  <2>1. thread'[k] = [Unstarted EXCEPT !.op = op, !.at = "connect", !.attempt = 1]
    BY <1>2 DEF Start, Types
  <2>2. Fetches(k)'
    BY <2>1 DEF Fetches, Unstarted
  <2> QED BY <1>2, <2>2, FetchFrame DEF Start, Types
<1>3. ASSUME NEW k \in Callers, Collect(k) PROVE FetchInv'
  <2>1. Fetches(k)'
    BY <1>3 DEF Collect, Types, Fetches, Unstarted
  <2> QED BY <1>3, <2>1, FetchFrame DEF Collect, Types
<1>4. ASSUME NEW k \in Callers, Leave(k) PROVE FetchInv'
  <2>1. /\ \A j \in Callers \ {k} : thread'[j] = thread[j]
        /\ thread'[k].at = thread[k].at /\ thread'[k].op = thread[k].op /\ thread'[k].error = thread[k].error
        /\ thread'[k].kept = thread[k].kept /\ thread'[k].bytes = thread[k].bytes
        /\ thread'[k].answer = thread[k].answer /\ thread'[k].truncated = thread[k].truncated
        /\ thread'[k].limited = thread[k].limited
    BY <1>4, ZenonT(60) DEF Leave, Types, ThreadType
  <2>2. Fetches(k)
    BY DEF FetchInv
  <2>3. Within(k) => Within(k)'
    BY <2>1 DEF Within, RowLimitOf
  <2>4. Cut(k) => Cut(k)'
    BY <2>1, Zenon DEF Cut, RowLimitOf
  <2>5. Fetches(k)'
    BY <2>1, <2>2, <2>3, <2>4 DEF Fetches
  <2> QED BY <2>1, <2>5, FetchFrame
<1>5. ASSUME NEW k \in Callers, ThreadStep(k) PROVE FetchInv'
  <2>0. thread[k] \in ThreadType /\ thread \in [Callers -> ThreadType] /\ Fetches(k)
    BY DEF Types, FetchInv
  <2>1. ASSUME NEW c \in Connections, NEW fresh \in BOOLEAN, Connect(k, c, fresh) PROVE FetchInv'
    <3>1. /\ \A j \in Callers \ {k} : thread'[j] = thread[j]
          /\ thread[k].at = "connect" /\ thread'[k].op = thread[k].op /\ thread'[k].kept = thread[k].kept
          /\ thread'[k].bytes = thread[k].bytes /\ thread'[k].error = thread[k].error
          /\ thread'[k].at = IF thread[k].op = "estimate_cost" THEN "plan_on"
                             ELSE IF thread[k].op # "ping" /\ Publishes /\ TenantOf[k] # NoTenant THEN "publish"
                             ELSE "run"
      BY <2>0, <2>1, ZenonT(60) DEF Connect, ThreadType
    <3>2. Fetches(k)'
      BY <2>0, <3>1 DEF Fetches
    <3> QED BY <3>1, <3>2, FetchFrame
  <2>2. ASSUME ConnectFails(k) PROVE FetchInv'
    <3>1. (\A j \in Callers \ {k} : thread'[j] = thread[j]) /\ thread'[k].at = "ended"
      BY <2>0, <2>2, ZenonT(60) DEF ConnectFails, ThreadType
    <3> QED BY <3>1, FetchFrame DEF Fetches
  <2>3. ASSUME Publish(k) PROVE FetchInv'
    <3>1. /\ \A j \in Callers \ {k} : thread'[j] = thread[j]
          /\ thread[k].at = "publish" /\ thread'[k].at = "run" /\ thread'[k].kept = thread[k].kept
          /\ thread'[k].bytes = thread[k].bytes /\ thread'[k].error = thread[k].error
      BY <2>0, <2>3, ZenonT(60) DEF Publish, ThreadType
    <3>2. Fetches(k)'
      BY <2>0, <3>1 DEF Fetches
    <3> QED BY <3>1, <3>2, FetchFrame
  <2>4. ASSUME NEW from \in {"publish", "run", "fetch", "plan_on", "plan"},
               NEW error \in Classes \cup {Unclassified}, Fails(k, from, error)
        PROVE  FetchInv'
    <3>1. /\ \A j \in Callers \ {k} : thread'[j] = thread[j]
          /\ thread[k].at = from /\ thread'[k].op = thread[k].op /\ thread'[k].error = error
          /\ thread'[k].at = IF from = "plan" THEN "plan_off" ELSE "release"
      BY <2>0, <2>4, ZenonT(60) DEF Fails, ThreadType
    <3>2. error # "none"
      BY DEF Classes, Unclassified
    <3>3. Fetches(k)'
      BY <2>0, <3>1, <3>2 DEF Fetches
    <3> QED BY <3>1, <3>3, FetchFrame
  <2>5. ASSUME NEW answer \in Answers, Run(k, answer) PROVE FetchInv'
    <3>1. PICK rows \in Seq(Nat), spaces \in SUBSET Contexts :
              /\ thread'[k].at = IF thread[k].op = "ping" THEN "release" ELSE "fetch"
              /\ thread'[k].answer = rows /\ thread[k].at = "run"
              /\ thread'[k].op = thread[k].op /\ thread'[k].kept = thread[k].kept
              /\ thread'[k].bytes = thread[k].bytes /\ thread'[k].error = thread[k].error
              /\ \A j \in Callers \ {k} : thread'[j] = thread[j]
      <4>1. /\ thread'[k].at = IF thread[k].op = "ping" THEN "release" ELSE "fetch"
            /\ thread'[k].answer = IF conns[thread[k].conn].plan THEN <<1>>
                                   ELSE IF thread[k].op = "dry_run" THEN <<>> ELSE answer
            /\ thread[k].at = "run"
            /\ thread'[k].op = thread[k].op /\ thread'[k].kept = thread[k].kept
            /\ thread'[k].bytes = thread[k].bytes /\ thread'[k].error = thread[k].error
            /\ \A j \in Callers \ {k} : thread'[j] = thread[j]
        BY <2>0, <2>5, ZenonT(60) DEF Run, ThreadType
      <4>2. <<1>> \in Seq(Nat) /\ <<>> \in Seq(Nat) /\ answer \in Seq(Nat)
        OBVIOUS
      <4> QED BY <4>1, <4>2
    <3>2. thread'[k].op # "ping" => Within(k)'
      <4>1. Sizes(rows)[0] = 0 /\ Len(rows) \in Nat
        BY SizesAre
      <4>2. thread'[k].kept = 0 /\ thread'[k].bytes = 0 /\ thread'[k].error = "none"
        BY <2>0, <3>1 DEF Fetches
      <4>3. RowLimitOf(k)' \in Nat
        BY DEF RowLimitOf
      <4> QED BY <3>1, <4>1, <4>2, <4>3 DEF Within
    <3>3. Fetches(k)'
      BY <3>1, <3>2 DEF Fetches
    <3> QED BY <3>1, <3>3, FetchFrame
  <2>6. ASSUME Fetch(k) PROVE FetchInv'
    <3>1. \A j \in Callers \ {k} : thread'[j] = thread[j]
      BY <2>0, <2>6, ZenonT(60) DEF Fetch
    <3>2. Fetches(k)'
      BY <2>0, <2>6, FetchCuts
    <3> QED BY <3>1, <3>2, FetchFrame
  <2>7. ASSUME PlanOn(k) \/ ReadPlan(k) \/ PlanOff(k) \/ PlanOffFails(k) PROVE FetchInv'
    <3>1. /\ \A j \in Callers \ {k} : thread'[j] = thread[j]
          /\ thread[k].at \in {"plan_on", "plan", "plan_off"} /\ thread'[k].op = thread[k].op
          /\ thread'[k].at \in {"plan", "plan_off", "release"}
      <4>1. CASE PlanOn(k)
        BY <2>0, <4>1, ZenonT(60) DEF PlanOn, ThreadType
      <4>2. CASE ReadPlan(k)
        BY <2>0, <4>2, ZenonT(60) DEF ReadPlan, ThreadType
      <4>3. CASE PlanOff(k)
        BY <2>0, <4>3, ZenonT(60) DEF PlanOff, ThreadType
      <4>4. CASE PlanOffFails(k)
        BY <2>0, <4>4, ZenonT(60) DEF PlanOffFails, ThreadType
      <4> QED BY <2>7, <4>1, <4>2, <4>3, <4>4
    <3>2. Fetches(k)'
      BY <2>0, <3>1 DEF Fetches
    <3> QED BY <3>1, <3>2, FetchFrame
  <2>8. ASSUME NEW broken \in BOOLEAN, Release(k, broken) PROVE FetchInv'
    <3>1. (\A j \in Callers \ {k} : thread'[j] = thread[j]) /\ thread'[k].at = "ended"
      BY <2>0, <2>8 DEF Release, Unstarted
    <3> QED BY <3>1, FetchFrame DEF Fetches
  <2>9. ASSUME Retry(k) PROVE FetchInv'
    <3>1. \A j \in Callers \ {k} : thread'[j] = thread[j]
      BY <2>0, <2>9 DEF Retry
    <3>2. /\ thread'[k].at = "connect" /\ thread'[k].kept = 0 /\ thread'[k].bytes = 0
          /\ thread'[k].error = "none"
      BY <2>0, <2>9 DEF Retry, Unstarted
    <3> QED BY <3>1, <3>2, FetchFrame DEF Fetches
  <2>10. ASSUME End(k) PROVE FetchInv'
    <3>1. (\A j \in Callers \ {k} : thread'[j] = thread[j]) /\ thread'[k].at \in {"idle", "returned"}
      BY <2>0, <2>10 DEF End, Unstarted
    <3> QED BY <3>1, FetchFrame DEF Fetches
  <2> QED BY <1>5, <2>1, <2>2, <2>3, <2>4, <2>5, <2>6, <2>7, <2>8, <2>9, <2>10 DEF ThreadStep
<1> QED BY <1>1, <1>2, <1>3, <1>4, <1>5 DEF ExecutorNext

\* What a statement returns is the longest prefix of its rows within both budgets, marked truncated exactly
\* when there was more (sql_executor.py, _fetch), for any rows and any budgets.
THEOREM FetchedExactlyHolds == Spec => []FetchedExactly
<1>1. ExecutorInit => FetchInv
  BY DEF ExecutorInit, FetchInv, Fetches, Unstarted
<1>2. ExecutorInv /\ FetchInv /\ [ExecutorNext]_executorVars => FetchInv'
  BY FetchKeeps DEF ExecutorInv
<1>3. FetchInv => FetchedExactly
  BY Zenon DEF FetchInv, Fetches, Cut, FetchedExactly
<1> QED BY <1>1, <1>2, <1>3, ExecutorInvariant, ServiceImplementsExecutor, PTL DEF ExecutorSpec

-----------------------------------------------------------------------------
\* The model call of each caller, what it has recorded, and what is left of its budget.
CallsWithin ==
    /\ llm \in [Callers -> [at : {"idle", "chat", "answered", "raised"}, attempt : Nat, repair : Nat]]
    /\ usage \in [Callers -> [calls : Nat, errors : Nat]]
    /\ \A k \in Callers : llm[k].at = "chat" =>
          llm[k].attempt \in 1 .. RetryAttempts /\ llm[k].repair \in 0 .. RepairAttempts
    /\ \A k \in Callers : llm[k].at = "idle" => usage[k].calls = 0
    /\ ModelCallsBounded

\* What Left and PerCall are, as products of natural numbers.
LEMMA Budgets ==
    /\ PerCall \in Nat /\ PerCall >= RetryAttempts /\ PerCall = RepairAttempts * RetryAttempts + RetryAttempts
    /\ \A r \in 0 .. RepairAttempts :
          /\ (RepairAttempts - r) * RetryAttempts \in Nat
          /\ r < RepairAttempts =>
                (RepairAttempts - (r + 1)) * RetryAttempts + RetryAttempts = (RepairAttempts - r) * RetryAttempts
<1> USE ModelCallAssumption
<1>1. \A x, y \in Nat : x * y \in Nat
  OBVIOUS
<1>2. \A x, y \in Nat : (x + 1) * y = x * y + y
  OBVIOUS
<1>3. PerCall = RepairAttempts * RetryAttempts + RetryAttempts
  BY <1>2 DEF PerCall
<1>4. ASSUME NEW r \in 0 .. RepairAttempts
      PROVE  /\ (RepairAttempts - r) * RetryAttempts \in Nat
             /\ r < RepairAttempts =>
                  (RepairAttempts - (r + 1)) * RetryAttempts + RetryAttempts = (RepairAttempts - r) * RetryAttempts
  <2>1. RepairAttempts - r \in Nat
    OBVIOUS
  <2>2. r < RepairAttempts => RepairAttempts - (r + 1) \in Nat /\ RepairAttempts - r = (RepairAttempts - (r + 1)) + 1
    OBVIOUS
  <2> QED BY <1>1, <1>2, <2>1, <2>2
<1> QED BY <1>1, <1>3, <1>4

\* The steps of structured calls.
ModelCallNext ==
    \E k \in Callers : Ask(k) \/ ModelCallStep(k) \/ Abandon(k) \/ Take(k)

\* A step of k's call to another state of it keeps the others' as they are.
LEMMA CallKeeps ==
    ASSUME NEW k \in Callers, CallsWithin,
           NEW call \in [at : {"idle", "chat", "answered", "raised"}, attempt : Nat, repair : Nat],
           NEW used \in [calls : Nat, errors : Nat],
           llm' = [llm EXCEPT ![k] = call], usage' = [usage EXCEPT ![k] = used],
           call.at = "chat" => call.attempt \in 1 .. RetryAttempts /\ call.repair \in 0 .. RepairAttempts,
           call.at = "idle" => used.calls = 0,
           used.calls + (IF call.at = "chat"
                         THEN (RepairAttempts - call.repair) * RetryAttempts + RetryAttempts - call.attempt + 1
                         ELSE 0) <= PerCall
    PROVE  CallsWithin'
<1>1. /\ llm' \in [Callers -> [at : {"idle", "chat", "answered", "raised"}, attempt : Nat, repair : Nat]]
      /\ usage' \in [Callers -> [calls : Nat, errors : Nat]]
  BY DEF CallsWithin
<1>2. \A j \in Callers \ {k} : llm'[j] = llm[j] /\ usage'[j] = usage[j]
  BY DEF CallsWithin
<1>3. llm'[k] = call /\ usage'[k] = used
  BY DEF CallsWithin
<1>4. ModelCallsBounded'
  <2>1. ASSUME NEW j \in Callers PROVE (usage[j].calls + Left(j) <= PerCall)'
    <3>1. CASE j = k
      BY <1>3, <3>1 DEF Left, PerCall
    <3>2. CASE j # k
      BY <1>2, <3>2 DEF CallsWithin, ModelCallsBounded, Left, PerCall
    <3> QED BY <3>1, <3>2
  <2> QED BY <2>1 DEF ModelCallsBounded
<1>5. \A j \in Callers : /\ llm'[j].at = "chat" =>
                              llm'[j].attempt \in 1 .. RetryAttempts /\ llm'[j].repair \in 0 .. RepairAttempts
                         /\ llm'[j].at = "idle" => usage'[j].calls = 0
  BY <1>2, <1>3 DEF CallsWithin
<1> QED BY <1>1, <1>4, <1>5 DEF CallsWithin

\* Every step of a structured call stays within its budget.
LEMMA ModelCallKeeps ==
    ASSUME CallsWithin, [ModelCallNext]_modelCallVars
    PROVE  CallsWithin'
<1> USE ModelCallAssumption
<1>0. CASE UNCHANGED modelCallVars
  BY <1>0 DEF modelCallVars, CallsWithin, ModelCallsBounded, Left
<1> DEFINE CallType == [at : {"idle", "chat", "answered", "raised"}, attempt : Nat, repair : Nat]
           UsageType == [calls : Nat, errors : Nat]
<1>1. ASSUME NEW k \in Callers, Ask(k) PROVE CallsWithin'
  <2> DEFINE call == [NoCall EXCEPT !.at = "chat", !.attempt = 1]
  <2>1. call \in CallType /\ call.at = "chat" /\ call.attempt = 1 /\ call.repair = 0
    BY DEF NoCall
  <2>2. usage[k] \in UsageType /\ usage[k].calls = 0
    BY <1>1 DEF Ask, CallsWithin
  <2>3. llm' = [llm EXCEPT ![k] = call] /\ usage' = [usage EXCEPT ![k] = usage[k]]
    BY <1>1 DEF Ask, CallsWithin
  <2>4. RepairAttempts - call.repair = RepairAttempts
    BY <2>1
  <2>5. call.attempt \in 1 .. RetryAttempts /\ call.repair \in 0 .. RepairAttempts
    BY <2>1
  <2>6. usage[k].calls + ((RepairAttempts - call.repair) * RetryAttempts + RetryAttempts - call.attempt + 1)
            <= PerCall
    <3>1. RepairAttempts * RetryAttempts \in Nat /\ PerCall = RepairAttempts * RetryAttempts + RetryAttempts
      BY Budgets
    <3>2. (RepairAttempts - call.repair) * RetryAttempts = RepairAttempts * RetryAttempts
      BY <2>4
    <3> DEFINE R == RepairAttempts * RetryAttempts
    <3> HIDE DEF R, call
    <3> QED BY <2>1, <2>2, <3>1, <3>2 DEF R
  <2> HIDE DEF call
  <2> QED BY <2>1, <2>2, <2>3, <2>5, <2>6, CallKeeps
<1>2. ASSUME NEW k \in Callers, llm[k].at = "chat", NEW failed \in BOOLEAN, Record(k, failed)
      PROVE  /\ \E used \in UsageType :
                    usage' = [usage EXCEPT ![k] = used] /\ used.calls = usage[k].calls + 1
             /\ usage[k].calls \in Nat
             /\ llm[k].attempt \in 1 .. RetryAttempts /\ llm[k].repair \in 0 .. RepairAttempts
             /\ usage[k].calls + (RepairAttempts - llm[k].repair) * RetryAttempts
                    + RetryAttempts - llm[k].attempt + 1 <= PerCall
  <2> DEFINE errors == IF failed THEN usage[k].errors + 1 ELSE usage[k].errors
             used == [calls |-> usage[k].calls + 1, errors |-> errors]
  <2>1. usage[k] \in UsageType
    BY DEF CallsWithin
  <2>2. used \in UsageType /\ used.calls = usage[k].calls + 1
    <3>1. errors \in Nat
      BY <2>1
    <3> HIDE DEF errors
    <3> QED BY <2>1, <3>1
  <2>3. usage' = [usage EXCEPT ![k] = used]
    BY <1>2, <2>1 DEF Record, CallsWithin
  <2>4. llm[k].attempt \in 1 .. RetryAttempts /\ llm[k].repair \in 0 .. RepairAttempts
    BY <1>2 DEF CallsWithin
  <2>5. (RepairAttempts - llm[k].repair) * RetryAttempts \in Nat /\ PerCall \in Nat
    BY <2>4, Budgets
  <2>6. usage[k].calls + Left(k) <= PerCall
    BY DEF CallsWithin, ModelCallsBounded
  <2>7. Left(k) = (RepairAttempts - llm[k].repair) * RetryAttempts + RetryAttempts - llm[k].attempt + 1
    BY <1>2 DEF Left
  <2>8. usage[k].calls \in Nat
    BY <2>1
  <2> DEFINE P == (RepairAttempts - llm[k].repair) * RetryAttempts
  <2>9. usage[k].calls + P + RetryAttempts - llm[k].attempt + 1 <= PerCall
    <3>1. P \in Nat /\ usage[k].calls + (P + RetryAttempts - llm[k].attempt + 1) <= PerCall
      BY <2>5, <2>6, <2>7
    <3> HIDE DEF P
    <3> QED BY <2>4, <2>5, <2>8, <3>1
  <2> QED BY <2>2, <2>3, <2>4, <2>8, <2>9
<1>3. ASSUME NEW k \in Callers, NEW text \in Texts, Chat(k, text) PROVE CallsWithin'
  <2>1. llm[k].at = "chat" /\ Record(k, FALSE)
    BY <1>3 DEF Chat
  <2>2. PICK used \in UsageType : usage' = [usage EXCEPT ![k] = used] /\ used.calls = usage[k].calls + 1
    BY <1>2, <2>1
  <2>3. /\ usage[k].calls \in Nat
        /\ llm[k].attempt \in 1 .. RetryAttempts /\ llm[k].repair \in 0 .. RepairAttempts
        /\ usage[k].calls + (RepairAttempts - llm[k].repair) * RetryAttempts
               + RetryAttempts - llm[k].attempt + 1 <= PerCall
    BY <1>2, <2>1
  <2> DEFINE P == (RepairAttempts - llm[k].repair) * RetryAttempts
             Q == (RepairAttempts - (llm[k].repair + 1)) * RetryAttempts
  <2>4. P \in Nat /\ PerCall \in Nat
    BY <2>3, Budgets
  <2>5. CASE \E at \in {"answered", "raised"} : llm' = [llm EXCEPT ![k] = [NoCall EXCEPT !.at = at]]
    <3>1. PICK at \in {"answered", "raised"} : llm' = [llm EXCEPT ![k] = [NoCall EXCEPT !.at = at]]
      BY <2>5
    <3> DEFINE call == [NoCall EXCEPT !.at = at]
    <3>2. call \in CallType /\ call.at = at /\ call.at # "chat" /\ call.at # "idle"
      BY DEF NoCall
    <3>3. used.calls <= PerCall
      <4> HIDE DEF P
      <4> QED BY <2>2, <2>3, <2>4 DEF P
    <3>4. used.calls + 0 <= PerCall
      BY <3>3
    <3> HIDE DEF call
    <3> QED BY <2>2, <3>1, <3>2, <3>4, CallKeeps DEF call
  <2>6. CASE llm[k].repair < RepairAttempts /\ llm' = [llm EXCEPT ![k] =
                [NoCall EXCEPT !.at = "chat", !.attempt = 1, !.repair = llm[k].repair + 1]]
    <3> DEFINE call == [NoCall EXCEPT !.at = "chat", !.attempt = 1, !.repair = llm[k].repair + 1]
    <3>1. call \in CallType /\ call.at = "chat" /\ call.attempt = 1 /\ call.repair = llm[k].repair + 1
      <4>1. llm[k].repair + 1 \in Nat
        BY <2>3
      <4> DEFINE next == llm[k].repair + 1
      <4> HIDE DEF next
      <4>2. next \in Nat
        BY <4>1 DEF next
      <4>3. LET c == [NoCall EXCEPT !.at = "chat", !.attempt = 1, !.repair = next]
            IN  c \in CallType /\ c.at = "chat" /\ c.attempt = 1 /\ c.repair = next
        BY <4>2 DEF NoCall
      <4> QED BY <4>3 DEF next
    <3>2. call.repair \in 0 .. RepairAttempts /\ call.attempt \in 1 .. RetryAttempts
      BY <2>3, <2>6, <3>1
    <3>3. Q + RetryAttempts = P
      BY <2>3, <2>6, Budgets
    <3>4. Q \in Nat
      BY <2>3, <2>6, Budgets
    <3>5. used.calls + (Q + RetryAttempts - 1 + 1) <= PerCall
      <4>1. usage[k].calls + P + RetryAttempts - llm[k].attempt + 1 <= PerCall
        BY <2>3
      <4> HIDE DEF P, Q
      <4> QED BY <2>2, <2>3, <2>4, <3>3, <3>4, <4>1
    <3>6. used.calls + ((RepairAttempts - call.repair) * RetryAttempts + RetryAttempts - call.attempt + 1) <= PerCall
      BY <3>1, <3>5
    <3>7. llm' = [llm EXCEPT ![k] = call]
      BY <2>6
    <3> HIDE DEF call, P, Q
    <3> QED BY <2>2, <3>1, <3>2, <3>6, <3>7, CallKeeps
  <2> QED BY <1>3, <2>5, <2>6 DEF Chat
<1>4. ASSUME NEW k \in Callers, NEW error \in ChatErrors, ChatFails(k, error) PROVE CallsWithin'
  <2>1. llm[k].at = "chat" /\ Record(k, TRUE)
    BY <1>4 DEF ChatFails
  <2>2. PICK used \in UsageType : usage' = [usage EXCEPT ![k] = used] /\ used.calls = usage[k].calls + 1
    BY <1>2, <2>1
  <2>3. /\ usage[k].calls \in Nat /\ llm[k] \in CallType
        /\ llm[k].attempt \in 1 .. RetryAttempts /\ llm[k].repair \in 0 .. RepairAttempts
        /\ usage[k].calls + (RepairAttempts - llm[k].repair) * RetryAttempts
               + RetryAttempts - llm[k].attempt + 1 <= PerCall
    BY <1>2, <2>1 DEF CallsWithin
  <2> DEFINE P == (RepairAttempts - llm[k].repair) * RetryAttempts
  <2>4. P \in Nat /\ PerCall \in Nat
    BY <2>3, Budgets
  <2>5. CASE llm' = [llm EXCEPT ![k] = [NoCall EXCEPT !.at = "raised"]]
    <3> DEFINE call == [NoCall EXCEPT !.at = "raised"]
    <3>1. call \in CallType /\ call.at = "raised"
      BY DEF NoCall
    <3>2. used.calls + 0 <= PerCall
      <4> HIDE DEF P
      <4> QED BY <2>2, <2>3, <2>4 DEF P
    <3>3. llm' = [llm EXCEPT ![k] = call]
      BY <2>5
    <3> HIDE DEF call
    <3> QED BY <2>2, <3>1, <3>2, <3>3, CallKeeps
  <2>6. CASE llm[k].attempt < RetryAttempts /\ llm' = [llm EXCEPT ![k] = [llm[k] EXCEPT !.attempt = llm[k].attempt + 1]]
    <3> DEFINE call == [llm[k] EXCEPT !.attempt = llm[k].attempt + 1]
    <3>1. call \in CallType /\ call.at = "chat" /\ call.attempt = llm[k].attempt + 1 /\ call.repair = llm[k].repair
      BY <2>1, <2>3
    <3>2. call.attempt \in 1 .. RetryAttempts
      BY <2>3, <2>6, <3>1
    <3>3. used.calls + (P + RetryAttempts - (llm[k].attempt + 1) + 1) <= PerCall
      <4>1. usage[k].calls + P + RetryAttempts - llm[k].attempt + 1 <= PerCall
        BY <2>3
      <4> HIDE DEF P
      <4> QED BY <2>2, <2>3, <2>4, <4>1
    <3>4. used.calls + ((RepairAttempts - call.repair) * RetryAttempts + RetryAttempts - call.attempt + 1) <= PerCall
      BY <3>1, <3>3
    <3>5. llm' = [llm EXCEPT ![k] = call]
      BY <2>6
    <3> HIDE DEF call, P
    <3> QED BY <2>2, <2>3, <3>1, <3>2, <3>4, <3>5, CallKeeps
  <2> QED BY <1>4, <2>3, <2>5, <2>6 DEF ChatFails, Repeats, CallsWithin
<1>5. ASSUME NEW k \in Callers, Abandon(k) \/ Take(k) PROVE CallsWithin'
  <2>1. NoCall \in CallType /\ NoCall.at = "idle" /\ NoUsage \in UsageType /\ NoUsage.calls = 0
    BY DEF NoCall, NoUsage
  <2>2. 0 + 0 <= PerCall
    BY Budgets
  <2> QED BY <1>5, <2>1, <2>2, CallKeeps DEF Abandon, Take
<1> QED BY <1>0, <1>1, <1>3, <1>4, <1>5 DEF ModelCallNext, ModelCallStep

\* The service makes model calls only by their own steps.
LEMMA StepsOfModelCalls == [Next]_vars => [ModelCallNext]_modelCallVars
<1> SUFFICES ASSUME [Next]_vars PROVE [ModelCallNext]_modelCallVars
  OBVIOUS
<1>1. ASSUME NEW k \in Callers, NEW accepted \in BOOLEAN, Question(k, accepted)
      PROVE  [ModelCallNext]_modelCallVars
  BY <1>1 DEF Question, ModelCallNext
<1>2. ASSUME NEW k \in Callers, NEW outcome \in {"probe", "app_error", "unexpected"}, Written(k, outcome)
      PROVE  [ModelCallNext]_modelCallVars
  BY <1>2 DEF Written, ModelCallNext
<1>3. ASSUME NEW k \in Callers, Cancel(k) PROVE [ModelCallNext]_modelCallVars
  BY <1>3 DEF Cancel, ModelCallNext
<1>4. ASSUME NEW k \in Callers, Work(k) PROVE [ModelCallNext]_modelCallVars
  BY <1>4 DEF Work, ModelCallNext
<1> QED
  BY <1>1, <1>2, <1>3, <1>4 DEF Next, Step, Tick, Receive, Authenticate, Admit, Refuse, Schema, Statement,
     After, Respond, vars

\* Whatever fails, a structured call makes at most (repair_attempts + 1) * max_attempts attempts.
THEOREM ModelCallsBoundedHolds == Spec => []ModelCallsBounded
<1>1. Init => CallsWithin
  BY Budgets, ModelCallAssumption
  DEF Init, ModelCallInit, NoCall, NoUsage, CallsWithin, ModelCallsBounded, Left
<1>2. CallsWithin /\ [Next]_vars => CallsWithin'
  BY ModelCallKeeps, StepsOfModelCalls
<1>3. CallsWithin => ModelCallsBounded
  BY DEF CallsWithin
<1> QED BY <1>1, <1>2, <1>3, PTL DEF Spec
=============================================================================
