--------------------------- MODULE SessionsProofs ---------------------------
(***************************************************************************)
(* The session database for any peers, kinds, bounds and builds.           *)
(*                                                                         *)
(* AtMostOneAnswer and BarrierWaits speak of answers and of the switch's   *)
(* backlog; what makes them inductive is the tie between the two: xids are *)
(* fresh and grow with the sessions (XidsInOrder), the database sends a    *)
(* reply to the session that asked (DatabaseAgrees), and a session that    *)
(* was answered is registered no more, or has nothing to wait for          *)
(* (AnsweredIsOver).                                                       *)
(*                                                                         *)
(* AggregateWaitsForAll and EntriesAwaitTheSwitch rest on a count, Counted *)
(* below: an aggregate waits for no fewer replies than the switch owes it, *)
(* and no session in the database for more.                                *)
(***************************************************************************)
EXTENDS Sessions, ConnectionsProofs, SequenceTheorems, FiniteSetTheorems, FunctionTheorems

\* Requests are numbered in the order of their sessions; those of single kinds
\* make one request each.
XidsInOrder ==
    /\ \A p \in pending : p.xid < nextXid /\ p.dpt = log[p.sid].via
    /\ \A p, q \in pending :
         /\ p.xid = q.xid => p = q
         /\ p.xid < q.xid => p.sid <= q.sid
         /\ p.sid = q.sid /\ objs[p.sid].kind \in SingleKinds => p = q

\* The database never redirects a reply.
DatabaseAgrees ==
    /\ \A x \in DOMAIN m_sessions : x < nextXid
    /\ \A p \in pending : p.xid \in DOMAIN m_sessions => m_sessions[p.xid] = p.sid

\* A session still registered has not been answered, unless by the error that
\* ended it, and then the switch owes it nothing.
AnsweredIsOver ==
    \A x \in DOMAIN m_sessions :
        log[m_sessions[x]].answers > 0 =>
            /\ objs[m_sessions[x]].kind = "table_stats"
            /\ \A p \in pending : p.sid # m_sessions[x]

\* Only sessions of the proxy's own have lifetime timers.
TimersAreLocal == \A s \in m_session_timers : objs[s].local

SessInv ==
    /\ SessTypeOK
    /\ XidsInOrder
    /\ DatabaseAgrees
    /\ AnsweredIsOver
    /\ TimersAreLocal
    /\ OnlyLocalSessionsDangle
    /\ AtMostOneAnswer
    /\ BarrierWaits

-----------------------------------------------------------------------------
(***************************************************************************)
(* What every step but the creation of a session has in common             *)
(***************************************************************************)

\* No session appears, and none changes its nature.
SameSessions ==
    /\ Len(objs') = Len(objs)
    /\ \A s \in Sids : /\ objs'[s].kind = objs[s].kind
                       /\ objs'[s].local = objs[s].local
                       /\ log'[s].via = log[s].via

\* The switch's backlog only shrinks, or a reply in it progresses.
BacklogShrinks ==
    /\ \A q \in pending' : \E r \in pending : r.xid = q.xid /\ r.dpt = q.dpt /\ r.sid = q.sid
    /\ \A q, r \in pending' : q.xid = r.xid => q = r

\* Entries only leave the database; a registered session dies if it is local.
DatabaseShrinks ==
    /\ DOMAIN m_sessions' \subseteq DOMAIN m_sessions
    /\ \A x \in DOMAIN m_sessions' :
         /\ m_sessions'[x] = m_sessions[x]
         /\ objs'[m_sessions[x]].alive = objs[m_sessions[x]].alive \/ objs[m_sessions[x]].local

\* An answer to session s that is in order.
RightAnswer(s) ==
    /\ log[s].answers = 0 /\ log'[s].answers = 1
    /\ objs[s].kind = "barrier" => \A q \in pending' : q.dpt = log[s].via => q.sid > s
    /\ (\E x \in DOMAIN m_sessions' : m_sessions'[x] = s) =>
         objs[s].kind = "table_stats" /\ \A q \in pending' : q.sid # s

\* A step of that form preserves the invariant.
LEMMA StepInv ==
  ASSUME SessInv, SessTypeOK', SameSessions, BacklogShrinks, DatabaseShrinks,
         nextXid' = nextXid, m_session_timers' \subseteq m_session_timers,
         \A s \in Sids : log'[s].answers = log[s].answers \/ RightAnswer(s)
  PROVE  SessInv'
<1> USE DEF SessInv, SameSessions, BacklogShrinks, DatabaseShrinks, Sids
<1>1. pending \subseteq Request /\ \A p \in pending : p.sid \in Sids
  BY DEF SessTypeOK
<1>2. pending' \subseteq Request /\ \A p \in pending' : p.sid \in Sids
  BY DEF SessTypeOK
<1>3. \A x \in DOMAIN m_sessions : x \in Nat /\ m_sessions[x] \in Sids
  BY DEF SessTypeOK
<1>4. \A s \in Sids : log[s] \in Fate /\ log'[s] \in Fate /\ objs[s] \in SessionObj
  BY DEF SessTypeOK
<1>5. XidsInOrder'
  BY <1>1, <1>2 DEF XidsInOrder
<1>6. DatabaseAgrees'
  BY <1>1, <1>2, <1>3 DEF DatabaseAgrees
<1>7. AnsweredIsOver'
  <2> SUFFICES ASSUME NEW x \in DOMAIN m_sessions', log'[m_sessions'[x]].answers > 0
               PROVE  /\ objs'[m_sessions'[x]].kind = "table_stats"
                      /\ \A p \in pending' : p.sid # m_sessions'[x]
    BY DEF AnsweredIsOver
  <2> DEFINE s == m_sessions[x]
  <2>1. s = m_sessions'[x] /\ s \in Sids /\ x \in DOMAIN m_sessions
    BY <1>3
  <2>2. CASE log'[s].answers = log[s].answers
    BY <2>1, <2>2, <1>1, <1>2 DEF AnsweredIsOver
  <2>3. CASE RightAnswer(s)
    BY <2>1, <2>3 DEF RightAnswer
  <2> QED
    BY <2>1, <2>2, <2>3
<1>8. TimersAreLocal'
  BY DEF TimersAreLocal, SessTypeOK
<1>9. OnlyLocalSessionsDangle'
  BY <1>3 DEF OnlyLocalSessionsDangle
<1>10. AtMostOneAnswer'
  BY <1>4 DEF AtMostOneAnswer, RightAnswer
<1>11. BarrierWaits'
  <2> SUFFICES ASSUME NEW b \in Sids, objs'[b].kind = "barrier", log'[b].answers > 0,
                      NEW p \in pending', p.dpt = log'[b].via
               PROVE  p.sid > b
    BY DEF BarrierWaits
  <2>1. CASE log'[b].answers = log[b].answers
    BY <2>1 DEF BarrierWaits
  <2>2. CASE RightAnswer(b)
    BY <2>2 DEF RightAnswer
  <2> QED
    BY <2>1, <2>2
<1> QED
  BY <1>5, <1>6, <1>7, <1>8, <1>9, <1>10, <1>11

-----------------------------------------------------------------------------
(***************************************************************************)
(* The steps                                                               *)
(***************************************************************************)

\* A new session keeps the invariant: its requests are the youngest, and it is
\* registered unless it has been answered at once.
LEMMA NewSessionInv ==
  ASSUME SessInv, ConnTypeOK, Connected,
         NEW o \in SessionObj, o.alive \/ o.local,
         NEW n \in Nat, NEW a \in 0 .. 1,
         NEW xids \in SUBSET (nextXid .. nextXid + n - 1),
         o.kind \in SingleKinds => n = 1 /\ a = 0,
         a = 1 => xids = {},
         NewSession(o, n, xids, a),
         \/ UNCHANGED m_session_timers
         \/ o.local /\ m_session_timers' = m_session_timers \cup {Len(objs) + 1},
         UNCHANGED actions_valid, fault' \in {fault, "range_error"}
  PROVE  SessInv'
<1>0. PICK c \in ctlUp :
        log' = Append(log, [via |-> m_slave, sent |-> n,
                            asker |-> IF c = m_master THEN c ELSE NoPeer,
                            answers |-> a, blank |-> a > 0,
                            errored |-> FALSE, lost |-> FALSE, split |-> FALSE])
  BY DEF NewSession
<1> DEFINE s == Len(objs) + 1
           f == [via |-> m_slave, sent |-> n,
                 asker |-> IF c = m_master THEN c ELSE NoPeer,
                 answers |-> a, blank |-> a > 0,
                 errored |-> FALSE, lost |-> FALSE, split |-> FALSE]
           new == {[xid |-> x, dpt |-> m_slave, sid |-> s, parts |-> 0] :
                     x \in nextXid .. nextXid + n - 1}
<1> USE DEF SessInv, Sids
<1>1. m_slave \in Dpts /\ f \in Fate
  BY DEF Connected, ConnTypeOK, Fate
<1>2. /\ objs' \in Seq(SessionObj) /\ Len(objs') = s
      /\ \A i \in Sids : objs'[i] = objs[i]
      /\ objs'[s] = o
  BY AppendProperties DEF NewSession, SessTypeOK
<1>3. /\ log' \in Seq(Fate) /\ Len(log') = s
      /\ \A i \in Sids : log'[i] = log[i]
      /\ log'[s] = f
  BY <1>0, <1>1, AppendProperties DEF SessTypeOK
<1>4. /\ DOMAIN m_sessions' = DOMAIN m_sessions \cup xids
      /\ \A x \in DOMAIN m_sessions' :
           m_sessions'[x] = IF x \in xids THEN s ELSE m_sessions[x]
  BY DEF NewSession, associate_xid
<1>5. pending' = pending \cup new /\ nextXid' = nextXid + n
  BY DEF NewSession
<1>6. nextXid \in Nat /\ Len(objs) \in Nat /\ pending \subseteq Request
      /\ DOMAIN m_sessions \subseteq Nat /\ \A p \in pending : p.sid \in Sids
  BY DEF SessTypeOK
<1>7. \A x \in DOMAIN m_sessions : m_sessions[x] \in Sids /\ x < nextXid /\ x \notin xids
  BY <1>6 DEF SessTypeOK, DatabaseAgrees
<1>8. \A p \in new : /\ p \in Request /\ p.sid = s /\ p.dpt = m_slave
                     /\ p.xid \in nextXid .. nextXid + n - 1 /\ p.parts = 0
  BY <1>1, <1>6 DEF Request
<1>9. \A p \in pending : p.sid # s /\ p.sid < s /\ p.xid < nextXid /\ p.xid \in Nat
  BY <1>6 DEF XidsInOrder, Request
<1>10. SessTypeOK'
  <2>1. nextXid' \in Nat
    BY <1>5, <1>6
  <2>2. xids \subseteq Nat
    BY <1>6
  <2>3. DOMAIN m_sessions' \subseteq Nat /\ \A x \in DOMAIN m_sessions' : m_sessions'[x] \in Sids'
    <3>1. Sids \subseteq Sids' /\ s \in Sids'
      BY <1>2, <1>6
    <3>2. DOMAIN m_sessions' \subseteq Nat
      BY <2>2, <1>4, <1>6
    <3>3. ASSUME NEW x \in DOMAIN m_sessions' PROVE m_sessions'[x] \in Sids'
      <4>1. CASE x \in xids
        BY <4>1, <3>1, <1>4
      <4>2. CASE x \notin xids
        BY <4>2, <3>1, <1>4, <1>7
      <4> QED
        BY <4>1, <4>2
    <3> QED
      BY <3>2, <3>3
  <2>4. m_session_timers' \subseteq Sids'
    <3>1. m_session_timers \subseteq Sids /\ Sids \subseteq Sids' /\ s \in Sids'
      BY <1>2, <1>6 DEF SessTypeOK
    <3> QED
      BY <3>1
  <2>5. pending' \subseteq Request /\ \A p \in pending' : p.sid \in Sids'
    BY <1>2, <1>5, <1>6, <1>8
  <2> QED
    BY <2>1, <2>3, <2>4, <2>5, <1>2, <1>3 DEF SessTypeOK
<1>11. XidsInOrder'
  <2>1. \A p \in pending' : p.xid < nextXid' /\ p.dpt = log'[p.sid].via
    BY <1>1, <1>3, <1>5, <1>6, <1>8, <1>9 DEF XidsInOrder
  <2>2. ASSUME NEW p \in pending', NEW q \in pending'
        PROVE  /\ p.xid = q.xid => p = q
               /\ p.xid < q.xid => p.sid <= q.sid
    <3>1. CASE p \in pending /\ q \in pending
      BY <3>1 DEF XidsInOrder
    <3>2. CASE p \in pending /\ q \in new
      BY <3>2, <1>6, <1>8, <1>9
    <3>3. CASE p \in new /\ q \in pending
      BY <3>3, <1>6, <1>8, <1>9
    <3>4. CASE p \in new /\ q \in new
      BY <3>4, <1>6, <1>8
    <3> QED
      BY <3>1, <3>2, <3>3, <3>4, <1>5
  <2>3. ASSUME NEW p \in pending', NEW q \in pending',
               p.sid = q.sid, objs'[p.sid].kind \in SingleKinds
        PROVE  p = q
    <3>1. CASE p \in pending /\ q \in pending
      BY <3>1, <2>3, <1>2, <1>6 DEF XidsInOrder
    <3>2. CASE p \in new /\ q \in new
      <4>1. n = 1
        BY <3>2, <2>3, <1>2, <1>8
      <4> QED
        BY <4>1, <3>2, <1>6
    <3> QED
      BY <3>1, <3>2, <2>3, <1>5, <1>8, <1>9
  <2> QED
    BY <2>1, <2>2, <2>3 DEF XidsInOrder
<1>12. DatabaseAgrees'
  <2>1. ASSUME NEW x \in DOMAIN m_sessions' PROVE x < nextXid'
    <3>1. CASE x \in DOMAIN m_sessions
      BY <3>1, <1>5, <1>6, <1>7
    <3>2. CASE x \in xids
      BY <3>2, <1>5, <1>6
    <3> QED
      BY <2>1, <3>1, <3>2, <1>4
  <2>2. ASSUME NEW p \in pending', p.xid \in DOMAIN m_sessions' PROVE m_sessions'[p.xid] = p.sid
    <3>1. CASE p \in pending
      <4>1. p.xid \notin xids
        BY <3>1, <1>6, <1>9
      <4> QED
        BY <4>1, <3>1, <2>2, <1>4 DEF DatabaseAgrees
    <3>2. CASE p \in new
      BY <3>2, <2>2, <1>4, <1>6, <1>7, <1>8
    <3> QED
      BY <3>1, <3>2, <1>5
  <2> QED
    BY <2>1, <2>2 DEF DatabaseAgrees
<1>13. AnsweredIsOver'
  <2> SUFFICES ASSUME NEW x \in DOMAIN m_sessions', log'[m_sessions'[x]].answers > 0
               PROVE  /\ objs'[m_sessions'[x]].kind = "table_stats"
                      /\ \A p \in pending' : p.sid # m_sessions'[x]
    BY DEF AnsweredIsOver
  <2>1. x \notin xids
    <3> SUFFICES ASSUME x \in xids PROVE FALSE
      OBVIOUS
    <3>1. m_sessions'[x] = s
      BY <1>4
    <3>2. f.answers = a
      OBVIOUS
    <3>3. a > 0
      BY <3>1, <3>2, <1>3
    <3> QED
      BY <3>3
  <2>2. m_sessions'[x] = m_sessions[x] /\ m_sessions[x] \in Sids /\ x \in DOMAIN m_sessions
    BY <2>1, <1>4, <1>7
  <2> QED
    BY <2>2, <1>2, <1>3, <1>5, <1>6, <1>8 DEF AnsweredIsOver
<1>14. TimersAreLocal'
  BY <1>2 DEF TimersAreLocal, SessTypeOK
<1>15. OnlyLocalSessionsDangle'
  BY <1>2, <1>4, <1>7 DEF OnlyLocalSessionsDangle
<1>16. AtMostOneAnswer'
  BY <1>2, <1>3, <1>6 DEF AtMostOneAnswer
<1>17. BarrierWaits'
  <2> SUFFICES ASSUME NEW b \in Sids', objs'[b].kind = "barrier", log'[b].answers > 0,
                      NEW p \in pending', p.dpt = log'[b].via
               PROVE  p.sid > b
    BY DEF BarrierWaits
  <2>1. b # s
    BY <1>2, <1>3 DEF SingleKinds
  <2>2. b \in Sids
    BY <2>1, <1>2, <1>6
  <2> QED
    BY <2>2, <1>2, <1>3, <1>5, <1>6, <1>8 DEF BarrierWaits
<1> QED
  BY <1>10, <1>11, <1>12, <1>13, <1>14, <1>15, <1>16, <1>17

\* The actions that make a session make it as NewSessionInv asks.
LEMMA RequestInv ==
  ASSUME SessInv, ConnTypeOK,
         \/ \E k \in Kinds : handle_request(k)
         \/ \E k \in Kinds, n \in 0 .. MaxMatches : handle_flow_request(k, n)
         \/ handle_port_stats_request
         \/ get_supported_actions
  PROVE  SessInv'
<1>1. nextXid \in Nat /\ {nextXid} \in SUBSET (nextXid .. nextXid + 1 - 1)
  BY DEF SessInv, SessTypeOK
<1>2. ASSUME NEW k \in AllKinds PROVE Session(k) \in SessionObj
  BY <1>2 DEF Session, SessionObj
<1> DEFINE completed(k) == [Session(k) EXCEPT !.m_completed = TRUE]
           local(k, b)  == [Session(k) EXCEPT !.local = TRUE, !.alive = b]
<1>7. ASSUME NEW k \in AllKinds
      PROVE  /\ Session(k).alive /\ Session(k).kind = k
             /\ completed(k) \in SessionObj /\ completed(k).alive /\ completed(k).kind = k
             /\ \A b \in BOOLEAN : /\ local(k, b) \in SessionObj
                                   /\ local(k, b).kind = k /\ local(k, b).local
  <2>1. Session(k).alive /\ Session(k).kind = k
    BY DEF Session
  <2>2. completed(k) \in SessionObj /\ completed(k).alive /\ completed(k).kind = k
    BY <1>2, <2>1 DEF SessionObj
  <2>3. ASSUME NEW b \in BOOLEAN
        PROVE  local(k, b) \in SessionObj /\ local(k, b).kind = k /\ local(k, b).local
    BY <1>2, <2>1 DEF SessionObj
  <2> QED
    BY <2>1, <2>2, <2>3
<1> HIDE DEF completed, local
<1>3. ASSUME NEW k \in Kinds, handle_request(k) PROVE SessInv'
  <2>1. k \in AllKinds /\ Connected
    BY <1>3, SessionsAssumption DEF handle_request, MayRequest
  <2>2. NewSession(Session(k), 1, {nextXid}, 0)
    BY <1>3 DEF handle_request
  <2>3. UNCHANGED <<m_session_timers, actions_valid, fault>>
    BY <1>3 DEF handle_request
  <2> QED
    BY <2>1, <2>2, <2>3, <1>1, <1>2, <1>7, NewSessionInv
<1>4. ASSUME NEW k \in Kinds, NEW n \in 0 .. MaxMatches, handle_flow_request(k, n)
      PROVE  SessInv'
  <2>1. k \in AllKinds /\ k \notin SingleKinds /\ Connected /\ n \in Nat
    BY <1>4, SessionsAssumption DEF handle_flow_request, MayRequest, FlowKinds, SingleKinds
  <2>2. UNCHANGED <<m_session_timers, actions_valid, fault>>
    BY <1>4 DEF handle_flow_request
  <2>3. CASE n = 0
    <3>1. NewSession(completed(k), 0, {}, 1)
      BY <1>4, <2>3 DEF handle_flow_request, completed
    <3> QED
      BY <2>1, <2>2, <3>1, <1>7, NewSessionInv
  <2>4. CASE n # 0
    <3> DEFINE o == FlowSession(k, n)
               X == nextXid .. nextXid + n - 1
    <3>1. NewSession(o, n, X, 0)
      BY <1>4, <2>4 DEF handle_flow_request
    <3>2. o \in SessionObj /\ o.alive /\ o.kind = k
      <4>1. Session(k) \in SessionObj /\ Session(k).alive /\ Session(k).kind = k
        BY <2>1, <1>2, <1>7
      <4> QED
        BY <2>1, <4>1 DEF FlowSession, SessionObj
    <3>3. X \in SUBSET (nextXid .. nextXid + n - 1)
      OBVIOUS
    <3>4. 0 \in 0 .. 1 /\ 0 # 1 /\ o.kind \notin SingleKinds
      BY <2>1, <3>2
    <3> HIDE DEF o, X
    <3> QED
      BY <2>1, <2>2, <3>1, <3>2, <3>3, <3>4, NewSessionInv
  <2> QED
    BY <2>3, <2>4
<1>5. ASSUME handle_port_stats_request PROVE SessInv'
  <2> DEFINE sends == IF port_config_handling = "passthrough" THEN 1 ELSE 0
             o     == completed("port_stats")
  <2>1. CASE /\ NewSession(o, sends, {}, 0)
             /\ UNCHANGED <<m_session_timers, actions_valid, fault>>
    <3>1. o \in SessionObj /\ o.alive /\ o.kind \notin SingleKinds
      BY <1>7 DEF AllKinds, SingleKinds
    <3>2. Connected /\ sends \in Nat
      BY <1>5 DEF handle_port_stats_request, MayRequest
    <3> HIDE DEF o, sends
    <3> QED
      BY <2>1, <3>1, <3>2, NewSessionInv
  <2>2. CASE /\ UNCHANGED <<nextXid, pending, log>>
             /\ \E f \in {fault, "assertion", "out_of_range"} : Crash(f)
    <3>1. SessTypeOK'
      BY <2>2 DEF Crash, SessInv, SessTypeOK, Sids
    <3> QED
      BY <2>2, <3>1, StepInv DEF Crash, SameSessions, BacklogShrinks, DatabaseShrinks,
         SessInv, XidsInOrder
  <2> QED
    BY <1>5, <2>1, <2>2 DEF handle_port_stats_request, completed
<1>6. ASSUME get_supported_actions PROVE SessInv'
  <2> DEFINE free == Cardinality(m_session_timers) < TimerSlots
             o    == local("features", free)
  <2>1. NewSession(o, 1, {nextXid}, 0) /\ Connected
    BY <1>6 DEF get_supported_actions, MayRequest, local, free_timer_slot
  <2>2. /\ m_session_timers' = m_session_timers \cup (IF free THEN {Len(objs) + 1} ELSE {})
        /\ fault' = IF free THEN fault ELSE "range_error"
        /\ UNCHANGED actions_valid
    BY <1>6 DEF get_supported_actions, free_timer_slot
  <2>3. o \in SessionObj /\ o.local /\ o.kind = "features"
    <3>1. free \in BOOLEAN /\ "features" \in AllKinds
      BY DEF AllKinds, SingleKinds
    <3> HIDE DEF free
    <3> QED
      BY <3>1, <1>7
  <2>4. /\ \/ UNCHANGED m_session_timers
           \/ o.local /\ m_session_timers' = m_session_timers \cup {Len(objs) + 1}
        /\ fault' \in {fault, "range_error"}
    BY <2>2, <2>3
  <2> HIDE DEF o, free
  <2> QED
    BY <2>1, <2>2, <2>3, <2>4, <1>1, NewSessionInv
<1> QED
  BY <1>3, <1>4, <1>5, <1>6

\* What an answer of the switch does to the backlog.
LEMMA BacklogLemma ==
  ASSUME SessInv, NEW p \in pending, NEW more \in BOOLEAN,
         pending' = (pending \ {p}) \cup (IF more THEN {[p EXCEPT !.parts = @ + 1]} ELSE {})
  PROVE  /\ BacklogShrinks
         /\ pending' \subseteq Request
         /\ \A q \in pending' : q.sid \in Sids
         /\ p.sid \in Sids
         /\ ~more => \A q \in pending' : q \in pending /\ q.xid # p.xid
<1> DEFINE p1 == [p EXCEPT !.parts = @ + 1]
<1>1. p \in Request /\ pending \subseteq Request /\ \A q \in pending : q.sid \in Sids
  BY DEF SessInv, SessTypeOK
<1>2. p1 \in Request /\ p1.xid = p.xid /\ p1.dpt = p.dpt /\ p1.sid = p.sid
  BY <1>1 DEF Request
<1>3. \A q \in pending \ {p} : q.xid # p.xid
  BY DEF SessInv, XidsInOrder
<1>4. \A q \in pending' : q \in pending \ {p} \/ (more /\ q = p1)
  OBVIOUS
<1> HIDE DEF p1
<1>5. BacklogShrinks
  BY <1>1, <1>2, <1>3, <1>4 DEF BacklogShrinks, SessInv, XidsInOrder
<1> QED
  BY <1>1, <1>2, <1>3, <1>4, <1>5

\* Replacing the object of one session by another of the same nature.
LEMMA ObjLemma ==
  ASSUME SessInv, NEW s \in Sids, NEW o \in SessionObj,
         o.kind = objs[s].kind, o.local = objs[s].local,
         objs' = [objs EXCEPT ![s] = o]
  PROVE  /\ objs' \in Seq(SessionObj) /\ Len(objs') = Len(objs) /\ Sids' = Sids
         /\ \A i \in Sids : /\ objs'[i] = IF i = s THEN o ELSE objs[i]
                            /\ objs'[i].kind = objs[i].kind
                            /\ objs'[i].local = objs[i].local
<1>1. objs \in Seq(SessionObj)
  BY DEF SessInv, SessTypeOK
<1>2. /\ [objs EXCEPT ![s] = o] \in Seq(SessionObj) /\ Len([objs EXCEPT ![s] = o]) = Len(objs)
      /\ \A i \in Sids : [objs EXCEPT ![s] = o][i] = IF i = s THEN o ELSE objs[i]
  BY <1>1, ExceptSeq DEF Sids
<1> QED
  BY <1>2 DEF Sids

\* Replacing the history of one session, given a history g of all.
LEMMA FateLemma ==
  ASSUME NEW g \in Seq(Fate), NEW s \in 1 .. Len(g), NEW f \in Fate
  PROVE  /\ [g EXCEPT ![s] = f] \in Seq(Fate) /\ Len([g EXCEPT ![s] = f]) = Len(g)
         /\ \A i \in 1 .. Len(g) : [g EXCEPT ![s] = f][i] = IF i = s THEN f ELSE g[i]
  BY ExceptSeq

\* One more answer.
LEMMA AnsweredFate ==
  ASSUME NEW h \in Fate, h.answers = 0, NEW b \in BOOLEAN
  PROVE  /\ [h EXCEPT !.answers = @ + 1, !.blank = @ \/ b] \in Fate
         /\ [h EXCEPT !.answers = @ + 1, !.blank = @ \/ b].answers = 1
         /\ [h EXCEPT !.answers = @ + 1, !.blank = @ \/ b].via = h.via
<1> DEFINE nb == h.blank \/ b
           na == h.answers + 1
<1>1. nb \in BOOLEAN /\ na = 1 /\ na \in Nat
  OBVIOUS
<1> HIDE DEF nb, na
<1>2. /\ [h EXCEPT !.answers = na, !.blank = nb] \in Fate
      /\ [h EXCEPT !.answers = na, !.blank = nb].answers = 1
      /\ [h EXCEPT !.answers = na, !.blank = nb].via = h.via
  BY <1>1 DEF Fate
<1> QED
  BY <1>2 DEF nb, na

\* A reply of the switch, whatever becomes of it, keeps the invariant.
LEMMA ReplyInv ==
  ASSUME SessInv, NEW p \in pending, SwitchReplies(p)
  PROVE  SessInv'
<1>1. PICK more \in BOOLEAN :
        LET fate == [log[p.sid] EXCEPT !.split = @ \/ more, !.lost = @ \/ ~Connected]
            seen == [log EXCEPT ![p.sid] = fate]
        IN  /\ more => objs[p.sid].kind \in Multipart /\ p.parts < MaxMore
            /\ pending' = (pending \ {p}) \cup (IF more THEN {[p EXCEPT !.parts = @ + 1]} ELSE {})
            /\ IF Connected /\ p.xid \in DOMAIN m_sessions
               THEN handle_reply(p.xid, seen)
               ELSE /\ log' = seen
                    /\ UNCHANGED <<m_sessions, objs, m_session_timers, actions_valid, fault>>
  BY DEF SwitchReplies
<1> DEFINE s    == p.sid
           f    == [log[s] EXCEPT !.split = @ \/ more, !.lost = @ \/ ~Connected]
           seen == [log EXCEPT ![s] = f]
<1>2. UNCHANGED nextXid /\ MayAnswer(p)
  BY DEF SwitchReplies
<1>3. /\ BacklogShrinks /\ pending' \subseteq Request /\ \A q \in pending' : q.sid \in Sids
      /\ s \in Sids
      /\ ~more => \A q \in pending' : q \in pending /\ q.xid # p.xid
  BY <1>1, BacklogLemma
<1>4. log \in Seq(Fate) /\ Len(log) = Len(objs) /\ log[s] \in Fate /\ objs[s] \in SessionObj
  BY <1>3 DEF SessInv, SessTypeOK, Sids
<1>5. f \in Fate /\ f.answers = log[s].answers /\ f.via = log[s].via
  BY <1>4 DEF Fate
<1>6. /\ seen \in Seq(Fate) /\ Len(seen) = Len(objs)
      /\ \A i \in Sids : /\ seen[i].answers = log[i].answers /\ seen[i].via = log[i].via
                         /\ seen[i] = IF i = s THEN f ELSE log[i]
  BY <1>3, <1>4, <1>5, FateLemma DEF Sids
<1> HIDE DEF f
<1>7. CASE /\ log' = seen
           /\ UNCHANGED <<m_sessions, objs, m_session_timers, actions_valid>>
           /\ fault' \in {fault, "use_after_free", "assertion"}
  <2>1. SessTypeOK'
    BY <1>2, <1>3, <1>6, <1>7 DEF SessInv, SessTypeOK, Sids
  <2>2. SameSessions /\ DatabaseShrinks /\ \A i \in Sids : log'[i].answers = log[i].answers
    BY <1>6, <1>7 DEF SameSessions, DatabaseShrinks
  <2> QED
    BY <1>2, <1>3, <1>7, <2>1, <2>2, StepInv
<1>8. CASE Connected /\ p.xid \in DOMAIN m_sessions /\ process_reply(s, p.xid, seen)
  <2> DEFINE collected == IF p.xid \in objs[s].reply_xid THEN objs[s].replies + 1 ELSE objs[s].replies
  <2>1. collected \in Nat
    BY <1>4 DEF SessionObj
  <2>2. m_sessions[p.xid] = s
    BY <1>8 DEF SessInv, DatabaseAgrees
  <2>3. log[s].answers = 0
    BY <1>3, <1>4, <1>8, <2>2 DEF SessInv, AnsweredIsOver, AtMostOneAnswer, Fate
  <2> HIDE DEF collected
  <2>4. CASE CountDown(s, collected, seen)
    <3> DEFINE o == [objs[s] EXCEPT !.outstanding_replies = @ - 1, !.replies = collected]
    <3>1. o \in SessionObj /\ o.kind = objs[s].kind /\ o.local = objs[s].local /\ o.alive = objs[s].alive
      <4>1. objs[s].outstanding_replies - 1 \in Int
        BY <1>4 DEF SessionObj
      <4> QED
        BY <1>4, <2>1, <4>1 DEF SessionObj
    <3>2. objs' = [objs EXCEPT ![s] = o]
      BY <2>4 DEF CountDown
    <3> HIDE DEF o
    <3>3. /\ objs' \in Seq(SessionObj) /\ Len(objs') = Len(objs) /\ Sids' = Sids
          /\ \A i \in Sids : /\ objs'[i] = IF i = s THEN o ELSE objs[i]
                             /\ objs'[i].kind = objs[i].kind
                             /\ objs'[i].local = objs[i].local
      BY <1>3, <3>1, <3>2, ObjLemma
    <3>4. log' = seen /\ UNCHANGED <<m_sessions, m_session_timers, actions_valid, fault>>
      BY <2>4 DEF CountDown
    <3>5. SessTypeOK'
      BY <1>2, <1>3, <1>6, <3>3, <3>4 DEF SessInv, SessTypeOK
    <3>6. SameSessions /\ \A i \in Sids : log'[i].answers = log[i].answers
      BY <1>6, <3>3, <3>4 DEF SameSessions
    <3>7. DatabaseShrinks
      BY <3>1, <3>3, <3>4 DEF DatabaseShrinks, SessInv, SessTypeOK
    <3> QED
      BY <1>2, <1>3, <3>4, <3>5, <3>6, <3>7, StepInv
  <2>5. CASE Finish(s, collected, seen)
    <3> DEFINE o == [objs[s] EXCEPT !.m_completed = TRUE, !.alive = FALSE, !.replies = collected]
               blank == objs[s].kind \in FlowKinds /\ collected = 0
               g == [seen[s] EXCEPT !.answers = @ + 1, !.blank = @ \/ blank]
    <3>1. o \in SessionObj /\ o.kind = objs[s].kind /\ o.local = objs[s].local
      BY <1>4, <2>1 DEF SessionObj
    <3>2. objs' = [objs EXCEPT ![s] = o]
      BY <2>5 DEF Finish
    <3> HIDE DEF o
    <3>3. /\ objs' \in Seq(SessionObj) /\ Len(objs') = Len(objs) /\ Sids' = Sids
          /\ \A i \in Sids : /\ objs'[i] = IF i = s THEN o ELSE objs[i]
                             /\ objs'[i].kind = objs[i].kind
                             /\ objs'[i].local = objs[i].local
      BY <1>3, <3>1, <3>2, ObjLemma
    <3>4. /\ log' = IF objs[s].local THEN seen ELSE [seen EXCEPT ![s] = g]
          /\ m_sessions' = remove_session(s)
          /\ UNCHANGED <<m_session_timers, fault>>
          /\ actions_valid' \in BOOLEAN
      BY <2>5 DEF Finish, push_features, SessInv, SessTypeOK
    <3>5. seen[s] \in Fate
      BY <1>3, <1>5, <1>6
    <3>6. g \in Fate /\ g.answers = 1 /\ g.via = log[s].via
      <4>1. seen[s].answers = 0 /\ seen[s].via = log[s].via /\ blank \in BOOLEAN
        BY <1>3, <1>6, <2>3
      <4> HIDE DEF blank, seen
      <4> QED
        BY <3>5, <4>1, AnsweredFate
    <3> HIDE DEF g, seen
    <3>7. /\ log' \in Seq(Fate) /\ Len(log') = Len(objs)
          /\ \A i \in Sids : /\ log'[i].via = log[i].via
                             /\ i # s => log'[i].answers = log[i].answers
                             /\ i = s => log'[i].answers \in {log[i].answers, 1}
      <4>1. CASE objs[s].local
        BY <4>1, <1>6, <3>4
      <4>2. CASE ~objs[s].local
        <5>1. log' = [seen EXCEPT ![s] = g]
          BY <4>2, <3>4
        <5>2. s \in 1 .. Len(seen)
          BY <1>3, <1>6 DEF Sids
        <5>3. /\ log' \in Seq(Fate) /\ Len(log') = Len(seen)
              /\ \A i \in 1 .. Len(seen) : log'[i] = IF i = s THEN g ELSE seen[i]
          BY <5>1, <5>2, <1>6, <3>6, FateLemma
        <5> QED
          BY <5>3, <1>6, <3>6 DEF Sids
      <4> QED
        BY <4>1, <4>2
    <3>8. /\ DOMAIN m_sessions' \subseteq DOMAIN m_sessions
          /\ \A x \in DOMAIN m_sessions' : m_sessions'[x] = m_sessions[x] /\ m_sessions[x] # s
      BY <3>4 DEF remove_session
    <3>9. SessTypeOK'
      BY <1>2, <1>3, <3>3, <3>4, <3>7, <3>8 DEF SessInv, SessTypeOK
    <3>10. SameSessions
      BY <3>3, <3>7 DEF SameSessions
    <3>11. DatabaseShrinks
      BY <3>3, <3>8 DEF DatabaseShrinks, SessInv, SessTypeOK
    <3>12. ASSUME objs[s].kind = "barrier", NEW q \in pending', q.dpt = log[s].via
           PROVE  q.sid > s
      <4>1. ~more
        BY <1>1, <3>12 DEF Multipart, FlowKinds
      <4>2. q \in pending /\ q.xid # p.xid /\ p.dpt = log[s].via
        BY <4>1, <1>3 DEF SessInv, XidsInOrder
      <4>3. ~(q.xid < p.xid)
        BY <4>2, <1>2, <3>12 DEF MayAnswer
      <4>4. q.xid \in Nat /\ p.xid \in Nat /\ q.sid \in Nat /\ s \in Nat
        BY <4>2 DEF SessInv, SessTypeOK, Request
      <4>5. p.xid < q.xid
        BY <4>2, <4>3, <4>4
      <4>6. p.sid <= q.sid
        BY <4>2, <4>5 DEF SessInv, XidsInOrder
      <4>7. p.sid # q.sid
        BY <4>2, <3>12 DEF SessInv, XidsInOrder, SingleKinds
      <4> QED
        BY <4>4, <4>6, <4>7
    <3>13. log'[s].answers = log[s].answers \/ RightAnswer(s)
      BY <1>3, <2>3, <3>7, <3>8, <3>12 DEF RightAnswer
    <3>14. \A i \in Sids : log'[i].answers = log[i].answers \/ RightAnswer(i)
      BY <3>7, <3>13
    <3>15. m_session_timers' \subseteq m_session_timers
      BY <3>4
    <3> QED
      BY <1>2, <1>3, <3>9, <3>10, <3>11, <3>14, <3>15, StepInv
  <2> QED
    BY <1>8, <2>4, <2>5 DEF process_reply, collected
<1> QED
  <2>1. ASSUME Connected, p.xid \in DOMAIN m_sessions PROVE m_sessions[p.xid] = s
    BY <2>1 DEF SessInv, DatabaseAgrees
  <2>2. IF Connected /\ p.xid \in DOMAIN m_sessions
        THEN handle_reply(p.xid, seen)
        ELSE /\ log' = seen
             /\ UNCHANGED <<m_sessions, objs, m_session_timers, actions_valid, fault>>
    BY <1>1 DEF f
  <2> HIDE DEF seen
  <2>3. CASE Connected /\ p.xid \in DOMAIN m_sessions
    BY <2>1, <2>2, <2>3, <1>7, <1>8 DEF handle_reply, Crash, seen
  <2> QED
    BY <2>2, <2>3, <1>7 DEF seen

\* An error of the switch keeps the invariant: only a table_stats session is
\* told, and it had the switch's one answer coming.
LEMMA ErrorInv ==
  ASSUME SessInv, NEW p \in pending, SwitchReportsError(p)
  PROVE  SessInv'
<1> DEFINE s == p.sid
           more == FALSE
<1>1. /\ pending' = (pending \ {p}) \cup (IF more THEN {[p EXCEPT !.parts = @ + 1]} ELSE {})
      /\ UNCHANGED nextXid
      /\ IF p.xid \in DOMAIN m_sessions
         THEN handle_error(p.xid)
         ELSE /\ log' = [log EXCEPT ![s].errored = TRUE]
              /\ UNCHANGED <<m_sessions, objs, m_session_timers, actions_valid, fault>>
  BY DEF SwitchReportsError
<1>2. more \in BOOLEAN
  OBVIOUS
<1>3. /\ BacklogShrinks /\ pending' \subseteq Request /\ \A q \in pending' : q.sid \in Sids
      /\ s \in Sids
      /\ \A q \in pending' : q \in pending /\ q.xid # p.xid
  BY <1>1, <1>2, BacklogLemma
<1>4. log \in Seq(Fate) /\ Len(log) = Len(objs) /\ log[s] \in Fate /\ objs[s] \in SessionObj
      /\ s \in 1 .. Len(log)
  BY <1>3 DEF SessInv, SessTypeOK, Sids
<1>5. CASE p.xid \notin DOMAIN m_sessions
  <2> DEFINE f == [log[s] EXCEPT !.errored = TRUE]
  <2>1. f \in Fate /\ f.answers = log[s].answers /\ f.via = log[s].via
    BY <1>4 DEF Fate
  <2>2. log' = [log EXCEPT ![s] = f]
    BY <1>1, <1>5
  <2>3. UNCHANGED <<m_sessions, objs, m_session_timers, actions_valid, fault>>
    BY <1>1, <1>5
  <2> HIDE DEF f
  <2>4. /\ log' \in Seq(Fate) /\ Len(log') = Len(objs)
        /\ \A i \in Sids : log'[i].answers = log[i].answers /\ log'[i].via = log[i].via
    BY <1>4, <2>1, <2>2, FateLemma DEF Sids
  <2>5. SessTypeOK'
    BY <1>1, <1>3, <2>3, <2>4 DEF SessInv, SessTypeOK, Sids
  <2>6. SameSessions /\ DatabaseShrinks
    BY <2>3, <2>4 DEF SameSessions, DatabaseShrinks
  <2> QED
    BY <1>1, <1>3, <2>3, <2>4, <2>5, <2>6, StepInv
<1>6. ASSUME p.xid \in DOMAIN m_sessions PROVE m_sessions[p.xid] = s /\ handle_error(p.xid)
  BY <1>1, <1>6 DEF SessInv, DatabaseAgrees
<1>7. CASE p.xid \in DOMAIN m_sessions /\ ~objs[s].alive
  <2>1. Crash("use_after_free") /\ UNCHANGED log
    BY <1>6, <1>7 DEF handle_error
  <2>2. SessTypeOK'
    BY <1>1, <1>3, <2>1 DEF Crash, SessInv, SessTypeOK, Sids
  <2>3. SameSessions /\ DatabaseShrinks
    BY <2>1 DEF Crash, SameSessions, DatabaseShrinks
  <2> QED
    BY <1>1, <1>3, <2>1, <2>2, <2>3, StepInv DEF Crash
<1>8. CASE p.xid \in DOMAIN m_sessions /\ objs[s].alive
  <2>1. process_error(s)
    BY <1>6, <1>8 DEF handle_error
  <2> DEFINE done == objs[s].m_completed \/ objs[s].kind \in SingleKinds \cup {"flow_stats"}
             told == IF objs[s].kind = "table_stats" THEN log[s].answers + 1 ELSE log[s].answers
             o    == [objs[s] EXCEPT !.m_completed = done]
             f    == [log[s] EXCEPT !.errored = TRUE, !.answers = told]
  <2>2. objs' = [objs EXCEPT ![s] = o] /\ log' = [log EXCEPT ![s] = f]
        /\ UNCHANGED <<m_sessions, m_session_timers, actions_valid, fault>>
    BY <2>1 DEF process_error
  <2>3. done \in BOOLEAN /\ told \in Nat
    BY <1>4 DEF Fate
  <2>4. objs[s].kind = "table_stats" =>
          log[s].answers = 0 /\ told = 1
    <3>1. ~(log[s].answers > 0)
      BY <1>6, <1>8 DEF SessInv, AnsweredIsOver
    <3> QED
      BY <3>1, <1>4 DEF Fate
  <2>5. objs[s].kind # "table_stats" => told = log[s].answers
    OBVIOUS
  <2> HIDE DEF done, told
  <2>6. o \in SessionObj /\ o.kind = objs[s].kind /\ o.local = objs[s].local
        /\ o.alive = objs[s].alive
    BY <1>4, <2>3 DEF SessionObj
  <2>7. f \in Fate /\ f.answers = told /\ f.via = log[s].via
    BY <1>4, <2>3 DEF Fate
  <2> HIDE DEF o, f
  <2>8. /\ objs' \in Seq(SessionObj) /\ Len(objs') = Len(objs) /\ Sids' = Sids
        /\ \A i \in Sids : /\ objs'[i] = IF i = s THEN o ELSE objs[i]
                           /\ objs'[i].kind = objs[i].kind
                           /\ objs'[i].local = objs[i].local
    BY <1>3, <2>2, <2>6, ObjLemma
  <2>9. /\ log' \in Seq(Fate) /\ Len(log') = Len(objs)
        /\ \A i \in Sids : /\ log'[i].via = log[i].via
                           /\ i # s => log'[i].answers = log[i].answers
                           /\ i = s => log'[i].answers = told
    BY <1>3, <1>4, <2>2, <2>7, FateLemma DEF Sids
  <2>10. SessTypeOK'
    BY <1>1, <1>3, <2>2, <2>8, <2>9 DEF SessInv, SessTypeOK
  <2>11. SameSessions
    BY <2>8, <2>9 DEF SameSessions
  <2>12. DatabaseShrinks
    BY <2>2, <2>6, <2>8 DEF DatabaseShrinks, SessInv, SessTypeOK
  <2>13. objs[s].kind = "table_stats" => RightAnswer(s)
    <3>1. ASSUME objs[s].kind = "table_stats", NEW q \in pending' PROVE q.sid # s
      BY <1>3, <3>1 DEF SessInv, XidsInOrder, SingleKinds
    <3> QED
      BY <1>3, <2>4, <2>9, <3>1 DEF RightAnswer
  <2>14. \A i \in Sids : log'[i].answers = log[i].answers \/ RightAnswer(i)
    BY <2>5, <2>9, <2>13
  <2> QED
    BY <1>1, <1>3, <2>2, <2>10, <2>11, <2>12, <2>14, StepInv
<1> QED
  BY <1>5, <1>7, <1>8

\* A lifetime timer deletes a session of the proxy's own, and no other.
LEMMA TimeoutInv ==
  ASSUME SessInv, NEW s \in Sids, handle_timeout(s)
  PROVE  SessInv'
<1>1. s \in m_session_timers /\ UNCHANGED <<nextXid, pending, log>> /\ objs[s] \in SessionObj
  BY DEF handle_timeout, SessInv, SessTypeOK, Sids
<1>2. BacklogShrinks
  BY <1>1 DEF BacklogShrinks, SessInv, XidsInOrder
<1>3. CASE ~objs[s].alive
  <2>1. Crash("use_after_free")
    BY <1>3 DEF handle_timeout
  <2>2. SessTypeOK'
    BY <1>1, <2>1 DEF Crash, SessInv, SessTypeOK, Sids
  <2>3. SameSessions /\ DatabaseShrinks
    BY <1>1, <2>1 DEF Crash, SameSessions, DatabaseShrinks
  <2> QED
    BY <1>1, <1>2, <2>1, <2>2, <2>3, StepInv DEF Crash
<1>4. CASE objs[s].alive
  <2> DEFINE o == [objs[s] EXCEPT !.alive = FALSE]
  <2>1. /\ m_session_timers' = m_session_timers \ {s}
        /\ objs' = [objs EXCEPT ![s] = o]
        /\ UNCHANGED <<m_sessions, actions_valid, fault>>
    BY <1>4 DEF handle_timeout
  <2>2. o \in SessionObj /\ o.kind = objs[s].kind /\ o.local = objs[s].local /\ o.local
    BY <1>1 DEF SessionObj, SessInv, TimersAreLocal
  <2> HIDE DEF o
  <2>3. /\ objs' \in Seq(SessionObj) /\ Len(objs') = Len(objs) /\ Sids' = Sids
        /\ \A i \in Sids : /\ objs'[i] = IF i = s THEN o ELSE objs[i]
                           /\ objs'[i].kind = objs[i].kind
                           /\ objs'[i].local = objs[i].local
    BY <2>1, <2>2, ObjLemma
  <2>4. SessTypeOK'
    BY <1>1, <2>1, <2>3 DEF SessInv, SessTypeOK
  <2>5. SameSessions /\ DatabaseShrinks
    BY <1>1, <2>1, <2>2, <2>3 DEF SameSessions, DatabaseShrinks, SessInv, SessTypeOK
  <2> QED
    BY <1>1, <1>2, <2>1, <2>4, <2>5, StepInv
<1> QED
  BY <1>3, <1>4

\* The departure of a switch empties its backlog and touches no session.
LEMMA LeaveInv ==
  ASSUME SessInv, NEW d \in Dpts, SwitchLeaves(d)
  PROVE  SessInv'
<1> DEFINE lost(i) == log[i].lost \/ \E p \in pending : p.dpt = d /\ p.sid = i
           f(i)    == [log[i] EXCEPT !.lost = lost(i)]
<1>1. /\ pending' = {p \in pending : p.dpt # d}
      /\ log' = [i \in DOMAIN log |-> f(i)]
      /\ UNCHANGED <<m_sessions, objs, m_session_timers, actions_valid, nextXid, fault>>
  BY DEF SwitchLeaves
<1>2. log \in Seq(Fate) /\ Len(log) = Len(objs) /\ Len(log) \in Nat
      /\ DOMAIN log = Sids /\ \A i \in Sids : log[i] \in Fate
  BY DEF SessInv, SessTypeOK, Sids
<1>3. ASSUME NEW i \in Sids
      PROVE  f(i) \in Fate /\ f(i).answers = log[i].answers /\ f(i).via = log[i].via
  <2> DEFINE b == lost(i)
  <2>1. b \in BOOLEAN
    BY <1>2 DEF Fate
  <2> HIDE DEF b
  <2>2. [log[i] EXCEPT !.lost = b] \in Fate
        /\ [log[i] EXCEPT !.lost = b].answers = log[i].answers
        /\ [log[i] EXCEPT !.lost = b].via = log[i].via
    BY <1>2, <2>1 DEF Fate
  <2> QED
    BY <2>2 DEF b
<1> HIDE DEF f
<1>4. /\ log' \in Seq(Fate) /\ Len(log') = Len(objs)
      /\ \A i \in Sids : log'[i].answers = log[i].answers /\ log'[i].via = log[i].via
  <2>1. /\ log' \in [1 .. Len(log) -> Fate]
        /\ \A i \in Sids : log'[i].answers = log[i].answers /\ log'[i].via = log[i].via
    BY <1>1, <1>2, <1>3 DEF Sids
  <2> QED
    BY <1>2, <2>1
<1>5. SessTypeOK'
  BY <1>1, <1>4 DEF SessInv, SessTypeOK, Sids
<1>6. SameSessions /\ BacklogShrinks /\ DatabaseShrinks
  BY <1>1, <1>4 DEF SameSessions, BacklogShrinks, DatabaseShrinks, SessInv, XidsInOrder
<1> QED
  BY <1>1, <1>4, <1>5, <1>6, StepInv

\* The departure of a controller changes nothing but who is remembered as asking.
LEMMA ControllerInv ==
  ASSUME SessInv, ControllerLeaves
  PROVE  SessInv'
<1> DEFINE f(i) == [log[i] EXCEPT !.asker = NoPeer]
<1>1. /\ log' = [i \in DOMAIN log |-> f(i)]
      /\ UNCHANGED <<m_sessions, objs, m_session_timers, actions_valid, nextXid, pending, fault>>
  BY DEF ControllerLeaves
<1>2. log \in Seq(Fate) /\ Len(log) = Len(objs) /\ Len(log) \in Nat
      /\ DOMAIN log = Sids /\ \A i \in Sids : log[i] \in Fate
  BY DEF SessInv, SessTypeOK, Sids
<1>3. ASSUME NEW i \in Sids
      PROVE  f(i) \in Fate /\ f(i).answers = log[i].answers /\ f(i).via = log[i].via
  BY <1>2 DEF Fate
<1> HIDE DEF f
<1>4. /\ log' \in Seq(Fate) /\ Len(log') = Len(objs)
      /\ \A i \in Sids : log'[i].answers = log[i].answers /\ log'[i].via = log[i].via
  <2>1. /\ log' \in [1 .. Len(log) -> Fate]
        /\ \A i \in Sids : log'[i].answers = log[i].answers /\ log'[i].via = log[i].via
    BY <1>1, <1>2, <1>3 DEF Sids
  <2> QED
    BY <1>2, <2>1
<1>5. SessTypeOK'
  BY <1>1, <1>4 DEF SessInv, SessTypeOK, Sids
<1>6. SameSessions /\ BacklogShrinks /\ DatabaseShrinks
  BY <1>1, <1>4 DEF SameSessions, BacklogShrinks, DatabaseShrinks, SessInv, XidsInOrder
<1> QED
  BY <1>1, <1>4, <1>5, <1>6, StepInv

LEMMA SessInitInv == Init => SessInv
<1> SUFFICES ASSUME Init PROVE SessInv
  OBVIOUS
<1>1. /\ DOMAIN m_sessions = {} /\ pending = {} /\ m_session_timers = {}
      /\ nextXid \in Nat /\ actions_valid = FALSE /\ fault = "none"
  BY DEF Init
<1>2. /\ objs \in Seq(SessionObj) /\ log \in Seq(Fate)
      /\ Len(objs) = 0 /\ Len(log) = 0
  BY DEF Init
<1>3. Sids = {}
  BY <1>2 DEF Sids
<1>4. SessTypeOK
  BY <1>1, <1>2, <1>3 DEF SessTypeOK
<1>5. XidsInOrder /\ DatabaseAgrees /\ AnsweredIsOver /\ TimersAreLocal
  BY <1>1 DEF XidsInOrder, DatabaseAgrees, AnsweredIsOver, TimersAreLocal
<1>6. OnlyLocalSessionsDangle /\ AtMostOneAnswer /\ BarrierWaits
  BY <1>1, <1>3 DEF OnlyLocalSessionsDangle, AtMostOneAnswer, BarrierWaits
<1> QED
  BY <1>4, <1>5, <1>6 DEF SessInv

LEMMA SessNextInv ==
  ASSUME SessInv, ConnTypeOK, [Next]_vars
  PROVE  SessInv'
<1>1. CASE UNCHANGED sessVars
  BY <1>1 DEF sessVars, SessInv, SessTypeOK, XidsInOrder, DatabaseAgrees, AnsweredIsOver,
     TimersAreLocal, OnlyLocalSessionsDangle, AtMostOneAnswer, BarrierWaits, Sids
<1>2. CASE Next
  <2>1. CASE \/ \E k \in Kinds : handle_request(k)
             \/ \E k \in Kinds, n \in 0 .. MaxMatches : handle_flow_request(k, n)
             \/ handle_port_stats_request
             \/ get_supported_actions
    BY <2>1, RequestInv
  <2>2. CASE \E p \in pending : SwitchReplies(p)
    BY <2>2, ReplyInv
  <2>3. CASE \E p \in pending : SwitchReportsError(p)
    BY <2>3, ErrorInv
  <2>4. CASE \E s \in Sids : handle_timeout(s)
    BY <2>4, TimeoutInv
  <2>5. CASE PeerConnects \/ ControllerLeaves
    BY <2>5, <1>1, ControllerInv DEF PeerConnects
  <2>6. CASE \E d \in Dpts : SwitchLeaves(d)
    BY <2>6, LeaveInv
  <2> QED
    BY <1>2, <2>1, <2>2, <2>3, <2>4, <2>5, <2>6 DEF Next
<1> QED
  BY <1>1, <1>2 DEF vars

-----------------------------------------------------------------------------
(***************************************************************************)
(* The theorems                                                            *)
(***************************************************************************)

\* The proxy with its sessions connects and disconnects as Connections says:
\* what is proved of the connections holds here.
THEOREM SessRefinesConn == Spec => ConnSpec
<1>1. Init => ConnInit
  BY DEF Init
<1>2. [Next]_vars => [ConnNext]_connVars
  <2> SUFFICES ASSUME [Next]_vars PROVE [ConnNext]_connVars
    OBVIOUS
  <2>1. CASE PeerConnects \/ ControllerLeaves
    BY <2>1 DEF PeerConnects, ControllerLeaves, ConnNext
  <2>2. CASE \E d \in Dpts : SwitchLeaves(d)
    BY <2>2 DEF SwitchLeaves, SwitchCloses, ConnNext
  <2>3. CASE UNCHANGED connVars
    BY <2>3
  <2> QED
    BY <2>1, <2>2, <2>3 DEF Next, vars, handle_request, handle_flow_request,
       handle_port_stats_request, get_supported_actions, SwitchReplies,
       SwitchReportsError, handle_timeout
<1> QED
  BY <1>1, <1>2, PTL DEF Spec, ConnSpec

\* The session database keeps its invariant.
THEOREM SessInvariance == Spec => []SessInv
<1>1. Spec => []ConnTypeOK
  BY SessRefinesConn, ConnInvariance, PTL DEF ConnInv
<1>2. SessInv /\ ConnTypeOK /\ [Next]_vars => SessInv'
  BY SessNextInv
<1> QED
  BY <1>1, <1>2, SessInitInv, PTL DEF Spec

\* Every variable keeps its type: no entry of m_sessions, no timer and no request
\* of the switch's backlog refers to a session that never was.
THEOREM SessTypes == Spec => []SessTypeOK
  BY SessInvariance, PTL DEF SessInv

\* handle_reply and handle_error dereference a deleted session only if the proxy
\* opened it for itself.
THEOREM SessDangle == Spec => []OnlyLocalSessionsDangle
  BY SessInvariance, PTL DEF SessInv

\* However parts, errors and connections interleave, a request gets one answer.
THEOREM SessAnswers == Spec => []AtMostOneAnswer
  BY SessInvariance, PTL DEF SessInv

\* A barrier is answered when what was asked before it is done.
THEOREM SessBarrier == Spec => []BarrierWaits
  BY SessInvariance, PTL DEF SessInv

-----------------------------------------------------------------------------
(***************************************************************************)
(* Who gets the answers                                                    *)
(***************************************************************************)

\* Whoever is remembered as asking is the controller in use: a controller becomes
\* that when there is none, and none stays remembered when one leaves.
AskerInUse == \A s \in Sids : log[s].asker \in {m_master, NoPeer}

\* A step without a new session that remembers what was remembered.
LEMMA AskersKept ==
  ASSUME AskerInUse, Len(objs') = Len(objs), m_master' = m_master \/ m_master = NoPeer,
         \A s \in Sids : log'[s].asker = log[s].asker
  PROVE  AskerInUse'
  BY DEF AskerInUse, Sids

\* A new session is remembered with the controller in use, or with none.
LEMMA NewAsker ==
  ASSUME AskerInUse, SessTypeOK, NEW o, NEW n, NEW xids, NEW answers,
         NewSession(o, n, xids, answers), UNCHANGED m_master
  PROVE  AskerInUse'
<1>1. log \in Seq(Fate) /\ Len(log) = Len(objs) /\ Len(log) \in Nat
  BY DEF SessTypeOK
<1>2. PICK f : log' = Append(log, f) /\ f.asker \in {m_master, NoPeer}
  BY DEF NewSession
<1>3. objs' = Append(objs, o) /\ objs \in Seq(SessionObj)
  BY DEF NewSession, SessTypeOK
<1>4. Len(objs') = Len(objs) + 1
  BY <1>3
<1>5. /\ \A i \in 1 .. Len(log) : log'[i] = log[i]
      /\ log'[Len(log) + 1] = f
  BY <1>1, <1>2
<1>6. \A i \in Sids' : i \in Sids \/ i = Len(log) + 1
  BY <1>1, <1>4 DEF Sids
<1> QED
  BY <1>1, <1>2, <1>5, <1>6 DEF AskerInUse, Sids

\* A reply or an error changes of a session's fate all but the asker.
LEMMA AnswerKeepsAsker ==
  ASSUME SessTypeOK, NEW p \in pending, SwitchReplies(p) \/ SwitchReportsError(p)
  PROVE  Len(objs') = Len(objs) /\ \A s \in Sids : log'[s].asker = log[s].asker
<1> DEFINE t == IF p.xid \in DOMAIN m_sessions THEN m_sessions[p.xid] ELSE p.sid
<1>1. /\ objs \in Seq(SessionObj) /\ log \in Seq(Fate) /\ Len(log) = Len(objs)
      /\ DOMAIN log = Sids /\ p.sid \in Sids /\ t \in Sids
      /\ \A i \in Sids : log[i] \in Fate
  BY DEF SessTypeOK, Sids
<1>2. CASE SwitchReplies(p)
  <2>1. PICK more \in BOOLEAN :
          LET fate == [log[p.sid] EXCEPT !.split = @ \/ more, !.lost = @ \/ ~Connected]
              seen == [log EXCEPT ![p.sid] = fate]
          IN  IF Connected /\ p.xid \in DOMAIN m_sessions
              THEN handle_reply(p.xid, seen)
              ELSE log' = seen /\ UNCHANGED objs
    BY <1>2 DEF SwitchReplies
  <2> DEFINE fate == [log[p.sid] EXCEPT !.split = @ \/ more, !.lost = @ \/ ~Connected]
             seen == [log EXCEPT ![p.sid] = fate]
  <2>2. fate.asker = log[p.sid].asker
    BY <1>1 DEF Fate
  <2>3. DOMAIN seen = Sids /\ \A i \in Sids : seen[i].asker = log[i].asker
    BY <1>1, <2>2
  <2>4. \/ Connected /\ p.xid \in DOMAIN m_sessions /\ handle_reply(p.xid, seen)
        \/ log' = seen /\ UNCHANGED objs
    BY <2>1
  <2>5. \/ log' = seen
        \/ \E b \in BOOLEAN :
             log' = [seen EXCEPT ![t] = [seen[t] EXCEPT !.answers = @ + 1, !.blank = @ \/ b]]
    BY <2>4 DEF handle_reply, process_reply, Finish, CountDown
  <2>6. Len(objs') = Len(objs)
    BY <1>1, <2>4 DEF handle_reply, process_reply, Finish, CountDown, Crash
  <2> HIDE DEF seen
  <2>7. ASSUME NEW b \in BOOLEAN,
               log' = [seen EXCEPT ![t] = [seen[t] EXCEPT !.answers = @ + 1, !.blank = @ \/ b]]
        PROVE  \A i \in Sids : log'[i].asker = seen[i].asker
    BY <1>1, <2>3, <2>7
  <2> QED
    BY <2>3, <2>5, <2>6, <2>7
<1>3. CASE SwitchReportsError(p)
  <2>1. \/ UNCHANGED <<objs, log>>
        \/ UNCHANGED objs /\ log' = [log EXCEPT ![p.sid].errored = TRUE]
        \/ process_error(t)
    BY <1>3 DEF SwitchReportsError, handle_error, Crash
  <2>2. CASE UNCHANGED objs /\ log' = [log EXCEPT ![p.sid].errored = TRUE]
    BY <1>1, <2>2 DEF Fate
  <2>3. CASE process_error(t)
    <3>1. Len(objs') = Len(objs)
      BY <1>1, <2>3 DEF process_error
    <3>2. PICK n \in {log[t].answers, log[t].answers + 1} :
            log' = [log EXCEPT ![t] = [log[t] EXCEPT !.errored = TRUE, !.answers = n]]
      BY <2>3 DEF process_error
    <3> QED
      BY <1>1, <3>1, <3>2 DEF Fate
  <2> QED
    BY <2>1, <2>2, <2>3
<1> QED
  BY <1>2, <1>3

\* No step leaves a request remembered with a controller that is not in use.
LEMMA AskerNext ==
  ASSUME SessInv, ConnInv, AskerInUse, [Next]_vars
  PROVE  AskerInUse'
<1> SessTypeOK
  BY DEF SessInv
<1>1. CASE \/ \E k \in Kinds : handle_request(k)
           \/ \E k \in Kinds, n \in 0 .. MaxMatches : handle_flow_request(k, n)
           \/ get_supported_actions
  BY <1>1, NewAsker DEF handle_request, handle_flow_request, get_supported_actions, connVars
<1>2. CASE handle_port_stats_request
  <2>1. CASE UNCHANGED <<objs, log, m_master>>
    BY <2>1, AskersKept
  <2>2. CASE \E o, n : NewSession(o, n, {}, 0) /\ UNCHANGED m_master
    BY <2>2, NewAsker
  <2> QED
    BY <1>2, <2>1, <2>2 DEF handle_port_stats_request, Crash, connVars
<1>3. CASE \E p \in pending : SwitchReplies(p) \/ SwitchReportsError(p)
  <2>1. UNCHANGED m_master
    BY <1>3 DEF SwitchReplies, SwitchReportsError, connVars
  <2> QED
    BY <1>3, <2>1, AnswerKeepsAsker, AskersKept
<1>4. ASSUME NEW t \in Sids, handle_timeout(t) PROVE AskerInUse'
  <2>1. UNCHANGED <<log, m_master>>
    BY <1>4 DEF handle_timeout, connVars
  <2>2. Len(objs') = Len(objs)
    BY <1>4 DEF handle_timeout, Crash, SessTypeOK
  <2> QED
    BY <2>1, <2>2, AskersKept
<1>5. CASE PeerConnects
  BY <1>5, AskersKept DEF PeerConnects, sessVars, SwitchOpens, ControllerOpens,
     handle_dpath_open, handle_ctrl_open
<1>6. CASE ControllerLeaves
  <2>1. DOMAIN log = Sids /\ \A i \in Sids : log[i] \in Fate
    BY DEF SessTypeOK, Sids
  <2>2. \A i \in Sids : log'[i].asker = NoPeer
    BY <1>6, <2>1 DEF ControllerLeaves, Fate
  <2> QED
    BY <1>6, <2>2 DEF ControllerLeaves, AskerInUse, Sids
<1>7. ASSUME NEW d \in Dpts, SwitchLeaves(d) PROVE AskerInUse'
  <2>1. UNCHANGED <<objs, m_master>>
    BY <1>7 DEF SwitchLeaves, handle_dpath_close
  <2>2. DOMAIN log = Sids /\ \A i \in Sids : log[i] \in Fate
    BY DEF SessTypeOK, Sids
  <2>3. \A i \in Sids : log'[i].asker = log[i].asker
    BY <1>7, <2>2 DEF SwitchLeaves, Fate
  <2> QED
    BY <2>1, <2>3, AskersKept
<1>8. CASE UNCHANGED vars
  BY <1>8, AskersKept DEF vars, sessVars, connVars
<1> QED
  BY <1>1, <1>2, <1>3, <1>4, <1>5, <1>6, <1>7, <1>8 DEF Next

\* However controllers and switches come and go between a request and its answer,
\* the answer does not go to a controller that did not ask.
THEOREM SessAnswersGoToTheAsker == Spec => AnswersGoToTheAsker
<1>1. Init => AskerInUse
  BY DEF Init, AskerInUse, Sids
<1>2. Spec => []ConnInv
  BY SessRefinesConn, ConnInvariance, PTL
<1>3. SessInv /\ ConnInv /\ AskerInUse /\ [Next]_vars => AskerInUse'
  BY AskerNext
<1>4. Spec => []AskerInUse
  BY <1>1, <1>2, <1>3, SessInvariance, PTL DEF Spec
<1>5. AskerInUse /\ [Next]_vars
      => [\A s \in Sids : log'[s].answers > log[s].answers =>
             log[s].asker \in {m_master, NoPeer}]_vars
  BY DEF AskerInUse
<1> QED
  BY <1>4, <1>5, PTL DEF Spec, AnswersGoToTheAsker

-----------------------------------------------------------------------------
(***************************************************************************)
(* What the switch owes to a session                                       *)
(***************************************************************************)
OwedTo(s)  == {p \in pending : p.sid = s}
Entries(s) == {x \in DOMAIN m_sessions : m_sessions[x] = s}

\* An aggregate waits for no fewer replies than the switch owes it, unless parts
\* were counted as replies; a registered session waits for no more, unless an
\* error or a connection cost it some.  All it waits for would find it.
SessionCounted(s) ==
    /\ objs[s].kind = "aggregate_stats" /\ ~log[s].split =>
         /\ Cardinality(OwedTo(s)) <= objs[s].outstanding_replies
         /\ log[s].answers > 0 => OwedTo(s) = {}
    /\ Running /\ Entries(s) # {} =>
         \/ log[s].errored \/ log[s].lost
         \/ OwedTo(s) # {} /\ objs[s].outstanding_replies <= Cardinality(OwedTo(s))
    /\ Entries(s) # {} => \A p \in OwedTo(s) : p.xid \in Entries(s)

Counted == IsFiniteSet(pending) /\ \A s \in Sids : SessionCounted(s)

\* A session of which the step changes nothing that is counted.
LEMMA CountKept ==
  ASSUME NEW s, SessionCounted(s), Running,
         objs'[s].kind = objs[s].kind,
         objs'[s].outstanding_replies = objs[s].outstanding_replies,
         log'[s].split = log[s].split, log'[s].answers = log[s].answers,
         log'[s].errored = log[s].errored, log'[s].lost = log[s].lost,
         OwedTo(s)' = OwedTo(s), Entries(s)' = Entries(s)
  PROVE  SessionCounted(s)'
<1> HIDE DEF OwedTo, Entries
<1> QED
  BY DEF SessionCounted

\* The new session waits for what it asked.
LEMMA NewCounted ==
  ASSUME SessInv, Counted, Running,
         NEW o \in SessionObj, NEW n \in Nat, NEW a \in 0 .. 1,
         NEW xids \in {{}, nextXid .. nextXid + n - 1},
         o.outstanding_replies <= n,
         o.kind = "aggregate_stats" => o.outstanding_replies = n,
         a = 1 => n = 0,
         NewSession(o, n, xids, a)
  PROVE  Counted'
<1>0. PICK f : /\ log' = Append(log, f)
               /\ f.answers = a /\ ~f.errored /\ ~f.lost /\ ~f.split
  BY DEF NewSession
<1>s. PICK s \in Nat : s = Len(objs) + 1
  BY DEF SessInv, SessTypeOK
<1> DEFINE I == nextXid .. nextXid + n - 1
           req(x) == [xid |-> x, dpt |-> m_slave, sid |-> s, parts |-> 0]
           new == {req(x) : x \in I}
<1>1. /\ objs \in Seq(SessionObj) /\ log \in Seq(Fate) /\ Len(log) = Len(objs)
      /\ Len(objs) \in Nat /\ nextXid \in Nat /\ \A p \in pending : p.sid \in Sids
      /\ \A x \in DOMAIN m_sessions : m_sessions[x] \in Sids /\ x < nextXid /\ x \in Nat
      /\ \A i \in Sids : i \in Nat /\ i < s
  BY <1>s DEF SessInv, SessTypeOK, DatabaseAgrees, Sids
<1>2. /\ Len(objs') = s /\ \A i \in Sids : objs'[i] = objs[i]
      /\ objs'[s] = o
  BY <1>1, <1>s, AppendProperties DEF NewSession, Sids
<1>3. /\ \A i \in Sids : log'[i] = log[i]
      /\ log'[s] = f
  BY <1>0, <1>1, <1>s DEF Sids
<1>4. /\ DOMAIN m_sessions' = DOMAIN m_sessions \cup xids
      /\ \A x \in DOMAIN m_sessions' :
           m_sessions'[x] = IF x \in xids THEN s ELSE m_sessions[x]
  BY <1>s DEF NewSession, associate_xid
<1>5. pending' = pending \cup new
  BY <1>s DEF NewSession
<1>6. IsFiniteSet(new) /\ Cardinality(new) = n
  <2> DEFINE g == [x \in I |-> req(x)]
  <2>1. IsFiniteSet(I) /\ Cardinality(I) = n
    <3> DEFINE b == nextXid + n - 1
    <3>1. nextXid \in Int /\ b \in Int /\ (IF nextXid > b THEN 0 ELSE b - nextXid + 1) = n
      BY <1>1
    <3> HIDE DEF b
    <3>2. IsFiniteSet(nextXid .. b) /\ Cardinality(nextXid .. b) = n
      BY <3>1, FS_Interval
    <3> QED
      BY <3>2 DEF b
  <2>2. g \in Bijection(I, new)
    BY Fun_IsBij DEF Bijection, Injection, Surjection, IsInjective
  <2>3. ExistsBijection(I, new)
    BY <2>2 DEF ExistsBijection
  <2> HIDE DEF I, new
  <2> QED
    BY <2>1, <2>3, FS_Bijection
<1>7. IsFiniteSet(pending')
  BY <1>5, <1>6, FS_Union DEF Counted
<1>8. ASSUME NEW i \in Sids PROVE SessionCounted(i)'
  <2>0. i # s /\ \A p \in new : p.sid = s
    BY <1>1
  <2>1. OwedTo(i)' = OwedTo(i)
    <3> HIDE DEF new
    <3> QED
      BY <2>0, <1>5 DEF OwedTo
  <2>2. Entries(i)' = Entries(i)
    <3>1. \A x \in DOMAIN m_sessions : x \notin xids
      BY <1>1
    <3> QED
      BY <2>0, <3>1, <1>4 DEF Entries
  <2> QED
    BY <2>1, <2>2, <1>2, <1>3, CountKept DEF Counted
<1>9. SessionCounted(s)'
  <2>0. /\ \A p \in new : p.sid = s
        /\ \A p \in pending : p.sid # s
        /\ \A x \in DOMAIN m_sessions : m_sessions[x] # s
    BY <1>1
  <2>1. OwedTo(s)' = new
    <3> HIDE DEF new
    <3> QED
      BY <2>0, <1>5 DEF OwedTo
  <2>2. Entries(s)' = xids
    <3> HIDE DEF new
    <3> QED
      BY <2>0, <1>4 DEF Entries
  <2>3. new = {} <=> n = 0
    BY <1>6, FS_EmptySet
  <2>4. \A p \in new : p.xid \in I
    OBVIOUS
  <2>5. xids = {} \/ (xids = I /\ n # 0)
    BY <1>1
  <2>6. o.outstanding_replies \in Int
    BY DEF SessionObj
  <2>7. /\ OwedTo(s)' = new /\ Entries(s)' = xids /\ objs'[s] = o
        /\ log'[s].answers = a /\ ~log'[s].split
    BY <2>1, <2>2, <1>0, <1>2, <1>3
  <2> HIDE DEF new, I
  <2> QED
    BY <2>3, <2>4, <2>5, <2>6, <2>7, <1>6 DEF SessionCounted
<1>10. \A i \in Sids' : i \in Sids \/ i = s
  BY <1>1, <1>2, <1>s DEF Sids
<1> QED
  BY <1>7, <1>8, <1>9, <1>10 DEF Counted

\* The actions that make a session make it as NewCounted asks.
LEMMA RequestCounted ==
  ASSUME SessInv, Counted,
         \/ \E k \in Kinds : handle_request(k)
         \/ \E k \in Kinds, n \in 0 .. MaxMatches : handle_flow_request(k, n)
         \/ handle_port_stats_request
         \/ get_supported_actions
  PROVE  Counted'
<1> DEFINE completed(k) == [Session(k) EXCEPT !.m_completed = TRUE]
           local(k, b)  == [Session(k) EXCEPT !.local = TRUE, !.alive = b]
<1>0. /\ {nextXid} \in {{}, nextXid .. nextXid + 1 - 1}
      /\ 0 \in 0 .. 1 /\ 1 \in 0 .. 1 /\ 0 \in Nat /\ 1 \in Nat /\ 0 # 1
  BY DEF SessInv, SessTypeOK
<1>1. ASSUME NEW k \in AllKinds
      PROVE  \A o \in {Session(k), completed(k)} \cup {local(k, b) : b \in BOOLEAN} :
               /\ o \in SessionObj /\ o.kind = k
               /\ o.outstanding_replies = 0 /\ 0 <= 0 /\ 0 <= 1
  <2>1. Session(k) \in SessionObj /\ Session(k).kind = k /\ Session(k).outstanding_replies = 0
    BY <1>1 DEF Session, SessionObj
  <2>2. /\ completed(k) \in SessionObj /\ completed(k).kind = k
        /\ completed(k).outstanding_replies = 0
    BY <2>1 DEF SessionObj
  <2>3. ASSUME NEW b \in BOOLEAN
        PROVE  /\ local(k, b) \in SessionObj /\ local(k, b).kind = k
               /\ local(k, b).outstanding_replies = 0
    BY <2>1 DEF SessionObj
  <2>4. 0 <= 0 /\ 0 <= 1
    OBVIOUS
  <2> HIDE DEF completed, local
  <2> QED
    BY <2>1, <2>2, <2>3, <2>4
<1> HIDE DEF completed, local
<1>2. ASSUME NEW k \in Kinds, handle_request(k) PROVE Counted'
  <2>1. k \in AllKinds /\ k # "aggregate_stats" /\ Running
    BY <1>2, SessionsAssumption DEF handle_request, MayRequest, SingleKinds
  <2>2. NewSession(Session(k), 1, {nextXid}, 0)
    BY <1>2 DEF handle_request
  <2>3. Session(k) \in SessionObj /\ Session(k).kind = k /\ Session(k).outstanding_replies <= 1
    BY <1>1, <2>1
  <2> QED
    BY <1>0, <2>1, <2>2, <2>3, NewCounted
<1>3. ASSUME NEW k \in Kinds, NEW n \in 0 .. MaxMatches, handle_flow_request(k, n)
      PROVE  Counted'
  <2>1. k \in AllKinds /\ Running /\ n \in Nat
    BY <1>3, SessionsAssumption DEF handle_flow_request, MayRequest
  <2>2. CASE n = 0
    <3>1. NewSession(completed(k), 0, {}, 1)
      BY <1>3, <2>2 DEF handle_flow_request, completed
    <3>2. /\ completed(k) \in SessionObj /\ completed(k).outstanding_replies <= 0
          /\ completed(k).outstanding_replies = 0 /\ {} \in {{}, nextXid .. nextXid + 0 - 1}
      BY <1>1, <2>1
    <3> QED
      BY <1>0, <2>1, <3>1, <3>2, NewCounted
  <2>3. CASE n # 0
    <3> DEFINE o == FlowSession(k, n)
               X == nextXid .. nextXid + n - 1
    <3>1. NewSession(o, n, X, 0) /\ X \in {{}, nextXid .. nextXid + n - 1}
      BY <1>3, <2>3 DEF handle_flow_request
    <3>2. /\ o \in SessionObj /\ o.kind = k
          /\ o.outstanding_replies = IF k = "aggregate_stats" THEN n ELSE 0
      <4>1. Session(k) \in SessionObj /\ Session(k).kind = k
        BY <2>1, <1>1
      <4> QED
        BY <2>1, <4>1 DEF FlowSession, SessionObj
    <3> HIDE DEF o, X
    <3>3. o.outstanding_replies <= n /\ (o.kind = "aggregate_stats" => o.outstanding_replies = n)
      BY <2>1, <3>2
    <3> QED
      BY <1>0, <2>1, <3>1, <3>2, <3>3, NewCounted
  <2> QED
    BY <2>2, <2>3
<1>4. ASSUME handle_port_stats_request PROVE Counted'
  <2> DEFINE sends == IF port_config_handling = "passthrough" THEN 1 ELSE 0
             o     == completed("port_stats")
  <2>1. CASE NewSession(o, sends, {}, 0)
    <3>1. o \in SessionObj /\ o.kind # "aggregate_stats" /\ o.outstanding_replies = 0
      BY <1>1 DEF AllKinds
    <3>2. Running /\ sends \in Nat /\ {} \in {{}, nextXid .. nextXid + sends - 1}
      BY <1>4 DEF handle_port_stats_request, MayRequest
    <3>3. o.outstanding_replies <= sends
      BY <3>1
    <3> HIDE DEF o, sends
    <3> QED
      BY <1>0, <2>1, <3>1, <3>2, <3>3, NewCounted
  <2>2. CASE UNCHANGED <<pending, log>> /\ \E f \in {fault, "assertion", "out_of_range"} : Crash(f)
    BY <2>2 DEF Crash, Counted, SessionCounted, OwedTo, Entries, Running, Sids
  <2> QED
    BY <1>4, <2>1, <2>2 DEF handle_port_stats_request, completed
<1>5. ASSUME get_supported_actions PROVE Counted'
  <2> DEFINE o == local("features", free_timer_slot)
  <2>1. NewSession(o, 1, {nextXid}, 0) /\ Running
    BY <1>5 DEF get_supported_actions, MayRequest, local
  <2>2. o \in SessionObj /\ o.kind # "aggregate_stats" /\ o.outstanding_replies = 0
    <3>1. free_timer_slot \in BOOLEAN /\ "features" \in AllKinds
      BY DEF AllKinds, SingleKinds, free_timer_slot
    <3> QED
      BY <3>1, <1>1
  <2>3. o.outstanding_replies <= 1
    BY <2>2
  <2> HIDE DEF o
  <2> QED
    BY <2>1, <2>2, <2>3, <1>0, NewCounted
<1> QED
  BY <1>2, <1>3, <1>4, <1>5

\* What an answer of the switch to request p does to what it owes.
LEMMA OwedLemma ==
  ASSUME SessInv, Counted, NEW p \in pending, NEW more \in BOOLEAN,
         pending' = (pending \ {p}) \cup (IF more THEN {[p EXCEPT !.parts = @ + 1]} ELSE {})
  PROVE  /\ IsFiniteSet(pending')
         /\ \A i : i # p.sid => OwedTo(i)' = OwedTo(i)
         /\ \A q \in OwedTo(p.sid)' : \E r \in OwedTo(p.sid) : r.xid = q.xid
         /\ Cardinality(OwedTo(p.sid)') \in Nat /\ Cardinality(OwedTo(p.sid)) \in Nat
         /\ Cardinality(OwedTo(p.sid)')
               = IF more THEN Cardinality(OwedTo(p.sid)) ELSE Cardinality(OwedTo(p.sid)) - 1
         /\ OwedTo(p.sid)' = {} <=> Cardinality(OwedTo(p.sid)') = 0
         /\ OwedTo(p.sid) # {}
<1> DEFINE p1   == [p EXCEPT !.parts = @ + 1]
           A    == OwedTo(p.sid)
           B    == A \ {p}
<1>1. p \in Request
  BY DEF SessInv, SessTypeOK
<1>2. p1.sid = p.sid /\ p1.xid = p.xid /\ p1.parts # p.parts
  BY <1>1 DEF Request
<1>3. ASSUME NEW q \in pending, q.xid = p.xid PROVE q = p
  BY <1>3 DEF SessInv, XidsInOrder
<1>4. p1 \notin pending
  BY <1>2, <1>3
<1>5. p \in A
  BY DEF OwedTo
<1>6. IsFiniteSet(A)
  BY FS_Subset DEF Counted, OwedTo
<1>7. OwedTo(p.sid)' = IF more THEN B \cup {p1} ELSE B
  BY <1>2 DEF OwedTo
<1>8. p1 \notin B
  BY <1>4 DEF OwedTo
<1>9. \A i : i # p.sid => OwedTo(i)' = OwedTo(i)
  BY <1>2 DEF OwedTo
<1>10. \A q \in OwedTo(p.sid)' : \E r \in OwedTo(p.sid) : r.xid = q.xid
  BY <1>2, <1>5, <1>7
<1>11. IsFiniteSet(pending')
  <2>1. IsFiniteSet(pending \ {p})
    BY FS_RemoveElement DEF Counted
  <2>2. IsFiniteSet((pending \ {p}) \cup {p1})
    BY <2>1, FS_AddElement
  <2>3. pending' = pending \ {p} \/ pending' = (pending \ {p}) \cup {p1}
    OBVIOUS
  <2> HIDE DEF p1
  <2> QED
    BY <2>1, <2>2, <2>3
<1> HIDE DEF p1, A
<1>12. IsFiniteSet(B) /\ Cardinality(B) = Cardinality(A) - 1
  BY <1>5, <1>6, FS_RemoveElement
<1> HIDE DEF B
<1>13. Cardinality(A) \in Nat /\ Cardinality(B) \in Nat
  BY <1>6, <1>12, FS_CardinalityType
<1>14. IsFiniteSet(B \cup {p1}) /\ Cardinality(B \cup {p1}) = Cardinality(A)
  BY <1>8, <1>12, <1>13, FS_AddElement
<1>15. /\ IsFiniteSet(OwedTo(p.sid)') /\ Cardinality(OwedTo(p.sid)') \in Nat
       /\ Cardinality(OwedTo(p.sid)') = IF more THEN Cardinality(A) ELSE Cardinality(A) - 1
  BY <1>7, <1>12, <1>13, <1>14
<1>16. OwedTo(p.sid)' = {} <=> Cardinality(OwedTo(p.sid)') = 0
  BY <1>15, FS_EmptySet
<1> QED
  BY <1>5, <1>9, <1>10, <1>11, <1>13, <1>15, <1>16 DEF A

\* A request is settled, and its session neither waits for less nor is answered.
LEMMA OwedLess ==
  ASSUME NEW s \in Sids, SessionCounted(s),
         objs[s] \in SessionObj, log[s] \in Fate,
         objs'[s].kind = objs[s].kind,
         objs'[s].outstanding_replies = objs[s].outstanding_replies,
         log[s].split => log'[s].split,
         objs[s].kind = "aggregate_stats" => log'[s].answers = log[s].answers,
         Entries(s)' = Entries(s),
         OwedTo(s) # {},
         \A q \in OwedTo(s)' : \E r \in OwedTo(s) : r.xid = q.xid,
         Cardinality(OwedTo(s)) \in Nat, Cardinality(OwedTo(s)') \in Nat,
         Cardinality(OwedTo(s)') <= Cardinality(OwedTo(s)),
         ~Running' \/ log'[s].errored \/ log'[s].lost \/ Entries(s) = {}
  PROVE  SessionCounted(s)'
<1>1. objs[s].outstanding_replies \in Int /\ log[s].answers \in Nat
  BY DEF SessionObj, Fate
<1> HIDE DEF OwedTo, Entries
<1>2. ASSUME objs'[s].kind = "aggregate_stats", ~log'[s].split
      PROVE  /\ Cardinality(OwedTo(s)') <= objs'[s].outstanding_replies
             /\ ~(log'[s].answers > 0)
  BY <1>1, <1>2 DEF SessionCounted
<1>3. Entries(s)' # {} => \A q \in OwedTo(s)' : q.xid \in Entries(s)'
  BY DEF SessionCounted
<1> QED
  BY <1>2, <1>3 DEF SessionCounted

\* A reply is counted by the session that waits for it.
LEMMA ReplyCounted ==
  ASSUME SessInv, Counted, NEW p \in pending, SwitchReplies(p)
  PROVE  Counted'
<1>1. PICK more \in BOOLEAN :
        LET fate == [log[p.sid] EXCEPT !.split = @ \/ more, !.lost = @ \/ ~Connected]
            seen == [log EXCEPT ![p.sid] = fate]
        IN  /\ pending' = (pending \ {p}) \cup (IF more THEN {[p EXCEPT !.parts = @ + 1]} ELSE {})
            /\ IF Connected /\ p.xid \in DOMAIN m_sessions
               THEN handle_reply(p.xid, seen)
               ELSE /\ log' = seen
                    /\ UNCHANGED <<m_sessions, objs, m_session_timers, actions_valid, fault>>
  BY DEF SwitchReplies
<1>s. PICK s \in Sids : s = p.sid
  BY DEF SessInv, SessTypeOK
<1> DEFINE f    == [log[s] EXCEPT !.split = @ \/ more, !.lost = @ \/ ~Connected]
           seen == [log EXCEPT ![s] = f]
<1>2. Running
  BY DEF SwitchReplies
<1>3. /\ IsFiniteSet(pending')
      /\ \A i : i # s => OwedTo(i)' = OwedTo(i)
      /\ \A q \in OwedTo(s)' : \E r \in OwedTo(s) : r.xid = q.xid
      /\ Cardinality(OwedTo(s)') \in Nat /\ Cardinality(OwedTo(s)) \in Nat
      /\ Cardinality(OwedTo(s)')
            = IF more THEN Cardinality(OwedTo(s)) ELSE Cardinality(OwedTo(s)) - 1
      /\ OwedTo(s)' = {} <=> Cardinality(OwedTo(s)') = 0
      /\ OwedTo(s) # {}
  BY <1>1, <1>s, OwedLemma
<1>4. /\ DOMAIN log = Sids /\ log[s] \in Fate
      /\ objs \in Seq(SessionObj) /\ objs[s] \in SessionObj /\ DOMAIN objs = Sids
      /\ s \in 1 .. Len(objs)
  BY DEF SessInv, SessTypeOK, Sids
<1>5. /\ DOMAIN seen = Sids /\ seen[s] = f
      /\ \A i \in Sids : i # s => seen[i] = log[i]
      /\ f.split = (log[s].split \/ more) /\ f.lost = (log[s].lost \/ ~Connected)
      /\ f.answers = log[s].answers /\ f.errored = log[s].errored
  BY <1>4 DEF Fate
<1>6. IF Connected /\ p.xid \in DOMAIN m_sessions
      THEN handle_reply(p.xid, seen)
      ELSE log' = seen /\ UNCHANGED <<m_sessions, objs, fault>>
  BY <1>1, <1>s
<1>7. p \in OwedTo(s)
  BY <1>s DEF OwedTo
<1>8. Entries(s) # {} => p.xid \in DOMAIN m_sessions
  BY <1>7 DEF Counted, SessionCounted, Entries
<1>9. p.xid \in DOMAIN m_sessions => m_sessions[p.xid] = s
  BY <1>s DEF SessInv, DatabaseAgrees
<1> HIDE DEF f, seen, OwedTo
<1>10. SessionCounted(s)
  BY DEF Counted
<1>11. CASE /\ log' = seen /\ UNCHANGED <<m_sessions, objs>>
            /\ ~Running' \/ ~Connected \/ p.xid \notin DOMAIN m_sessions
  <2>1. ASSUME NEW i PROVE Entries(i)' = Entries(i)
    BY <1>11 DEF Entries
  <2>2. ~Running' \/ log'[s].errored \/ log'[s].lost \/ Entries(s) = {}
    BY <1>5, <1>8, <1>11
  <2>3. Cardinality(OwedTo(s)') <= Cardinality(OwedTo(s))
    BY <1>3
  <2>4. log[s].split => log'[s].split
    BY <1>5, <1>11
  <2>5. log'[s].answers = log[s].answers /\ objs' = objs
    BY <1>5, <1>11
  <2> HIDE DEF Entries
  <2>6. SessionCounted(s)'
    BY <1>3, <1>4, <1>10, <2>1, <2>2, <2>3, <2>4, <2>5, OwedLess
  <2>7. ASSUME NEW i \in Sids, i # s PROVE SessionCounted(i)'
    BY <1>2, <1>3, <1>5, <1>11, <2>1, <2>7, CountKept DEF Counted
  <2>8. Sids' = Sids
    BY <1>11 DEF Sids
  <2> QED
    BY <1>3, <2>6, <2>7, <2>8 DEF Counted
<1>12. CASE Connected /\ p.xid \in DOMAIN m_sessions /\ process_reply(s, p.xid, seen)
  <2> DEFINE collected == IF p.xid \in objs[s].reply_xid THEN objs[s].replies + 1 ELSE objs[s].replies
  <2>0. /\ objs[s].outstanding_replies \in Int /\ log[s].answers \in Nat
        /\ p.xid \in Entries(s)
    BY <1>4, <1>9, <1>12 DEF SessionObj, Fate, Entries
  <2>c. Running' => log[s].errored \/ log[s].lost
                    \/ objs[s].outstanding_replies <= Cardinality(OwedTo(s))
    BY <1>2, <1>10, <2>0 DEF SessionCounted
  <2>a. objs[s].kind = "aggregate_stats" /\ ~log[s].split =>
          Cardinality(OwedTo(s)) <= objs[s].outstanding_replies /\ log[s].answers = 0
    BY <1>3, <1>10, <2>0 DEF SessionCounted
  <2> HIDE DEF collected
  <2>1. CASE CountDown(s, collected, seen) /\ objs[s].outstanding_replies - 1 > 0
    <3>1. /\ DOMAIN objs' = Sids
          /\ objs'[s].kind = objs[s].kind
          /\ objs'[s].outstanding_replies = objs[s].outstanding_replies - 1
          /\ \A i \in Sids : i # s => objs'[i] = objs[i]
      BY <1>4, <2>1 DEF CountDown, SessionObj
    <3>2. log' = seen /\ UNCHANGED m_sessions
      BY <2>1 DEF CountDown
    <3>3. ASSUME NEW i PROVE Entries(i)' = Entries(i)
      BY <3>2 DEF Entries
    <3>4. ASSUME NEW i \in Sids, i # s PROVE SessionCounted(i)'
      BY <1>2, <1>3, <1>5, <3>1, <3>2, <3>3, <3>4, CountKept DEF Counted
    <3> HIDE DEF Entries
    <3>5. SessionCounted(s)'
      <4>1. ASSUME objs'[s].kind = "aggregate_stats", ~log'[s].split
            PROVE  /\ Cardinality(OwedTo(s)') <= objs'[s].outstanding_replies
                   /\ ~(log'[s].answers > 0)
        <5>1. ~more /\ ~log[s].split /\ objs[s].kind = "aggregate_stats"
          BY <4>1, <1>5, <3>1, <3>2
        <5>2. log'[s].answers = log[s].answers
          BY <1>5, <3>2
        <5>3. Cardinality(OwedTo(s)) <= objs[s].outstanding_replies /\ log[s].answers = 0
          BY <5>1, <2>a
        <5> HIDE DEF OwedTo
        <5> QED
          BY <5>1, <5>2, <5>3, <1>3, <2>0, <3>1
      <4>2. ASSUME Running' PROVE
              \/ log'[s].errored \/ log'[s].lost
              \/ OwedTo(s)' # {} /\ objs'[s].outstanding_replies <= Cardinality(OwedTo(s)')
        <5>1. CASE log[s].errored \/ log[s].lost
          BY <5>1, <1>5, <3>2
        <5>2. CASE objs[s].outstanding_replies <= Cardinality(OwedTo(s))
          BY <5>2, <1>3, <2>0, <2>1, <3>1
        <5> QED
          BY <4>2, <5>1, <5>2, <2>c
      <4>3. \A q \in OwedTo(s)' : q.xid \in Entries(s)'
        BY <1>3, <1>10, <2>0, <3>3 DEF SessionCounted
      <4> QED
        BY <4>1, <4>2, <4>3 DEF SessionCounted
    <3>6. Sids' = Sids
      BY <1>4, <2>1 DEF CountDown, Sids
    <3> QED
      BY <1>3, <3>4, <3>5, <3>6 DEF Counted
  <2>2. CASE /\ Finish(s, collected, seen)
             /\ objs[s].kind \in FlowKinds => ~(objs[s].outstanding_replies - 1 > 0)
    <3> DEFINE blank == objs[s].kind \in FlowKinds /\ collected = 0
               g == [seen[s] EXCEPT !.answers = @ + 1, !.blank = @ \/ blank]
    <3>1. /\ DOMAIN objs' = Sids
          /\ objs'[s].kind = objs[s].kind
          /\ objs'[s].outstanding_replies = objs[s].outstanding_replies
          /\ \A i \in Sids : i # s => objs'[i] = objs[i]
      BY <1>4, <2>2 DEF Finish, SessionObj
    <3>2. /\ log' = IF objs[s].local THEN seen ELSE [seen EXCEPT ![s] = g]
          /\ m_sessions' = remove_session(s)
      BY <2>2 DEF Finish
    <3>3. Entries(s)' = {} /\ \A i : i # s => Entries(i)' = Entries(i)
      BY <3>2 DEF Entries, remove_session
    <3>4. /\ \A i \in Sids : i # s => log'[i] = log[i]
          /\ log'[s].split = seen[s].split
      <4>1. g.split = seen[s].split
        <5>1. seen[s] \in Fate
          <6> DEFINE b == log[s].split \/ more
                     c == log[s].lost \/ ~Connected
          <6>1. b \in BOOLEAN /\ c \in BOOLEAN
            BY <1>4 DEF Fate
          <6> HIDE DEF b, c
          <6>2. [log[s] EXCEPT !.split = b, !.lost = c] \in Fate
            BY <1>4, <6>1 DEF Fate
          <6> QED
            BY <6>2, <1>5 DEF f, b, c
        <5> HIDE DEF blank
        <5> QED
          BY <5>1 DEF Fate
      <4> HIDE DEF g
      <4> QED
        BY <1>5, <3>2, <4>1
    <3>5. ASSUME NEW i \in Sids, i # s PROVE SessionCounted(i)'
      BY <1>2, <1>3, <3>1, <3>3, <3>4, <3>5, CountKept DEF Counted
    <3>6. SessionCounted(s)'
      <4>1. ASSUME objs'[s].kind = "aggregate_stats", ~log'[s].split
            PROVE  Cardinality(OwedTo(s)') <= objs'[s].outstanding_replies /\ OwedTo(s)' = {}
        <5>1. ~more /\ ~log[s].split /\ objs[s].kind = "aggregate_stats"
          BY <4>1, <1>5, <3>1, <3>4
        <5>2. Cardinality(OwedTo(s)) <= objs[s].outstanding_replies
              /\ objs[s].outstanding_replies <= 1
          BY <5>1, <2>0, <2>2, <2>a DEF FlowKinds
        <5> QED
          BY <5>1, <5>2, <1>3, <2>0, <3>1
      <4> HIDE DEF Entries
      <4> QED
        BY <4>1, <3>3 DEF SessionCounted
    <3>7. Sids' = Sids
      BY <1>4, <2>2 DEF Finish, Sids
    <3> QED
      BY <1>3, <3>5, <3>6, <3>7 DEF Counted
  <2> QED
    BY <1>12, <2>1, <2>2 DEF process_reply, collected
<1>13. CASE Connected /\ p.xid \in DOMAIN m_sessions
  <2>1. \/ log' = seen /\ (Crash("use_after_free") \/ Crash("assertion"))
        \/ process_reply(s, p.xid, seen)
    BY <1>6, <1>9, <1>13 DEF handle_reply
  <2>2. CASE log' = seen /\ (Crash("use_after_free") \/ Crash("assertion"))
    BY <2>2, <1>11 DEF Crash, Running
  <2> QED
    BY <1>12, <1>13, <2>1, <2>2
<1> QED
  BY <1>6, <1>11, <1>13

\* An error settles a request and marks its session.
LEMMA ErrorCounted ==
  ASSUME SessInv, Counted, NEW p \in pending, SwitchReportsError(p)
  PROVE  Counted'
<1> DEFINE more == FALSE
<1>1. /\ pending' = (pending \ {p}) \cup (IF more THEN {[p EXCEPT !.parts = @ + 1]} ELSE {})
      /\ more \in BOOLEAN
      /\ IF p.xid \in DOMAIN m_sessions
         THEN handle_error(p.xid)
         ELSE /\ log' = [log EXCEPT ![p.sid].errored = TRUE]
              /\ UNCHANGED <<m_sessions, objs>>
  BY DEF SwitchReportsError
<1>s. PICK s \in Sids : s = p.sid
  BY DEF SessInv, SessTypeOK
<1>2. Running
  BY DEF SwitchReportsError
<1>3. /\ IsFiniteSet(pending')
      /\ \A i : i # s => OwedTo(i)' = OwedTo(i)
      /\ \A q \in OwedTo(s)' : \E r \in OwedTo(s) : r.xid = q.xid
      /\ Cardinality(OwedTo(s)') \in Nat /\ Cardinality(OwedTo(s)) \in Nat
      /\ Cardinality(OwedTo(s)')
            = IF more THEN Cardinality(OwedTo(s)) ELSE Cardinality(OwedTo(s)) - 1
      /\ OwedTo(s) # {}
  BY <1>1, <1>s, OwedLemma
<1>4. /\ DOMAIN log = Sids /\ log[s] \in Fate
      /\ objs \in Seq(SessionObj) /\ objs[s] \in SessionObj /\ DOMAIN objs = Sids
  BY DEF SessInv, SessTypeOK, Sids
<1>5. p.xid \in DOMAIN m_sessions => m_sessions[p.xid] = s
  BY <1>s DEF SessInv, DatabaseAgrees
<1>6. /\ UNCHANGED m_sessions
      /\ Sids' = Sids
      /\ \A i \in Sids : /\ objs'[i].kind = objs[i].kind
                         /\ objs'[i].outstanding_replies = objs[i].outstanding_replies
      /\ \A i \in Sids : /\ i # s => log'[i] = log[i]
                         /\ log'[i].split = log[i].split
                         /\ objs[i].kind = "aggregate_stats" => log'[i].answers = log[i].answers
      /\ ~Running' \/ log'[s].errored
  <2>1. CASE p.xid \notin DOMAIN m_sessions
    BY <1>1, <1>4, <1>s, <2>1 DEF Fate, Sids
  <2>2. CASE p.xid \in DOMAIN m_sessions /\ ~objs[s].alive
    <3>1. Crash("use_after_free") /\ UNCHANGED log
      BY <1>1, <1>5, <2>2 DEF handle_error
    <3> QED
      BY <3>1 DEF Crash, Running, Sids
  <2>3. CASE p.xid \in DOMAIN m_sessions /\ objs[s].alive
    <3>1. process_error(s)
      BY <1>1, <1>5, <2>3 DEF handle_error
    <3> DEFINE done == objs[s].m_completed \/ objs[s].kind \in SingleKinds \cup {"flow_stats"}
               told == IF objs[s].kind = "table_stats" THEN log[s].answers + 1 ELSE log[s].answers
    <3>2. /\ objs' = [objs EXCEPT ![s] = [objs[s] EXCEPT !.m_completed = done]]
          /\ log' = [log EXCEPT ![s] = [log[s] EXCEPT !.errored = TRUE, !.answers = told]]
          /\ UNCHANGED m_sessions
      BY <3>1 DEF process_error
    <3>3. objs[s].kind = "aggregate_stats" => told = log[s].answers
      OBVIOUS
    <3> HIDE DEF done, told
    <3>4. /\ \A i \in Sids : /\ objs'[i].kind = objs[i].kind
                             /\ objs'[i].outstanding_replies = objs[i].outstanding_replies
          /\ Len(objs') = Len(objs)
      BY <1>4, <3>2 DEF SessionObj
    <3>5. /\ \A i \in Sids : i # s => log'[i] = log[i]
          /\ log'[s].split = log[s].split /\ log'[s].errored /\ log'[s].answers = told
      BY <1>4, <3>2 DEF Fate
    <3> QED
      BY <3>2, <3>3, <3>4, <3>5 DEF Sids
  <2> QED
    BY <2>1, <2>2, <2>3
<1>7. ASSUME NEW i PROVE Entries(i)' = Entries(i)
  BY <1>6 DEF Entries
<1> HIDE DEF Entries, OwedTo
<1>8. SessionCounted(s)'
  <2>1. Cardinality(OwedTo(s)') <= Cardinality(OwedTo(s)) /\ SessionCounted(s)
    BY <1>3 DEF Counted
  <2>2. /\ log[s].split => log'[s].split
        /\ ~Running' \/ log'[s].errored \/ log'[s].lost \/ Entries(s) = {}
        /\ Entries(s)' = Entries(s)
    BY <1>6, <1>7
  <2> QED
    BY <1>3, <1>4, <1>6, <2>1, <2>2, OwedLess
<1>9. ASSUME NEW i \in Sids, i # s PROVE SessionCounted(i)'
  BY <1>2, <1>3, <1>6, <1>7, <1>9, CountKept DEF Counted
<1> QED
  BY <1>3, <1>6, <1>8, <1>9 DEF Counted

\* A departing switch settles no request: what it owed is lost.
LEMMA LeaveCounted ==
  ASSUME SessInv, Counted, NEW d \in Dpts, SwitchLeaves(d)
  PROVE  Counted'
<1> DEFINE lost(i) == log[i].lost \/ \E p \in pending : p.dpt = d /\ p.sid = i
<1>1. /\ pending' = {p \in pending : p.dpt # d}
      /\ log' = [i \in DOMAIN log |-> [log[i] EXCEPT !.lost = lost(i)]]
      /\ UNCHANGED <<m_sessions, objs>> /\ Running
  BY DEF SwitchLeaves
<1>2. DOMAIN log = Sids /\ \A i \in Sids : log[i] \in Fate /\ objs[i] \in SessionObj
  BY DEF SessInv, SessTypeOK, Sids
<1>3. \A i : Entries(i)' = Entries(i)
  BY <1>1 DEF Entries
<1>4. IsFiniteSet(pending')
  BY <1>1, FS_Subset DEF Counted
<1>5. \A i : OwedTo(i)' \subseteq OwedTo(i) /\ IsFiniteSet(OwedTo(i))
  BY <1>1, FS_Subset DEF OwedTo, Counted
<1>6. \A i : OwedTo(i)' = OwedTo(i) \/ (lost(i) /\ OwedTo(i) # {})
  BY <1>1 DEF OwedTo
<1> HIDE DEF lost, Entries, OwedTo
<1>7. \A i \in Sids : /\ log'[i].lost = lost(i) /\ log'[i].split = log[i].split
                      /\ log'[i].answers = log[i].answers /\ log'[i].errored = log[i].errored
  BY <1>1, <1>2 DEF Fate
<1>8. \A i \in Sids : log[i].lost => lost(i)
  BY DEF lost
<1>9. ASSUME NEW i \in Sids PROVE SessionCounted(i)'
  <2>0. SessionCounted(i) /\ objs' = objs
    BY <1>1 DEF Counted
  <2>1. CASE OwedTo(i)' = OwedTo(i)
    BY <1>1, <1>3, <1>7, <1>8, <2>0, <2>1 DEF SessionCounted
  <2>2. CASE lost(i) /\ OwedTo(i) # {}
    <3>1. /\ Cardinality(OwedTo(i)) \in Nat /\ Cardinality(OwedTo(i)') \in Nat
          /\ Cardinality(OwedTo(i)') <= Cardinality(OwedTo(i))
      BY <1>5, FS_Subset, FS_CardinalityType
    <3>2. \A q \in OwedTo(i)' : \E r \in OwedTo(i) : r.xid = q.xid
      BY <1>5
    <3> QED
      BY <1>2, <1>3, <1>7, <2>0, <2>2, <3>1, <3>2, OwedLess
  <2> QED
    BY <1>6, <2>1, <2>2
<1>10. Sids' = Sids
  BY <1>1 DEF Sids
<1> QED
  BY <1>4, <1>9, <1>10 DEF Counted

\* Steps that touch neither the backlog nor the database nor what is counted.
LEMMA OtherCounted ==
  ASSUME SessInv, Counted,
         \/ \E s \in Sids : handle_timeout(s)
         \/ PeerConnects \/ ControllerLeaves
         \/ UNCHANGED vars
  PROVE  Counted'
<1>1. \/ Running
      \/ UNCHANGED vars
  BY DEF handle_timeout, PeerConnects, ControllerLeaves
<1>2. UNCHANGED pending /\ UNCHANGED m_sessions
  BY DEF handle_timeout, Crash, PeerConnects, ControllerLeaves, vars, sessVars
<1>3. /\ objs \in Seq(SessionObj) /\ Len(objs) \in Nat /\ DOMAIN objs = Sids /\ DOMAIN log = Sids
      /\ \A i \in Sids : objs[i] \in SessionObj /\ log[i] \in Fate
  BY DEF SessInv, SessTypeOK, Sids
<1>4. /\ Len(objs') = Len(objs)
      /\ \A i \in Sids : /\ objs'[i].kind = objs[i].kind
                         /\ objs'[i].outstanding_replies = objs[i].outstanding_replies
  <2>1. UNCHANGED objs
        \/ \E s \in Sids : objs' = [objs EXCEPT ![s].alive = FALSE]
    BY DEF handle_timeout, Crash, PeerConnects, ControllerLeaves, vars, sessVars
  <2>2. ASSUME NEW s \in Sids, objs' = [objs EXCEPT ![s] = [objs[s] EXCEPT !.alive = FALSE]]
        PROVE  /\ Len(objs') = Len(objs)
               /\ \A i \in Sids : /\ objs'[i].kind = objs[i].kind
                                  /\ objs'[i].outstanding_replies = objs[i].outstanding_replies
    BY <1>3, <2>2 DEF SessionObj
  <2> QED
    BY <1>3, <2>1, <2>2
<1>5. \A i \in Sids : /\ log'[i].split = log[i].split /\ log'[i].answers = log[i].answers
                      /\ log'[i].errored = log[i].errored /\ log'[i].lost = log[i].lost
  <2>1. UNCHANGED log \/ log' = [s \in DOMAIN log |-> [log[s] EXCEPT !.asker = NoPeer]]
    BY DEF handle_timeout, Crash, PeerConnects, ControllerLeaves, vars, sessVars
  <2> QED
    BY <1>3, <2>1 DEF Fate
<1>6. \A i : OwedTo(i)' = OwedTo(i) /\ Entries(i)' = Entries(i)
  BY <1>2 DEF OwedTo, Entries
<1>7. Sids' = Sids /\ IsFiniteSet(pending')
  BY <1>2, <1>4 DEF Sids, Counted
<1>8. CASE UNCHANGED vars
  BY <1>8 DEF vars, sessVars, Counted, SessionCounted, OwedTo, Entries, Running, Sids
<1>9. CASE Running
  BY <1>4, <1>5, <1>6, <1>7, <1>9, CountKept DEF Counted
<1> QED
  BY <1>1, <1>8, <1>9

\* The count is kept.
THEOREM SessCounted == Spec => []Counted
<1>1. Init => Counted
  <2> SUFFICES ASSUME Init PROVE Counted
    OBVIOUS
  <2>1. Sids = {} /\ pending = {}
    BY DEF Init, Sids
  <2> QED
    BY <2>1, FS_EmptySet DEF Counted
<1>2. SessInv /\ Counted /\ [Next]_vars => Counted'
  BY RequestCounted, ReplyCounted, ErrorCounted, LeaveCounted, OtherCounted DEF Next
<1> QED
  BY <1>1, <1>2, SessInvariance, PTL DEF Spec

\* An aggregate is answered when the switch has answered for all its flow entries.
THEOREM SessAggregateWaits == Spec => []AggregateWaitsForAll
<1>1. Counted => AggregateWaitsForAll
  BY DEF Counted, SessionCounted, OwedTo, AggregateWaitsForAll
<1> QED
  BY <1>1, SessCounted, PTL

\* No session waits in the database for what will not come, unless the switch
\* reported an error or a connection went.
THEOREM SessEntriesAwait == Spec => []EntriesAwaitTheSwitch
<1>1. SessInv /\ Counted => EntriesAwaitTheSwitch
  BY DEF SessInv, SessTypeOK, Counted, SessionCounted, OwedTo, Entries, EntriesAwaitTheSwitch
<1> QED
  BY <1>1, SessInvariance, SessCounted, PTL

-----------------------------------------------------------------------------
(***************************************************************************)
(* Who deletes a session, and which answers find theirs                    *)
(***************************************************************************)
PointersInOrder == TimerOrAnswerDeletes /\ RepliesFindTheirSession

\* What a new session must be like: registered for all it asks, unless for port
\* statistics, and with a timer if it is the proxy's own and lives.
LEMMA NewPointers ==
  ASSUME SessInv, PointersInOrder,
         NEW o \in SessionObj, NEW n \in Nat, NEW a,
         NEW xids \in SUBSET (nextXid .. nextXid + n - 1),
         NewSession(o, n, xids, a),
         o.kind = "port_stats" \/ xids = nextXid .. nextXid + n - 1,
         m_session_timers' = m_session_timers \cup
             (IF o.local /\ o.alive THEN {Len(objs) + 1} ELSE {}),
         o.local => n = 1 /\ xids = {nextXid}
  PROVE  PointersInOrder'
<1>s. PICK s : s = Len(objs) + 1
  OBVIOUS
<1>x. PICK X : X = nextXid .. nextXid + n - 1
  OBVIOUS
<1>1. /\ objs \in Seq(SessionObj) /\ Len(objs) \in Nat /\ nextXid \in Nat
      /\ m_session_timers \subseteq Sids /\ pending \subseteq Request
      /\ \A p \in pending : p.sid \in Sids
      /\ \A x \in DOMAIN m_sessions : x \in Nat /\ m_sessions[x] \in Sids
  BY DEF SessInv, SessTypeOK
<1>2. /\ objs' = Append(objs, o)
      /\ m_sessions' = associate_xid(xids, s)
      /\ pending' = pending \cup {[xid |-> x, dpt |-> m_slave, sid |-> s, parts |-> 0] : x \in X}
  BY <1>s, <1>x DEF NewSession
<1>3. /\ Sids' = Sids \cup {s} /\ s \notin Sids
      /\ objs'[s] = o /\ \A i \in Sids : objs'[i] = objs[i]
  BY <1>s, <1>1, <1>2 DEF Sids
<1>4. /\ DOMAIN m_sessions' = DOMAIN m_sessions \cup xids
      /\ \A x \in xids : m_sessions'[x] = s
      /\ \A x \in DOMAIN m_sessions : x \notin xids /\ m_sessions'[x] = m_sessions[x]
  <2>1. \A x \in DOMAIN m_sessions : x < nextXid
    BY DEF SessInv, DatabaseAgrees
  <2>2. \A x \in DOMAIN m_sessions : x \notin xids
    BY <1>1, <2>1
  <2> QED
    BY <1>2, <2>2 DEF associate_xid
<1>5. \A i \in Sids : Registered(i)' <=> Registered(i)
  BY <1>3, <1>4 DEF Registered
<1>6. TimerOrAnswerDeletes'
  <2>1. ASSUME NEW i \in Sids
        PROVE  /\ objs'[i].local /\ objs'[i].alive => i \in m_session_timers' /\ Registered(i)'
               /\ ~objs'[i].alive => ~(i \in m_session_timers' /\ Registered(i)')
    <3>1. objs'[i] = objs[i] /\ (Registered(i)' <=> Registered(i))
      BY <1>3, <1>5
    <3>2. i \in m_session_timers' <=> i \in m_session_timers
      BY <1>s, <1>3
    <3> QED
      BY <3>1, <3>2 DEF PointersInOrder, TimerOrAnswerDeletes
  <2>2. ASSUME o.local PROVE Registered(s)'
    <3>1. nextXid \in xids
      BY <2>2
    <3>2. nextXid \in DOMAIN m_sessions' /\ m_sessions'[nextXid] = s
      BY <1>4, <3>1
    <3> QED
      BY <3>2 DEF Registered
  <2>3. s \in m_session_timers' <=> o.local /\ o.alive
    BY <1>s, <1>1, <1>3
  <2> QED
    BY <1>3, <2>1, <2>2, <2>3 DEF TimerOrAnswerDeletes
<1>7. RepliesFindTheirSession'
  <2> SUFFICES ASSUME NEW p \in pending'
               PROVE  \/ p.xid \in DOMAIN m_sessions' /\ m_sessions'[p.xid] = p.sid
                      \/ objs'[p.sid].m_completed /\ ~objs'[p.sid].alive
                      \/ objs'[p.sid].kind = "port_stats"
    BY DEF RepliesFindTheirSession
  <2>1. CASE p \in pending
    BY <1>1, <1>3, <1>4, <2>1 DEF PointersInOrder, RepliesFindTheirSession
  <2>2. CASE p.sid = s /\ p.xid \in X
    <3>1. objs'[s].kind = "port_stats" \/ p.xid \in xids
      BY <1>x, <1>3, <2>2
    <3>2. p.xid \in xids => p.xid \in DOMAIN m_sessions' /\ m_sessions'[p.xid] = s
      BY <1>4
    <3> QED
      BY <2>2, <3>1, <3>2
  <2>3. ASSUME NEW x \in X, p = [xid |-> x, dpt |-> m_slave, sid |-> s, parts |-> 0]
        PROVE  p.sid = s /\ p.xid \in X
    BY <2>3
  <2> QED
    BY <1>2, <2>1, <2>2, <2>3
<1> QED
  BY <1>6, <1>7 DEF PointersInOrder

\* A step that makes no session, leaves the pointers alone, and whose backlog and
\* deletions are none.
LEMMA QuietPointers ==
  ASSUME SessInv, PointersInOrder, UNCHANGED <<m_sessions, m_session_timers>>, BacklogShrinks,
         Len(objs') = Len(objs),
         \A i \in Sids : /\ objs'[i].alive = objs[i].alive /\ objs'[i].local = objs[i].local
                         /\ objs'[i].kind = objs[i].kind
                         /\ objs[i].m_completed => objs'[i].m_completed
  PROVE  PointersInOrder'
<1>1. \A p \in pending : p.sid \in Sids
  BY DEF SessInv, SessTypeOK
<1>2. Sids' = Sids
  BY DEF Sids
<1>3. TimerOrAnswerDeletes'
  BY <1>2 DEF PointersInOrder, TimerOrAnswerDeletes, Registered
<1>4. RepliesFindTheirSession'
  BY <1>1 DEF PointersInOrder, RepliesFindTheirSession, BacklogShrinks
<1> QED
  BY <1>3, <1>4 DEF PointersInOrder

\* The actions that make a session make it as NewPointers asks.
LEMMA RequestPointers ==
  ASSUME SessInv, PointersInOrder,
         \/ \E k \in Kinds : handle_request(k)
         \/ \E k \in Kinds, n \in 0 .. MaxMatches : handle_flow_request(k, n)
         \/ handle_port_stats_request
         \/ get_supported_actions
  PROVE  PointersInOrder'
<1> DEFINE completed(k) == [Session(k) EXCEPT !.m_completed = TRUE]
           local(k, b)  == [Session(k) EXCEPT !.local = TRUE, !.alive = b]
<1>0. nextXid \in Nat /\ {nextXid} = nextXid .. nextXid + 1 - 1
  BY DEF SessInv, SessTypeOK
<1>1. ASSUME NEW k \in AllKinds
      PROVE  /\ Session(k) \in SessionObj /\ ~Session(k).local
             /\ completed(k) \in SessionObj /\ ~completed(k).local /\ completed(k).kind = k
             /\ \A b \in BOOLEAN : /\ local(k, b) \in SessionObj
                                   /\ local(k, b).local /\ local(k, b).alive = b
  <2>1. Session(k) \in SessionObj /\ ~Session(k).local /\ Session(k).kind = k
    BY <1>1 DEF Session, SessionObj
  <2>2. completed(k) \in SessionObj /\ ~completed(k).local /\ completed(k).kind = k
    BY <2>1 DEF SessionObj
  <2>3. ASSUME NEW b \in BOOLEAN
        PROVE  local(k, b) \in SessionObj /\ local(k, b).local /\ local(k, b).alive = b
    BY <2>1 DEF SessionObj
  <2> QED
    BY <2>1, <2>2, <2>3
<1> HIDE DEF completed, local
<1>2. ASSUME NEW k \in Kinds, handle_request(k) PROVE PointersInOrder'
  <2>1. k \in AllKinds
    BY <1>2, SessionsAssumption
  <2>2. NewSession(Session(k), 1, {nextXid}, 0) /\ UNCHANGED m_session_timers
    BY <1>2 DEF handle_request
  <2> QED
    BY <1>0, <1>1, <2>1, <2>2, NewPointers
<1>3. ASSUME NEW k \in Kinds, NEW n \in 0 .. MaxMatches, handle_flow_request(k, n)
      PROVE  PointersInOrder'
  <2>1. k \in AllKinds /\ n \in Nat /\ UNCHANGED m_session_timers
    BY <1>3, SessionsAssumption DEF handle_flow_request
  <2>2. CASE n = 0
    <3>1. NewSession(completed(k), 0, {}, 1)
      BY <1>3, <2>2 DEF handle_flow_request, completed
    <3>2. {} = nextXid .. nextXid + 0 - 1 /\ 0 \in Nat
      BY <1>0
    <3> QED
      BY <1>1, <2>1, <3>1, <3>2, NewPointers
  <2>3. CASE n # 0
    <3> DEFINE o == FlowSession(k, n)
               X == nextXid .. nextXid + n - 1
    <3>1. NewSession(o, n, X, 0)
      BY <1>3, <2>3 DEF handle_flow_request
    <3>2. o \in SessionObj /\ ~o.local
      <4>1. Session(k) \in SessionObj /\ ~Session(k).local
        BY <2>1, <1>1
      <4> QED
        BY <2>1, <4>1 DEF FlowSession, SessionObj
    <3>3. X = nextXid .. nextXid + n - 1
      OBVIOUS
    <3> HIDE DEF o, X
    <3> QED
      BY <2>1, <3>1, <3>2, <3>3, NewPointers
  <2> QED
    BY <2>2, <2>3
<1>4. ASSUME handle_port_stats_request PROVE PointersInOrder'
  <2> DEFINE sends == IF port_config_handling = "passthrough" THEN 1 ELSE 0
             o     == completed("port_stats")
  <2>1. CASE NewSession(o, sends, {}, 0) /\ UNCHANGED m_session_timers
    <3>1. o \in SessionObj /\ ~o.local /\ o.kind = "port_stats" /\ sends \in Nat
      BY <1>1 DEF AllKinds
    <3> HIDE DEF o, sends
    <3> QED
      BY <2>1, <3>1, NewPointers
  <2>2. CASE UNCHANGED <<pending, objs, m_sessions, m_session_timers>>
    <3>1. BacklogShrinks
      BY <2>2 DEF BacklogShrinks, SessInv, XidsInOrder
    <3> QED
      BY <2>2, <3>1, QuietPointers
  <2> QED
    BY <1>4, <2>1, <2>2 DEF handle_port_stats_request, completed, Crash
<1>5. ASSUME get_supported_actions PROVE PointersInOrder'
  <2> DEFINE o == local("features", free_timer_slot)
  <2>1. /\ NewSession(o, 1, {nextXid}, 0)
        /\ m_session_timers' = m_session_timers \cup
             (IF free_timer_slot THEN {Len(objs) + 1} ELSE {})
    BY <1>5 DEF get_supported_actions, local
  <2>2. o \in SessionObj /\ o.local /\ o.alive = free_timer_slot
    <3>1. free_timer_slot \in BOOLEAN /\ "features" \in AllKinds
      BY DEF AllKinds, SingleKinds, free_timer_slot
    <3> QED
      BY <3>1, <1>1
  <2> HIDE DEF o
  <2>3. m_session_timers' = m_session_timers \cup (IF o.local /\ o.alive THEN {Len(objs) + 1} ELSE {})
    BY <2>1, <2>2
  <2>4. NewSession(o, 1, {nextXid}, 0)
    BY <2>1
  <2>5. o \in SessionObj
    BY <2>2
  <2> QED
    BY <2>3, <2>4, <2>5, <1>0, NewPointers
<1> QED
  BY <1>2, <1>3, <1>4, <1>5

\* An answer that completes its session takes with it all that m_sessions has of it.
LEMMA AnswerPointers ==
  ASSUME SessInv, PointersInOrder, NEW p \in pending, SwitchReplies(p) \/ SwitchReportsError(p)
  PROVE  PointersInOrder'
<1>1. /\ objs \in Seq(SessionObj) /\ DOMAIN objs = Sids /\ p.sid \in Sids
      /\ \A x \in DOMAIN m_sessions : m_sessions[x] \in Sids
      /\ \A q \in pending : q.sid \in Sids
      /\ \A i \in Sids : objs[i] \in SessionObj
  BY DEF SessInv, SessTypeOK, Sids
<1>2. BacklogShrinks
  <2>1. CASE SwitchReplies(p)
    <3>1. PICK more \in BOOLEAN :
            pending' = (pending \ {p}) \cup (IF more THEN {[p EXCEPT !.parts = @ + 1]} ELSE {})
      BY <2>1 DEF SwitchReplies
    <3> QED
      BY <3>1, BacklogLemma
  <2>2. CASE SwitchReportsError(p)
    BY <2>2 DEF SwitchReportsError, BacklogShrinks, SessInv, XidsInOrder
  <2> QED
    BY <2>1, <2>2
<1>t. PICK t : t = m_sessions[p.xid]
  OBVIOUS
<1>3. CASE UNCHANGED <<objs, m_sessions, m_session_timers>>
  BY <1>2, <1>3, QuietPointers
<1>4. ASSUME p.xid \in DOMAIN m_sessions, NEW seen, NEW n, CountDown(t, n, seen)
      PROVE  PointersInOrder'
  <2>1. /\ objs' = [objs EXCEPT ![t] = [objs[t] EXCEPT !.outstanding_replies = @ - 1, !.replies = n]]
        /\ UNCHANGED <<m_sessions, m_session_timers>>
    BY <1>4 DEF CountDown
  <2>2. \A i \in Sids : /\ objs'[i].alive = objs[i].alive /\ objs'[i].local = objs[i].local
                        /\ objs'[i].kind = objs[i].kind
                        /\ objs[i].m_completed => objs'[i].m_completed
    BY <1>t, <1>1, <1>4, <2>1 DEF SessionObj
  <2>3. Len(objs') = Len(objs)
    BY <1>1, <2>1
  <2> QED
    BY <1>2, <2>1, <2>2, <2>3, QuietPointers
<1>5. ASSUME p.xid \in DOMAIN m_sessions, process_error(t)
      PROVE  PointersInOrder'
  <2>1. /\ objs' = [objs EXCEPT ![t].m_completed = @ \/ objs[t].kind \in SingleKinds \cup {"flow_stats"}]
        /\ UNCHANGED <<m_sessions, m_session_timers>>
    BY <1>5 DEF process_error
  <2>2. \A i \in Sids : /\ objs'[i].alive = objs[i].alive /\ objs'[i].local = objs[i].local
                        /\ objs'[i].kind = objs[i].kind
                        /\ objs[i].m_completed => objs'[i].m_completed
    BY <1>t, <1>1, <1>5, <2>1 DEF SessionObj
  <2>3. Len(objs') = Len(objs)
    BY <1>1, <2>1
  <2> QED
    BY <1>2, <2>1, <2>2, <2>3, QuietPointers
<1>6. ASSUME p.xid \in DOMAIN m_sessions, NEW seen, NEW n, Finish(t, n, seen)
      PROVE  PointersInOrder'
  <2>1. /\ objs' = [objs EXCEPT ![t] = [objs[t] EXCEPT !.m_completed = TRUE, !.alive = FALSE,
                                                       !.replies = n]]
        /\ m_sessions' = remove_session(t)
        /\ UNCHANGED m_session_timers
    BY <1>6 DEF Finish
  <2>2. /\ \A i \in Sids \ {t} : objs'[i] = objs[i]
        /\ objs'[t].m_completed /\ ~objs'[t].alive /\ objs'[t].local = objs[t].local
        /\ t \in Sids /\ Sids' = Sids
    BY <1>t, <1>1, <1>6, <2>1 DEF SessionObj, Sids
  <2>3. /\ \A x \in DOMAIN m_sessions' : x \in DOMAIN m_sessions /\ m_sessions'[x] = m_sessions[x]
        /\ \A x \in DOMAIN m_sessions' : m_sessions[x] # t
        /\ \A x \in DOMAIN m_sessions : m_sessions[x] # t => x \in DOMAIN m_sessions'
    BY <2>1 DEF remove_session
  <2>4. ~Registered(t)' /\ \A i \in Sids \ {t} : Registered(i)' <=> Registered(i)
    BY <2>3 DEF Registered
  <2>5. TimerOrAnswerDeletes'
    BY <2>1, <2>2, <2>4 DEF PointersInOrder, TimerOrAnswerDeletes
  <2>6. RepliesFindTheirSession'
    BY <1>1, <1>2, <2>2, <2>3 DEF PointersInOrder, RepliesFindTheirSession, BacklogShrinks
  <2> QED
    BY <2>5, <2>6 DEF PointersInOrder
<1>7. CASE SwitchReplies(p)
  <2>1. \/ UNCHANGED <<objs, m_sessions, m_session_timers>>
        \/ p.xid \in DOMAIN m_sessions /\ \E seen : handle_reply(p.xid, seen)
    BY <1>7 DEF SwitchReplies
  <2>2. ASSUME p.xid \in DOMAIN m_sessions, NEW seen, handle_reply(p.xid, seen)
        PROVE  \/ UNCHANGED <<objs, m_sessions, m_session_timers>>
               \/ \E n : CountDown(t, n, seen)
               \/ \E n : Finish(t, n, seen)
    BY <1>t, <2>2 DEF handle_reply, Crash, process_reply
  <2> QED
    BY <1>3, <1>4, <1>6, <2>1, <2>2
<1>8. CASE SwitchReportsError(p)
  <2>1. \/ UNCHANGED <<objs, m_sessions, m_session_timers>>
        \/ p.xid \in DOMAIN m_sessions /\ process_error(t)
    BY <1>t, <1>8 DEF SwitchReportsError, handle_error, Crash
  <2> QED
    BY <1>3, <1>5, <2>1
<1> QED
  BY <1>7, <1>8

LEMMA PointersNext ==
  ASSUME SessInv, PointersInOrder, [Next]_vars
  PROVE  PointersInOrder'
<1>1. CASE UNCHANGED <<objs, m_sessions, m_session_timers>> /\ BacklogShrinks
  BY <1>1, QuietPointers
<1>2. UNCHANGED pending => BacklogShrinks
  BY DEF BacklogShrinks, SessInv, XidsInOrder
<1>3. CASE \/ \E k \in Kinds : handle_request(k)
           \/ \E k \in Kinds, n \in 0 .. MaxMatches : handle_flow_request(k, n)
           \/ handle_port_stats_request
           \/ get_supported_actions
  BY <1>3, RequestPointers
<1>4. CASE \E p \in pending : SwitchReplies(p) \/ SwitchReportsError(p)
  BY <1>4, AnswerPointers
<1>5. ASSUME NEW s \in Sids, handle_timeout(s) PROVE PointersInOrder'
  <2>1. CASE UNCHANGED <<objs, m_session_timers>>
    BY <1>1, <1>2, <1>5, <2>1 DEF handle_timeout, Crash
  <2>2. CASE /\ m_session_timers' = m_session_timers \ {s}
             /\ objs' = [objs EXCEPT ![s].alive = FALSE]
    <3>1. UNCHANGED <<m_sessions, pending>>
      BY <1>5 DEF handle_timeout, Crash
    <3>2. /\ objs \in Seq(SessionObj) /\ DOMAIN objs = Sids /\ objs[s] \in SessionObj
          /\ \A p \in pending : p.sid \in Sids
      BY DEF SessInv, SessTypeOK, Sids
    <3>3. /\ Sids' = Sids /\ \A i \in Sids \ {s} : objs'[i] = objs[i]
          /\ ~objs'[s].alive
          /\ \A i \in Sids : /\ objs'[i].m_completed = objs[i].m_completed
                             /\ objs'[i].kind = objs[i].kind
                             /\ objs'[i].alive => objs[i].alive
      BY <2>2, <3>2 DEF SessionObj, Sids
    <3>4. TimerOrAnswerDeletes'
      BY <2>2, <3>1, <3>3 DEF PointersInOrder, TimerOrAnswerDeletes, Registered
    <3>5. RepliesFindTheirSession'
      BY <3>1, <3>2, <3>3 DEF PointersInOrder, RepliesFindTheirSession
    <3> QED
      BY <3>4, <3>5 DEF PointersInOrder
  <2> QED
    BY <1>5, <2>1, <2>2 DEF handle_timeout, Crash
<1>6. CASE PeerConnects \/ ControllerLeaves
  BY <1>1, <1>2, <1>6 DEF PeerConnects, ControllerLeaves, sessVars
<1>7. ASSUME NEW d \in Dpts, SwitchLeaves(d) PROVE PointersInOrder'
  <2>1. BacklogShrinks
    BY <1>7 DEF SwitchLeaves, BacklogShrinks, SessInv, XidsInOrder
  <2> QED
    BY <1>1, <1>7, <2>1 DEF SwitchLeaves
<1>8. CASE UNCHANGED vars
  BY <1>1, <1>2, <1>8 DEF vars, sessVars
<1> QED
  BY <1>3, <1>4, <1>5, <1>6, <1>7, <1>8 DEF Next

LEMMA PointersInvariance == Spec => []PointersInOrder
<1>1. Init => PointersInOrder
  BY DEF Init, PointersInOrder, TimerOrAnswerDeletes, RepliesFindTheirSession, Sids
<1>2. SessInv /\ PointersInOrder /\ [Next]_vars => PointersInOrder'
  BY PointersNext
<1> QED
  BY <1>1, <1>2, SessInvariance, PTL DEF Spec

\* handle_timeout and remove_session delete the same sessions and each clears but one
\* of the two pointers: no session is ever left without the one that will delete it,
\* and none is deleted with both pointers left, however timers and answers race.
THEOREM SessTimerOrAnswer == Spec => []TimerOrAnswerDeletes
  BY PointersInvariance, PTL DEF PointersInOrder

\* get_chandlersession finds the session of every answer the switch still owes, but
\* for port statistics and for the later parts of an answer already given.
THEOREM SessRepliesFind == Spec => []RepliesFindTheirSession
  BY PointersInvariance, PTL DEF PointersInOrder
=============================================================================
