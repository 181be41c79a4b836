------------------------------ MODULE Sessions ------------------------------
(***************************************************************************)
(* The request sessions of the proxy.  A controller's request is sent on   *)
(* to the switch under a transaction id (xid) of the proxy's own; a        *)
(* session object remembers whose it was, m_sessions finds the session     *)
(* when the switch answers, and the answer goes to the controller under    *)
(* the request's id.  Sources: morpheus.cc and the csh_* session classes.  *)
(*                                                                         *)
(* Sessions composes with Connections: a request needs both peers, and a   *)
(* switch that leaves takes with it what it has not answered, while the    *)
(* proxy's sessions stay.  The switch is the environment: it answers every *)
(* request once, by a reply (statistics: in several parts) or an error, in *)
(* any order but across barriers.                                          *)
(*                                                                         *)
(* rofl numbers the proxy's requests consecutively, and no number returns  *)
(* here (in the code after 2^32): the second half of the code's key of     *)
(* m_sessions, the switch-side xid, is the key.                            *)
(***************************************************************************)
EXTENDS Connections, Integers, Sequences, FiniteSets

CONSTANTS
    Kinds,                \* the kinds of request the controllers make
    port_config_handling, \* what the configuration says of port statistics
    DEBUG,                \* TRUE: built with assertions (--enable-debug)
    TimerSlots,           \* m_crof_timer_opaque_max: places in m_session_timers
    MaxSessions,          \* bound: sessions ever made
    MaxMatches,           \* bound: flow entries a statistics request matches
    MaxMore               \* bound: additional parts of a statistics reply

SingleKinds == {"features", "get_config", "desc_stats", "table_stats", "barrier"}
FlowKinds   == {"flow_stats", "aggregate_stats"}
AllKinds    == SingleKinds \cup FlowKinds \cup {"port_stats", "flow_mod"}
Multipart   == FlowKinds \cup {"desc_stats", "table_stats", "port_stats"}

ASSUME SessionsAssumption ==
    /\ Kinds \subseteq AllKinds
    /\ port_config_handling \in {"drop", "passthrough", "hardware"}
    /\ DEBUG \in BOOLEAN
    /\ TimerSlots \in Nat
    /\ MaxSessions \in Nat /\ MaxMatches \in Nat /\ MaxMore \in Nat

VARIABLES
    m_sessions,       \* switch-side xid |-> session
    objs,             \* the session objects, in order of allocation
    m_session_timers, \* the sessions a lifetime timer points at
    actions_valid,    \* m_dpe_supported_actions_valid
    nextXid,          \* rofl: the next xid towards the switch
    pending,          \* rofl, switch: requests not answered yet
    log,              \* history: what became of the request of each session
    fault             \* "none", or how the process went wrong

sessVars ==
    <<m_sessions, objs, m_session_timers, actions_valid, nextXid, pending, log, fault>>
vars == <<connVars, sessVars>>

\* Sessions are known by their place in objs.
Sids == 1 .. Len(objs)

\* local: the proxy's own question about features.  alive: not deleted.
SessionObj == [kind : AllKinds, local : BOOLEAN, m_completed : BOOLEAN, alive : BOOLEAN,
               outstanding_replies : Int, reply_xid : SUBSET Nat, replies : Nat]

\* parts: how much of the reply has been sent already.
Request == [xid : Nat, dpt : Dpts, sid : Nat, parts : Nat]

\* sent: requests made to the switch via; asker: the controller that asked, if it
\* was in use and no controller has left since; answers: messages sent in answer,
\* blank: one of them an empty list; errored: the switch reported an error;
\* lost: a connection was missing; split: a reply came in several parts.
Fate == [via : Dpts, sent : Nat, asker : Ctls \cup {NoPeer}, answers : Nat, blank : BOOLEAN,
         errored : BOOLEAN, lost : BOOLEAN, split : BOOLEAN]

SessTypeOK ==
    /\ DOMAIN m_sessions \subseteq Nat
    /\ \A x \in DOMAIN m_sessions : m_sessions[x] \in Sids
    /\ objs \in Seq(SessionObj)
    /\ m_session_timers \subseteq Sids
    /\ actions_valid \in BOOLEAN
    /\ nextXid \in Nat
    /\ pending \subseteq Request
    /\ \A p \in pending : p.sid \in Sids
    /\ log \in Seq(Fate) /\ Len(log) = Len(objs)
    /\ fault \in {"none", "use_after_free", "assertion", "out_of_range", "range_error"}

Init ==
    /\ ConnInit
    /\ m_sessions = [x \in {} |-> 0]
    /\ objs = <<>>
    /\ m_session_timers = {}
    /\ actions_valid = FALSE
    /\ nextXid = 1
    /\ pending = {}
    /\ log = <<>>
    /\ fault = "none"

-----------------------------------------------------------------------------
(***************************************************************************)
(* The session database                                                    *)
(***************************************************************************)
Running  == fault = "none"
Crash(f) == fault' = f /\ UNCHANGED <<m_sessions, objs, m_session_timers, actions_valid>>

\* Mutant: only the first request of a session is entered.
associate_first_xid(xids, s) ==
    [x \in DOMAIN m_sessions \cup (xids \cap {nextXid}) |-> IF x \in xids THEN s ELSE m_sessions[x]]

associate_xid(xids, s) ==
    [x \in DOMAIN m_sessions \cup xids |-> IF x \in xids THEN s ELSE m_sessions[x]]

\* Mutant: only the first association of the session is removed.
remove_first_association(s) ==
    LET first == CHOOSE x \in DOMAIN m_sessions :
                   m_sessions[x] = s /\ \A y \in DOMAIN m_sessions : m_sessions[y] = s => x <= y
    IN  [x \in DOMAIN m_sessions \ {first} |-> m_sessions[x]]

\* Mutant: the pointers are cleared, the entries stay.
clear_session(s) ==
    [x \in DOMAIN m_sessions |-> IF m_sessions[x] = s THEN 0 ELSE m_sessions[x]]

remove_session(s) ==
    [x \in {y \in DOMAIN m_sessions : m_sessions[y] # s} |-> m_sessions[x]]

\* A handler makes the session o, for whichever controller the message came from:
\* it sends n requests to the switch, enters those numbered xids in the database,
\* and gives a blank answer if told to.
NewSession(o, n, xids, answers) ==
    LET sent == nextXid .. nextXid + n - 1
        s    == Len(objs) + 1
    IN  /\ objs' = Append(objs, o)
        /\ m_sessions' = associate_xid(xids, s)
        /\ nextXid' = nextXid + n
        /\ pending' = pending \cup
             {[xid |-> x, dpt |-> m_slave, sid |-> s, parts |-> 0] : x \in sent}
        /\ \E c \in ctlUp :
             log' = Append(log, [via |-> m_slave, sent |-> n,
                                 asker |-> IF c = m_master THEN c ELSE NoPeer,
                                 answers |-> answers, blank |-> answers > 0,
                                 errored |-> FALSE, lost |-> FALSE, split |-> FALSE])

Session(k) == [kind |-> k, local |-> FALSE, m_completed |-> FALSE, alive |-> TRUE,
               outstanding_replies |-> 0, reply_xid |-> {}, replies |-> 0]

-----------------------------------------------------------------------------
(***************************************************************************)
(* Requests of a controller.  Without both peers they are dropped and      *)
(* nothing changes; a request is not tied to the controller that made it.  *)
(***************************************************************************)
MayRequest(k) == Running /\ Connected /\ k \in Kinds /\ Len(objs) < MaxSessions

\* Mutant: the proxy answers a barrier without waiting for the switch.
barrier_answered_at_once(k) ==
    /\ k \in SingleKinds /\ MayRequest(k)
    /\ NewSession(Session(k), 1, {nextXid}, IF k = "barrier" THEN 1 ELSE 0)
    /\ UNCHANGED <<connVars, m_session_timers, actions_valid, fault>>

\* One request to the switch for one of the controller.
handle_request(k) ==
    /\ k \in SingleKinds /\ MayRequest(k)
    /\ NewSession(Session(k), 1, {nextXid}, 0)
    /\ UNCHANGED <<connVars, m_session_timers, actions_valid, fault>>

\* Mutant: outstanding_replies counts from one.
flow_session_counts_from_one(k, n) ==
    [Session(k) EXCEPT !.outstanding_replies = IF k = "aggregate_stats" THEN n + 1 ELSE 0]

\* Mutant: aggregate_stats clears its counter as flow_stats does.
flow_session_cleared(k, n) == Session(k)

\* The session after its constructor has asked for n flow entries: that of
\* flow_stats clears its members once process_flow_stats_request has run.
FlowSession(k, n) ==
    [Session(k) EXCEPT !.outstanding_replies = IF k = "aggregate_stats" THEN n ELSE 0]

\* One request to the switch for each flow entry matched, or a blank answer at
\* once: a completed session that nothing points at.
handle_flow_request(k, n) ==
    /\ k \in FlowKinds /\ MayRequest(k)
    /\ IF n = 0
       THEN NewSession([Session(k) EXCEPT !.m_completed = TRUE], 0, {}, 1)
       ELSE NewSession(FlowSession(k, n), n, nextXid .. nextXid + n - 1, 0)
    /\ UNCHANGED <<connVars, m_session_timers, actions_valid, fault>>

\* The request is sent, but never entered in the database; nothing catches the
\* out_of_range of an unknown port.  No hardware manager handles the request, and
\* the template makes nothing of its eInval but an assertion.
handle_port_stats_request ==
    /\ MayRequest("port_stats")
    /\ LET sends     == IF port_config_handling = "passthrough" THEN 1 ELSE 0
           throws(f) == UNCHANGED <<nextXid, pending, log>> /\ Crash(f)
       IN  IF port_config_handling = "hardware"
           THEN throws(IF DEBUG THEN "assertion" ELSE fault)
           ELSE \/ /\ NewSession([Session("port_stats") EXCEPT !.m_completed = TRUE], sends, {}, 0)
                   /\ UNCHANGED <<m_session_timers, actions_valid, fault>>
                \/ sends = 1 /\ throws("out_of_range")
    /\ UNCHANGED connVars

\* Is there a place for another timer?
free_timer_slot == Cardinality(m_session_timers) < TimerSlots

\* get_supported_actions, called for the actions of a flow-mod: the proxy asks
\* for the features itself.  No other handler runs while it waits, so the wait
\* ends by eInval and the flow-mod by an error; session and timer stay.  Without a
\* free place for the timer the session is deleted, by a range_error that nothing
\* catches.
get_supported_actions ==
    /\ MayRequest("flow_mod") /\ ~actions_valid
    /\ NewSession([Session("features") EXCEPT !.local = TRUE, !.alive = free_timer_slot],
                  1, {nextXid}, 0)
    /\ IF free_timer_slot
       THEN m_session_timers' = m_session_timers \cup {Len(objs) + 1} /\ UNCHANGED fault
       ELSE fault' = "range_error" /\ UNCHANGED m_session_timers
    /\ UNCHANGED <<connVars, actions_valid>>

-----------------------------------------------------------------------------
(***************************************************************************)
(* Answers of the switch                                                   *)
(***************************************************************************)

\* The switch keeps the order of a barrier and everything else.
MayAnswer(p) ==
    \A q \in pending : q.dpt = p.dpt /\ q.xid < p.xid =>
        "barrier" \notin {objs[p.sid].kind, objs[q.sid].kind}

\* Mutant: only an answer that a controller asked for tells what is supported.
push_features_of_controllers(o) == actions_valid \/ (o.kind = "features" /\ ~o.local)

\* An answer about features tells which actions are supported, whoever asked.
push_features(o) == actions_valid \/ o.kind = "features"

\* Mutant: a completed session stays in the database and alive.
finish_without_removal(s, collected, seen) ==
    /\ objs' = [objs EXCEPT ![s].m_completed = TRUE]
    /\ log' = [seen EXCEPT ![s].answers = @ + 1]
    /\ UNCHANGED <<m_sessions, actions_valid, m_session_timers, fault>>

\* The reply completes session s: the answer is sent, that of the flow kinds
\* with what was collected (aggregate_stats collects nothing), and the session
\* is removed from the database and deleted.  The proxy answers itself nothing.
Finish(s, collected, seen) ==
    LET o     == objs[s]
        blank == o.kind \in FlowKinds /\ collected = 0
    IN  /\ objs' = [objs EXCEPT ![s] = [o EXCEPT !.m_completed = TRUE, !.alive = FALSE,
                                                 !.replies = collected]]
        /\ m_sessions' = remove_session(s)
        /\ actions_valid' = push_features(o)
        /\ log' = IF o.local THEN seen
                  ELSE [seen EXCEPT ![s] = [seen[s] EXCEPT !.answers = @ + 1, !.blank = @ \/ blank]]
        /\ UNCHANGED <<m_session_timers, fault>>

\* The session waits for the replies to its other requests.
CountDown(s, collected, seen) ==
    /\ objs' = [objs EXCEPT ![s] = [objs[s] EXCEPT !.outstanding_replies = @ - 1,
                                                   !.replies = collected]]
    /\ log' = seen
    /\ UNCHANGED <<m_sessions, m_session_timers, actions_valid, fault>>

\* csh_*::process_*_reply of the session found for xid x.
process_reply(s, x, seen) ==
    LET o         == objs[s]
        collected == IF x \in o.reply_xid THEN o.replies + 1 ELSE o.replies
    IN  IF o.kind \in FlowKinds /\ o.outstanding_replies - 1 > 0
        THEN CountDown(s, collected, seen)
        ELSE Finish(s, collected, seen)

handle_reply(x, seen) ==
    LET s == m_sessions[x] IN
    IF ~objs[s].alive
    THEN Crash("use_after_free") /\ log' = seen
    ELSE IF DEBUG /\ objs[s].m_completed
    THEN Crash("assertion") /\ log' = seen
    ELSE process_reply(s, x, seen)

\* A reply finds its session, or is dropped for want of a peer or of an entry.
SwitchReplies(p) ==
    /\ Running /\ MayAnswer(p)
    /\ \E more \in BOOLEAN :
         LET fate == [log[p.sid] EXCEPT !.split = @ \/ more, !.lost = @ \/ ~Connected]
             seen == [log EXCEPT ![p.sid] = fate]
         IN  /\ more => objs[p.sid].kind \in Multipart /\ p.parts < MaxMore
             /\ pending' = (pending \ {p}) \cup (IF more THEN {[p EXCEPT !.parts = @ + 1]} ELSE {})
             /\ IF Connected /\ p.xid \in DOMAIN m_sessions
                THEN handle_reply(p.xid, seen)
                ELSE /\ log' = seen
                     /\ UNCHANGED <<m_sessions, objs, m_session_timers, actions_valid, fault>>
    /\ UNCHANGED <<connVars, nextXid>>

\* Only table_stats tells its controller (through m_master, whether or not it
\* is there); aggregate_stats inherits the handler that does nothing.  In no
\* case is the session removed.
process_error(s) ==
    LET o == objs[s] IN
    /\ objs' = [objs EXCEPT ![s].m_completed = @ \/ o.kind \in SingleKinds \cup {"flow_stats"}]
    /\ log' = [log EXCEPT ![s] =
                 [log[s] EXCEPT !.errored = TRUE,
                                !.answers = IF o.kind = "table_stats" THEN @ + 1 ELSE @]]
    /\ UNCHANGED <<m_sessions, m_session_timers, actions_valid, fault>>

\* handle_error does not ask whether the peers are there.
handle_error(x) ==
    LET s == m_sessions[x] IN
    IF ~objs[s].alive
    THEN Crash("use_after_free") /\ UNCHANGED log
    ELSE process_error(s)

SwitchReportsError(p) ==
    /\ Running /\ MayAnswer(p) /\ p.parts = 0
    /\ pending' = pending \ {p}
    /\ IF p.xid \in DOMAIN m_sessions
       THEN handle_error(p.xid)
       ELSE /\ log' = [log EXCEPT ![p.sid].errored = TRUE]
            /\ UNCHANGED <<m_sessions, objs, m_session_timers, actions_valid, fault>>
    /\ UNCHANGED <<connVars, nextXid>>

\* Mutant: the session is deleted and keeps its place among the timers.
timeout_keeps_slot(s) ==
    /\ Running /\ s \in m_session_timers /\ objs[s].alive
    /\ objs' = [objs EXCEPT ![s].alive = FALSE]
    /\ UNCHANGED <<connVars, m_sessions, m_session_timers, actions_valid, fault,
                   nextXid, pending, log>>

\* A lifetime timer fires: the session leaves m_session_timers and is deleted,
\* and m_sessions keeps its pointer.  A session that was answered meanwhile has
\* been deleted already, and the timer's pointer is dereferenced all the same.
handle_timeout(s) ==
    /\ Running /\ s \in m_session_timers
    /\ IF ~objs[s].alive
       THEN Crash("use_after_free")
       ELSE /\ m_session_timers' = m_session_timers \ {s}
            /\ objs' = [objs EXCEPT ![s].alive = FALSE]
            /\ UNCHANGED <<m_sessions, actions_valid, fault>>
    /\ UNCHANGED <<connVars, nextXid, pending, log>>

-----------------------------------------------------------------------------
(***************************************************************************)
(* Connections come and go; the sessions are not told.                     *)
(***************************************************************************)
PeerConnects ==
    /\ Running /\ (SwitchOpens \/ ControllerOpens)
    /\ UNCHANGED sessVars

\* Whoever connects next gets the answers.
ControllerLeaves ==
    /\ Running /\ ControllerCloses
    /\ log' = [s \in DOMAIN log |-> [log[s] EXCEPT !.asker = NoPeer]]
    /\ UNCHANGED <<m_sessions, objs, m_session_timers, actions_valid, nextXid, pending, fault>>

\* What the switch had not answered is never answered.
SwitchLeaves(d) ==
    /\ Running /\ handle_dpath_close(d)
    /\ pending' = {p \in pending : p.dpt # d}
    /\ log' = [s \in DOMAIN log |->
                 [log[s] EXCEPT !.lost = @ \/ \E p \in pending : p.dpt = d /\ p.sid = s]]
    /\ UNCHANGED <<m_sessions, objs, m_session_timers, actions_valid, nextXid, fault>>

Next ==
    \/ \E k \in Kinds : handle_request(k)
    \/ \E k \in Kinds, n \in 0 .. MaxMatches : handle_flow_request(k, n)
    \/ handle_port_stats_request
    \/ get_supported_actions
    \/ \E p \in pending : SwitchReplies(p) \/ SwitchReportsError(p)
    \/ \E s \in Sids : handle_timeout(s)
    \/ PeerConnects \/ ControllerLeaves
    \/ \E d \in Dpts : SwitchLeaves(d)

Spec == Init /\ [][Next]_vars

\* A switch that stays connected deals with every request it was sent.
SwitchAnswers(x) == \E p \in pending : p.xid = x /\ (SwitchReplies(p) \/ SwitchReportsError(p))

LiveSpec ==
    /\ Spec
    /\ \A x \in 1 .. MaxSessions * (MaxMatches + 1) : WF_vars(SwitchAnswers(x))

-----------------------------------------------------------------------------
(***************************************************************************)
(* Properties                                                              *)
(***************************************************************************)

\* A reply is dispatched through the pointer m_sessions holds for its xid: only
\* a session the proxy opened for itself, whose timer deletes it without
\* removing it, can have been deleted by then.
OnlyLocalSessionsDangle ==
    \A x \in DOMAIN m_sessions : LET o == objs[m_sessions[x]] IN o.alive \/ o.local

Registered(s) == \E x \in DOMAIN m_sessions : m_sessions[x] = s

\* Two may delete a session that the proxy opened for itself, its timer and the
\* answer, and each leaves the pointer of the other behind.  Until one does both
\* pointers are there, so none of them is forgotten; after that at most one is.
TimerOrAnswerDeletes ==
    \A s \in Sids : LET o == objs[s] IN
        /\ o.local /\ o.alive => s \in m_session_timers /\ Registered(s)
        /\ ~o.alive => ~(s \in m_session_timers /\ Registered(s))

\* What the switch still has to answer finds the session that asked, unless that
\* has been completed by an earlier part: only a port_stats reply goes astray.
RepliesFindTheirSession ==
    \A p \in pending : LET o == objs[p.sid] IN
        \/ p.xid \in DOMAIN m_sessions /\ m_sessions[p.xid] = p.sid
        \/ o.m_completed /\ ~o.alive
        \/ o.kind = "port_stats"

\* No request is answered twice, though a reply may come in parts, a flow
\* request gets several replies, and an error leaves the session registered.
AtMostOneAnswer == \A s \in Sids : log[s].answers <= 1

\* A session stays in the database only while the switch owes it an answer,
\* unless an error was reported to it or an answer was lost with a connection.
EntriesAwaitTheSwitch ==
    Running => \A x \in DOMAIN m_sessions :
        LET s == m_sessions[x] IN
        log[s].errored \/ log[s].lost \/ \E p \in pending : p.sid = s

\* When the answer to a barrier is sent, the switch has dealt with everything
\* that controllers asked of it before: the proxy forwards requests in order
\* and keeps no answer to a barrier of its own.
BarrierWaits ==
    \A b \in Sids : objs[b].kind = "barrier" /\ log[b].answers > 0 =>
        \A p \in pending : p.dpt = log[b].via => p.sid > b

\* An aggregate is answered only after the switch answered for every flow entry
\* it was asked about, provided each reply came in one part.
AggregateWaitsForAll ==
    \A s \in Sids : objs[s].kind = "aggregate_stats" /\ log[s].answers > 0 /\ ~log[s].split =>
        \A p \in pending : p.sid # s

\* An answer goes to the controller that asked, unless that was not the one in use
\* when it asked, or a controller has left since: a third may come and the switch
\* may change in between, the answers stay with the asker.
AnswersGoToTheAsker ==
    [][\A s \in Sids : log'[s].answers > log[s].answers =>
         log[s].asker \in {m_master, NoPeer}]_vars

\* Every request the proxy registers is answered at last, unless the switch reports
\* an error, a connection is missing when the answer comes, or the process ends.
RequestsAnswered ==
    \A s \in 1 .. MaxSessions :
        (s \in Sids /\ objs[s].kind # "port_stats" /\ ~objs[s].local)
            ~> (~Running \/ (s \in Sids /\ (log[s].answers > 0 \/ log[s].errored \/ log[s].lost)))

\* The flow-mod that has to wait for the supported actions fails, but the question
\* it made the proxy ask is not in vain: the answer is noted for the flow-mods to
\* come, unless the timer was faster, or the answer is an error, is lost, or comes
\* when the process has ended.
ActionsLearntAtLast ==
    \A s \in 1 .. MaxSessions :
        (s \in Sids /\ objs[s].local)
            ~> \/ actions_valid
               \/ s \notin m_session_timers
               \/ s \in Sids /\ (log[s].errored \/ log[s].lost)
               \/ ~Running /\ \E p \in pending : p.sid = s

\* morpheus.cc:410 "this method is the one that removes an expired session from
\* m_session_timers and the sessions database": nothing deleted is registered.
ExpiredSessionsForgotten == \A x \in DOMAIN m_sessions : objs[m_sessions[x]].alive

\* csh_flow_stats.cc:21 "Check if there are any, if not send a blank reply": the
\* blank list answers a request that matches no flow entry, and no other.
BlankMeansNoMatch ==
    \A s \in Sids : objs[s].kind = "flow_stats" /\ log[s].blank => log[s].sent = 0
=============================================================================
