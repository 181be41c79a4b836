----------------------------- MODULE FlowTable -----------------------------
(***************************************************************************)
(* Flow-mods.  The proxy keeps every flow entry a controller made together *)
(* with its translation (vectors translate and untranslate of              *)
(* flow_entry_translate.cc), and csh_flow_mod.cc turns each flow-mod into  *)
(* flow-mods for the switch.  Flow statistics go through the same table,   *)
(* so what it does not hold the controller does not get to see.            *)
(*                                                                         *)
(* The flow-mods for a switch are in its channel until it works them off,  *)
(* in order; it may refuse one, entries expire, a connection that closes   *)
(* loses what is in the channel, and a switch keeps its entries meanwhile. *)
(* Nothing of this is told to the table.  Priorities, timeouts and cookies *)
(* are left out: they are copied, and nothing here depends on them.        *)
(***************************************************************************)
EXTENDS Connections, Translation, FiniteSets

CONSTANTS
    Matches,     \* the matches of the controllers' flow-mods
    ActionLists, \* and their actions
    OutPorts,    \* and the out_ports of those that delete
    DEBUG,       \* TRUE: built with assertions
    MaxFlows,    \* bound: entries in the table
    MaxChannel   \* bound: flow-mods of controllers in a channel

\* Out_ports that are no port.
OFPP10_NONE  == 65535
OFPP10_ALL   == 65532
OFPP10_FLOOD == 65531
Reserved     == {OFPP10_NONE, OFPP10_ALL, OFPP10_FLOOD}

IsMatch(m) ==
    /\ DOMAIN m = {"in_port", "vlan", "field"}
    /\ m.in_port \in Nat \cup {Wild}

ASSUME FlowAssumption ==
    /\ \A m \in Matches : IsMatch(m)
    /\ ActionLists \subseteq Seq(Action)
    /\ OutPorts \subseteq Nat
    /\ DEBUG \in BOOLEAN
    /\ MaxFlows \in Nat /\ MaxChannel \in Nat

VARIABLES
    translate,     \* the entries as the controllers made them
    untranslate,   \* at the same places, the entries as translated
    actions_valid, \* m_dpe_supported_actions_valid
    channel,       \* what is under way to each switch, oldest first: for each
                   \* flow-mod of a controller, flow-mods by place in the table
    installed,     \* the flow table of each switch: match |-> actions
    fault          \* "none", or how the process went wrong

flowVars == <<translate, untranslate, actions_valid, channel, installed, fault>>
vars == <<connVars, flowVars>>

Commands    == {"ADD", "MODIFY", "MODIFY_STRICT", "DELETE", "DELETE_STRICT"}
Strict(cmd) == cmd \in {"MODIFY_STRICT", "DELETE_STRICT"}

FlowMod(cmd, m, actions, out) == [cmd |-> cmd, match |-> m, actions |-> actions, out_port |-> out]

\* What controllers ask for, and what a switch may be sent.
Wanted == [cmd : Commands, match : Matches, actions : ActionLists, out_port : OutPorts]
Translations ==
    {trans_actions(w.actions, w.match) :
        w \in {v \in [actions : ActionLists, match : Matches] :
                 trans_fault(v.actions, v.match, TRUE) = "none"}}
Actual == [cmd : Commands, match : {trans_match(m) : m \in Matches},
           actions : {<<>>} \cup ActionLists \cup Translations,
           out_port : OutPorts]

\* What a flow-mod of a controller becomes.
Batch == UNION {[places -> Actual] : places \in SUBSET (1 .. MaxFlows)}

FlowTypeOK ==
    /\ translate \in Seq(Wanted)
    /\ untranslate \in Seq(Actual)
    /\ Len(translate) = Len(untranslate) /\ Len(translate) <= MaxFlows
    /\ actions_valid \in BOOLEAN
    /\ channel \in [Dpts -> Seq(Batch)]
    /\ DOMAIN installed = Dpts
    /\ fault \in {"none", "out_of_range", "assertion", "double_free"}

Init ==
    /\ ConnInit
    /\ translate = <<>> /\ untranslate = <<>>
    /\ actions_valid = FALSE
    /\ channel = [d \in Dpts |-> <<>>]
    /\ installed = [d \in Dpts |-> [m \in {} |-> <<>>]]
    /\ fault = "none"

-----------------------------------------------------------------------------
(***************************************************************************)
(* The table                                                               *)
(***************************************************************************)

\* The places of the entries that match m covers.
matching(m, strict) == {i \in DOMAIN translate : contains(m, translate[i].match, strict)}

\* get_translated_matches_and_modify: both sides take the actions as they came.
with_actions(entries, places, actions) ==
    [i \in DOMAIN entries |->
        IF i \in places THEN [entries[i] EXCEPT !.actions = actions] ELSE entries[i]]

\* Mutant: a strict deletion selects like one that is not.
to_delete_never_strict(m, out, strict) ==
    {i \in matching(m, FALSE) : out \in Reserved \/ out = translate[i].out_port}

\* get_translated_matches_and_delete: an out_port selects by the out_port of the
\* flow-mod that made the entry.
to_delete(m, out, strict) ==
    {i \in matching(m, strict) : out \in Reserved \/ out = translate[i].out_port}

-----------------------------------------------------------------------------
(***************************************************************************)
(* Flow-mods of a controller; without both peers they are dropped          *)
(***************************************************************************)
Handles == fault = "none" /\ Connected /\ Len(channel[m_slave]) < MaxChannel

\* The flow-mods go to the switch in use, as one batch.
send_flow_mod_message(batch) ==
    channel' = IF DOMAIN batch = {} THEN channel
               ELSE [channel EXCEPT ![m_slave] = Append(channel[m_slave], batch)]

\* The flow-mod as it came, once for each of the places and with its match.
redirected(places, cmd, actions, out) ==
    [i \in places |-> FlowMod(cmd, untranslate[i].match, actions, out)]

\* eInval is answered by an error.  Nothing catches an unknown port, and the
\* template that catches a missing input port then frees the message twice.
flow_mod_fails(f) ==
    /\ fault' = CASE f = "eInval"       -> fault
                  [] f = "out_of_range" -> f
                  [] OTHER              -> IF DEBUG THEN "assertion" ELSE "double_free"
    /\ UNCHANGED <<translate, untranslate, channel>>

\* Mutant: the entry is stored as it came, once it has been translated.
add_flow_stores_original(cmd, m, actions, out) ==
    LET f     == trans_fault(actions, m, actions_valid)
        trans == FlowMod(cmd, trans_match(m), trans_actions(actions, m), out)
    IN  \/ /\ f = "none" /\ Len(translate) < MaxFlows
           /\ translate' = Append(translate, FlowMod(cmd, m, actions, out))
           /\ untranslate' = Append(untranslate, FlowMod(cmd, m, actions, out))
           /\ send_flow_mod_message(<<trans>>)
           /\ UNCHANGED fault
        \/ f # "none" /\ flow_mod_fails(f)

\* The new entry is translated, stored, and sent.
process_add_flow(cmd, m, actions, out) ==
    LET f     == trans_fault(actions, m, actions_valid)
        trans == FlowMod(cmd, trans_match(m), trans_actions(actions, m), out)
    IN  \/ /\ f = "none" /\ Len(translate) < MaxFlows
           /\ translate' = Append(translate, FlowMod(cmd, m, actions, out))
           /\ untranslate' = Append(untranslate, trans)
           /\ send_flow_mod_message(<<trans>>)
           /\ UNCHANGED fault
        \/ f # "none" /\ flow_mod_fails(f)

handle_add(m, actions, out) ==
    /\ Handles
    /\ process_add_flow("ADD", m, actions, out)
    /\ UNCHANGED <<connVars, actions_valid, installed>>

\* Entries that match take the new actions, and the switch gets the flow-mod
\* with the actions as they came.  If there are none it is an add.
handle_modify(cmd, m, actions, out) ==
    LET places == matching(m, Strict(cmd)) IN
    /\ Handles
    /\ IF places = {}
       THEN process_add_flow(cmd, m, actions, out)
       ELSE /\ translate' = with_actions(translate, places, actions)
            /\ untranslate' = with_actions(untranslate, places, actions)
            /\ send_flow_mod_message(redirected(places, cmd, actions, out))
            /\ UNCHANGED fault
    /\ UNCHANGED <<connVars, actions_valid, installed>>

\* Mutant: the flow-mods ask for the match the controller gave.
delete_as_it_came(cmd, m, out) ==
    /\ Handles
    /\ send_flow_mod_message([i \in to_delete(m, out, Strict(cmd)) |-> FlowMod(cmd, m, <<>>, out)])
    /\ UNCHANGED <<connVars, translate, untranslate, actions_valid, installed, fault>>

\* Mutant: the entries selected are erased, whatever the switch does.
delete_erases(cmd, m, out) ==
    LET places == to_delete(m, out, Strict(cmd))
        kept   == DOMAIN translate \ places
        Left(entries) == [k \in 1 .. Cardinality(kept) |->
                            entries[CHOOSE i \in kept : Cardinality({j \in kept : j <= i}) = k]]
    IN
    /\ Handles
    /\ send_flow_mod_message(redirected(places, cmd, <<>>, out))
    /\ translate' = Left(translate) /\ untranslate' = Left(untranslate)
    /\ UNCHANGED <<connVars, actions_valid, installed, fault>>

\* Mutant: one side of the table loses its last entry.
delete_erases_one_side(cmd, m, out) ==
    /\ Handles
    /\ send_flow_mod_message(redirected(to_delete(m, out, Strict(cmd)), cmd, <<>>, out))
    /\ translate' = IF to_delete(m, out, Strict(cmd)) = {} THEN translate
                    ELSE SubSeq(translate, 1, Len(translate) - 1)
    /\ UNCHANGED <<connVars, untranslate, actions_valid, installed, fault>>

\* The switch is to delete the entries selected; the table keeps them.
handle_delete(cmd, m, out) ==
    /\ Handles
    /\ send_flow_mod_message(redirected(to_delete(m, out, Strict(cmd)), cmd, <<>>, out))
    /\ UNCHANGED <<connVars, translate, untranslate, actions_valid, installed, fault>>

\* A reply to some features request, see Sessions.  It is not asked for again,
\* not even of another switch.
set_supported_dpe_features ==
    /\ fault = "none" /\ Connected
    /\ actions_valid' = TRUE
    /\ UNCHANGED <<connVars, translate, untranslate, channel, installed, fault>>

-----------------------------------------------------------------------------
(***************************************************************************)
(* The switch                                                              *)
(***************************************************************************)
OutputsTo(actions, out) ==
    \/ out = OFPP10_NONE
    \/ \E i \in DOMAIN actions :
         actions[i] = IF out \in Reserved THEN Flood ELSE Output(out)

obey(table, fm) ==
    LET covered == {m \in DOMAIN table : contains(fm.match, m, Strict(fm.cmd))}
        put     == [m \in DOMAIN table \cup {fm.match} |->
                      IF m = fm.match THEN fm.actions ELSE table[m]]
    IN  CASE fm.cmd = "ADD" -> put
          [] fm.cmd \in {"MODIFY", "MODIFY_STRICT"} ->
               IF covered = {} THEN put
               ELSE [m \in DOMAIN table |-> IF m \in covered THEN fm.actions ELSE table[m]]
          [] OTHER ->
               [m \in {x \in DOMAIN table : x \notin covered \/ ~OutputsTo(table[x], fm.out_port)}
                  |-> table[m]]

\* The switch obeys, or refuses, the first flow-mod of the oldest batch.
SwitchWorks(d) ==
    /\ fault = "none" /\ d \in dptUp /\ channel[d] # <<>>
    /\ LET batch == Head(channel[d]) IN
       \E first \in DOMAIN batch :
         LET rest == [i \in DOMAIN batch \ {first} |-> batch[i]] IN
         /\ \A i \in DOMAIN batch : first <= i
         /\ channel' = [channel EXCEPT ![d] =
                          IF DOMAIN rest = {} THEN Tail(channel[d])
                          ELSE <<rest>> \o Tail(channel[d])]
         /\ \/ installed' = [installed EXCEPT ![d] = obey(installed[d], batch[first])]
            \/ UNCHANGED installed
    /\ UNCHANGED <<connVars, translate, untranslate, actions_valid, fault>>

\* An entry times out, whether or not the switch is connected.
EntryExpires(d, m) ==
    /\ m \in DOMAIN installed[d]
    /\ installed' = [installed EXCEPT ![d] = [x \in DOMAIN installed[d] \ {m} |-> installed[d][x]]]
    /\ UNCHANGED <<connVars, translate, untranslate, actions_valid, channel, fault>>

-----------------------------------------------------------------------------
(***************************************************************************)
(* Connections come and go; the table is not told.                         *)
(***************************************************************************)
PeersComeAndGo ==
    /\ fault = "none" /\ (SwitchOpens \/ ControllerOpens \/ ControllerCloses)
    /\ UNCHANGED flowVars

SwitchLeaves(d) ==
    /\ fault = "none" /\ handle_dpath_close(d)
    /\ channel' = [channel EXCEPT ![d] = <<>>]
    /\ UNCHANGED <<translate, untranslate, actions_valid, installed, fault>>

Next ==
    \/ \E m \in Matches, out \in OutPorts :
         \/ \E actions \in ActionLists :
              \/ handle_add(m, actions, out)
              \/ \E cmd \in {"MODIFY", "MODIFY_STRICT"} : handle_modify(cmd, m, actions, out)
         \/ \E cmd \in {"DELETE", "DELETE_STRICT"} : handle_delete(cmd, m, out)
    \/ set_supported_dpe_features
    \/ \E d \in Dpts :
         \/ SwitchWorks(d) \/ SwitchLeaves(d)
         \/ \E m \in DOMAIN installed[d] : EntryExpires(d, m)
    \/ PeersComeAndGo

Spec == Init /\ [][Next]_vars

-----------------------------------------------------------------------------
(***************************************************************************)
(* Properties                                                              *)
(***************************************************************************)
Places == DOMAIN translate

\* The two sides of the table stay in step through adds, modifications and
\* deletions: statistics and deletions are asked of the switch by the translation
\* of the very match that was looked up.
SidesAgree == \A i \in Places : untranslate[i].match = trans_match(translate[i].match)

\* No switch, connected or not, has or is about to get an entry whose match the
\* table lacks: the controller can see and delete all that the proxy installed,
\* whatever was refused, has expired, was deleted, or got lost.
InstalledAreKnown ==
    LET stored == {untranslate[i].match : i \in Places} IN
    \A d \in Dpts :
        /\ DOMAIN installed[d] \subseteq stored
        /\ \A k \in DOMAIN channel[d] : \A i \in DOMAIN channel[d][k] :
             channel[d][k][i].match \in stored

\* A flow table once a batch is worked off, and once a whole channel is.
Work(table, batch) ==
    LET done[k \in 0 .. MaxFlows] ==
          IF k = 0 THEN table
          ELSE IF k \in DOMAIN batch THEN obey(done[k - 1], batch[k]) ELSE done[k - 1]
    IN  done[MaxFlows]

Settle(table, batches) ==
    LET after[k \in 0 .. Len(batches)] ==
          IF k = 0 THEN table ELSE Work(after[k - 1], batches[k])
    IN  after[Len(batches)]

Settled(d) == Settle(installed[d], channel[d])

Deletes(cmd, m, out) == cmd \in {"DELETE", "DELETE_STRICT"} /\ handle_delete(cmd, m, out)
Covered(m, strict)   == {untranslate[i].match : i \in matching(m, strict)}

\* A deletion without out_port that the switch obeys leaves it none of the entries
\* that were installed for the matches it covers, also those still under way.
DeleteTakesEffect ==
    [][\A cmd \in Commands, m \in Matches : Deletes(cmd, m, OFPP10_NONE) =>
         Covered(m, Strict(cmd)) \cap DOMAIN Settled(m_slave)' = {}]_vars

\* Virtual ports on one actual port have VLANs of their own there.
SeparatePorts ==
    \A p, q \in VirtualPorts :
        p # q /\ get_actual_port(p).port = get_actual_port(q).port
        => Tagged(p) /\ Tagged(q) /\ get_actual_port(p) # get_actual_port(q)

\* A deletion takes no entry but those of matches it covers, if all the entries are
\* for ports there are, and VLANs keep the virtual ports of an actual one apart.
DeleteSparesOthers ==
    [][SeparatePorts /\ (\A i \in Places : translate[i].match.in_port \in VirtualPorts \cup {Wild}) =>
       \A cmd \in Commands, m \in Matches, out \in OutPorts : Deletes(cmd, m, out) =>
         DOMAIN Settled(m_slave) \ DOMAIN Settled(m_slave)' \subseteq Covered(m, Strict(cmd))]_vars

\* The entry made last, if the step makes one.
Adds == Len(translate') > Len(translate)
Newest(entries) == entries[Len(entries)]

\* Whatever else a new entry does to a packet, each output to a tagged virtual port
\* sends it to the actual port with the tag of that very port.
TaggedOutputsTagged ==
    [][Adds => LET fe == Newest(translate') IN
         \A j \in DOMAIN fe.actions : LET p == fe.actions[j].arg IN
             fe.actions[j].type = "output" /\ Tagged(p) =>
                 get_actual_port(p) \in Emissions(NoVlan, Newest(untranslate').actions)]_vars

\* flow_entry_translate.cc:291 "matching a given match and return their translation
\* while deleting them": what was deleted is in the table no more.
DeletedEntriesForgotten ==
    [][\A cmd \in Commands, m \in Matches : Deletes(cmd, m, OFPP10_NONE) =>
         \A i \in DOMAIN translate' : ~contains(m, translate'[i].match, Strict(cmd))]_vars

\* flow_entry_translate.cc:277 "return their translation and modify the action list":
\* the actions of a translation are the translation of the actions.
ModifiedAreTranslated ==
    \A i \in Places :
        untranslate[i].actions = trans_actions(translate[i].actions, translate[i].match)

\* flow_entry_translate.cc:125 "ALL is all except input port".
FloodSparesInputOnly ==
    [][Adds => LET fe == Newest(translate') IN fe.actions = <<Flood>> =>
         Emissions(NoVlan, Newest(untranslate').actions)
             = {get_actual_port(p) : p \in VirtualPorts \ {fe.match.in_port}}]_vars
=============================================================================
