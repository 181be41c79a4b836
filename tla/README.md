# TLA+ models of xCPD

xCPD is an OpenFlow 1.0 proxy.  It stands between one switch (the *datapath*) and
one controller, and shows the controller *virtual* ports: each stands for an actual
port of the switch, with a VLAN tag of its own or untagged.  Everything the
controller says is rewritten on its way down, everything the switch says on its way
up.  This directory holds TLA+ models of that program, the TLC configurations that
check them and the TLAPS proofs about them.  Paths below are relative to
`src/src/xcpd/` of the repository.

## The system

| Component | Source | State | Operations | Modelled in |
|---|---|---|---|---|
| Connection management | `morpheus.cc` 177-378 | `dpt_state`, `ctl_state`, `m_slave`, `m_master` | `handle_ctrl_open/close`, `handle_dpath_open/close`, the two watchers | `Connections` |
| Session database | `morpheus.cc` 98-146, 380-536; `morpheus_nested.*` | `m_sessions`, `m_session_timers` | `associate_xid`, `remove_session`, `handle_error`, `handle_timeout`, request and reply templates | `Sessions` |
| Request sessions | `csh_features_request`, `csh_get_config`, `csh_desc_stats`, `csh_table_stats`, `csh_barrier`, `csh_port_stats`, `csh_flow_stats`, `csh_aggregate_stats` | one object each: `m_completed`, counters, lists | constructor sends the request; `process_*_reply`; `handle_error` | `Sessions` |
| Port mapper and translation | `cportvlan_mapper.h`, `flow_entry_translate.cc` 84-245 | `m_virtual_to_abstract` (constant) | `get_actual_port`, `actual_to_virtual_map`, `trans_match`, `trans_actions` | `Translation` |
| Flow-mods, table of translations | `csh_flow_mod.cc`, `flow_entry_translate.cc` 247-316 | `translate`, `untranslate` | ADD, MODIFY, MODIFY_STRICT, DELETE, DELETE_STRICT | `FlowTable` |
| Packets, port_mods, set_config | `csh_packet_in.cc`, `csh_packet_out.cc`, `csh_port_mod.cc`, `csh_set_config.cc` | none | `process_packet_in`, `process_packet_out`, `process_port_mod`, `process_set_config` | `Packets` |
| table_mod | `csh_table_mod.cc` | none | never instantiated | not modelled |
| Configuration | `config/*.cc`, `control_manager.cc` | virtual ports, addresses, handling of port_mods | the hooks of the scopes, in two readings; `get_port_no`, `add_vport` | `Configuration`, against `Setup` |
| Program start | `xcpd.cc` | - | `main`: builds the mapper, `initialiseConnections`, event loop | `Configuration` (`main`), `ConnInit`, `ConnNext` |
| Hardware managers | `hardware_management/` | - | reject port_mods | one case of `handle_port_mod` |
| rofl, the switch, controllers, hosts | not in the repository | - | - | environment of the modules |

How they interact.  The rofl library owns the sockets and one event loop
(`xcpd.cc:156`); it calls one handler of class `morpheus` at a time.  A handler runs
to its end, so each handler is one action here; the concurrency is between
*messages and connections*: whatever order the handlers are called in is possible,
and sessions, tables and pointers live across the calls.  Handlers of controller
requests create session objects, which send to `m_slave` and enter themselves in
`m_sessions` under the pair of the request's xid and the new xid.  Replies find
their session by the new xid, and the answer goes to `m_master`.  Flow-mods go
through the translation into the table and to the switch; flow statistics go
through the same table.  Packets only use the mapper.  The mapper and the handling of
port_mods come from the configuration file, which is read before all that: `PortMap`
and `port_config_handling` are CONSTANTS of the other modules.

What is hard about it: peers that come, go and replace one another in any order
while sessions, timers and tables still refer to them; answers that come late, in
parts, out of order, as errors, or not at all; session objects reached through two
containers with different ideas of who deletes them; a table of translations that
is updated before the switch has done anything; actual and virtual port numbers
that are both plain integers; and a configuration whose parts come in the wrong order,
so that it is read twice into one global object.  `PROJECT.json` lists these hazards line by line with
the properties that watch them.

What makes each component correct:

* connections: no pointer to a vanished peer, path states that agree with the
  pointers, a side that is always being watched when it has to be, no silent change
  of controller, and a peer that keeps trying gets in;
* sessions: pointers in the database are live, no request is answered twice or never,
  a barrier's answer is not early, entries do not outlive their purpose;
* translation and flow table: the original and translated sides stay in step, the
  switch has nothing the table does not know of, deletions reach all they cover and
  nothing else, outputs carry the tag of their port;
* packets: no packet is shown or sent on another VLAN than its own, shown as from two
  ports, or sent by another switch than the order was for; none vanishes, and a switch
  only changes ports that were meant;
* configuration: two readings come to what the file says, and the second takes nothing
  back of what the first found.

## Modules

    Connections          Translation              Setup
     |    |     \         /      \                  :
     |  Sessions  FlowTable     Packets        Configuration
     |    |  \       | \          |  \              |     \
     |    |      MCFlowTable |     | MCPackets      | MCConfiguration
     |  SessionsProofs FlowTableProofs PacketsProofs ConfigurationProofs
     |                   |
     |                  DeletionProofs
    ConnectionsProofs  (extended by the proofs of the next three)
    TranslationProofs  (EXTENDS Translation; extended by FlowTableProofs, PacketsProofs)

A line is EXTENDS; the dotted one is `Contract == INSTANCE Setup WITH ...`.

`Sessions`, `FlowTable` and `Packets` each compose a part of the message handling
with `Connections`: they EXTEND it, use its variables, and their steps on
connections are its actions.  Each is proved to implement it
(`SessRefinesConn`, `FlowRefinesConn`, `PacketsRefineConn`): every step is a step
of `ConnNext` or leaves `connVars` alone, so `Connections` serves as the abstract
specification of the three and its theorems carry over.

**Connections.**  Variables with the code's names, and four for rofl: which sides
it was asked to watch (`dptWatched`, `ctlWatched`) and who is connected (`dptUp`,
`ctlUp`).  A side may be watched while a peer is connected, so several peers may be
connected at once, which the handlers have code for.  Listening and dialling are
one.  `handle_dpath_close` calls the watcher *before* it closes the state, and the
action keeps that order.

**Sessions.**  A session object is a record in the sequence `objs` and is known by its
place, which plays the part of the pointer: `alive` becomes FALSE when the code
deletes it, and a use after that is the fault `use_after_free`.  `m_sessions` maps
the switch-side xid to the object; the controller-side half of the code's key is
never used for look-up.  `pending` is what the switch owes; `log` is history for the
properties.  The blocking wait of `get_supported_actions` cannot end by an answer,
as the thread that waits is the one that would receive it, so the action takes the
time-out at once and leaves the session and its timer behind, as the code does.
Without a free place for the session's timer (`TimerSlots`, 4095 in the code) the
process ends by the fault `range_error`.  The answer that comes later sets
`actions_valid`, unless the timer has deleted the session by then.  `log[s].asker` is
the controller in use that made the request: nothing in the code remembers it, and the
property says when the answer gets to it all the same.  A session that the proxy opened
for itself is reached by two pointers, that of its timer and that of the database, and
deleted through one of them while the other stays: `TimerOrAnswerDeletes` says that this
is all that goes wrong.  Port statistics are requested but not registered, and with a
handling by hardware refused by an exception that the template makes nothing of.  The contents of answers are
left out, but for whether a list is blank.

**Translation.**  Operators only.  A match has an input port, a VLAN and one field
for all others.  Action lists are sequences of records; actions the code refuses are
one constant, actions it passes through another.  `Emissions` is what a switch does
with a packet under OpenFlow 1.0: it is external and used in properties and by the
switch of `Packets`.

**FlowTable.**  `translate` and `untranslate` are the code's two vectors.  `channel`
holds what has been sent to each switch, one batch for each flow-mod of the
controller; `installed` is the switch's own table, which survives connections.  The
switch may obey or refuse each flow-mod, and entries expire at any time.
`actions_valid` is `m_dpe_supported_actions_valid`: without it a flow-mod with
actions is refused.

**Packets.**  Packets come in at a port with a tag (and maybe another under it), are
shown, are sent out through an action list, and leave the switch somewhere.  An order
(`Order`) has the switch it went to, the packet with its tag, the virtual `in_port` that
the controller names, and the actions; `Targets` are the virtual ports it is for, a flood
being for all but its `in_port`.  What
the code sends for one list is a *sequence* of packet_outs, each with the fields
rewritten so far; an error ends it, after what precedes it has been sent.  Each has the
`in_port` as the controller gave it, untranslated (`csh_packet_out.cc:36`, `101`, `155`),
and the switch, as OpenFlow 1.0 has it, sends nothing out of the actual port of that
number.  Two departures from what a controller would expect follow, and have names:
`Reflected`, the flood that includes the input port, and `Suppressed`, the output that the
switch leaves out because its actual port has the number of the virtual input port.  A port_mod
goes to the actual port or is refused, a set_config as it came.  The histories
`arrived`, `asked`, `emitted`, `modified` and `changed` serve the properties.  Nothing
in a configuration forbids two virtual ports for one actual port and VLAN (the code
has a look-up for a set of them), and the instance has two.

**Configuration.**  One action is one hook of a scope of `config/`, or the demands a
scope makes on its group; `hook` is the one to run next.  The order is that of the
code: the group `xcpd` first, with the virtual ports, then `openflow`'s section of the
switch with the names of the actual ports, all of it twice.  `cm` is the one
`control_manager`, with the defaults its `init` sets.  A hook that throws ends in
"refused", as `main` catches nothing of it.  `main` is the last action: it builds the map and what
`morpheus` is constructed with (`proxy`).

**Setup** is the abstract specification: one step that decides, by operators over the
*file* (which file is acceptable, which address, number and VLAN it means), whether the
proxy runs and with which settings.  It knows nothing of hooks, defaults that are
overwritten, or two readings.  `Configuration` implements it under the refinement
mapping of `Contract` (phase from `hook`, settings from `proxy`): `ReadsTheFile` is
`Contract!SetupSpec`, with the liveness that a reading comes to an end.

What `Setup` had to say, to be implemented, is where this program differs from what one
would expect of a configuration file; its comments name each:

* A virtual port's `mac` and `name` are set on a copy that is dropped
  (`config/virtual_port_scope.cc:80-94`): the port keeps the ones made up for it.
* Empty names in the list of ports take no number (`config/xcpd_config.cc:226-235`), so the
  ports after them have a smaller number than their place, though the example file says
  that order and position in the array dictate it (`config_xcpd.cfg:24`).
  `Position` is what the file says, and `NumberOf` takes off `EmptyBefore`.
* A VLAN is taken modulo 2^16 before it is checked (`xcpd.cc:125`): 65547 is accepted as
  11, though `cportvlan_mapper.h:25` says that only 0 to 0x0fff are valid.  `Acceptable`
  is what the header says; `Run` accepts besides what `Excused` names, and nothing else.
* `port-stat-handling` is read and never used: `csh_port_stats.cc:19` asks for the
  handling of port_mods.
* Settings of the switch that do not fit its mode end the process, though the message
  says "ignored" (`config/xcpd_config.cc:176`, `200`).

Faults.  Where the code throws past every `catch`, frees twice or runs into an
assertion, the model stops in a state with `fault` set; the runs say
`CHECK_DEADLOCK FALSE` for that reason, and because the bounds on sessions, flows
and orders end a behaviour.  `DEBUG` is TRUE for a build with `--enable-debug`
(`config/debug.m4:15` defines NDEBUG otherwise); the runs use FALSE, the default,
in which the program goes on where the other would stop.

Definitions whose comment begins with "Mutant" are not part of a specification:
each is a plausible mistake in the definition after it, and `PROJECT.json` says which
property finds it.

## Runs

| Run | Instance | What it shows |
|---|---|---|
| `Connections` | 3 switches, 2 controllers | Any interleaving of openings and closings. Three switches are enough for one in use, one replaced and one arriving. |
| `Sessions` | 1 switch, 2 controllers, all 9 kinds, 2 sessions, up to 2 entries for a statistics request, one additional part for a reply, 1 place for timers | Two sessions interact through barriers, through the proxy's own features request, and through the switch's order; two entries make a counter count; the switch leaves with answers owed and comes back; a second controller comes between request and answer; the second timer finds no place. Safety and liveness are asked of the same behaviours. |
| `FlowTable` | 1 switch, 2 entries, 2 flow-mods in the channel, three virtual ports: two tagged on one actual port, one untagged whose actual number is a virtual number too | Two entries are the fewest that a deletion can tell apart, and two places in the channel put a deletion behind an addition under way. One action list has two outputs and a field rewrite; the other is a flood, whose translation fails when the match is for any port. Both are refused while the switch's actions are unknown. |
| `Packets` | 2 switches, 2 packets, 2 orders, the same map and two virtual ports for one actual port and VLAN, arrivals with a second tag and on an unknown port, `in_port`s 1 (the number of an actual port as well) and NONE | Lists with a fault of each kind, with an untagged output after a tagged one, and with a flood; port_mods for every virtual port and for unknown ones. Two switches make an order go to another switch than the packet came in at. |
| `Configuration` | 418 files: each has one thing left out, doubled, misspelt or out of range in the section of the switch, and one in the group `xcpd` | Both readings of each, hook by hook, to the running proxy or the refusal. Two virtual ports on one actual port, unknown and missing ports, VLANs at both boundaries, two switches, none. |
| `ConnectionsReconnect`, `SessionsExpired`, `SessionsBlank`, `FlowTableDelete`, `FlowTableModify`, `FlowTableFlood`, `PacketsFlood` | the smallest that shows it | Each refutes one statement that a comment in the code makes about the code. |

`Packets` uses symmetry (of packets and of switches): its specification and properties
name none of them, and none is a liveness property.  The others need none.  One switch
in `Sessions` is what liveness costs; that no property of safety depends on it is proved
(below): the theorems are for any number of switches.

### What the violated runs show

* `ReconnectsToSwitch` (`morpheus.cc:373`): the reconnection after the switch has
  left is asked for before the state is closed, and the watcher ignores it.
* `ExpiredSessionsForgotten` (`morpheus.cc:410`): an expired session is deleted and
  stays in the database.
* `BlankMeansNoMatch` (`csh_flow_stats.cc:21`): the constructor wipes what the request
  has just recorded, so every flow statistics request is answered by an empty list.
* `DeletedEntriesForgotten` (`flow_entry_translate.cc:291`): deletions never take an
  entry out of the table.
* `ModifiedAreTranslated` (`flow_entry_translate.cc:277`): a modification stores and
  sends untranslated actions.
* `FloodSparesInputOnly` (`flow_entry_translate.cc:125`): a flood compares an actual port
  with a virtual one and leaves out the wrong port.
* `FloodSparesInput` (`csh_packet_out.cc:143`, against the comment at 104-105): the flood of
  a packet_out goes to all virtual ports, and back to where the packet came from.

These have runs of their own because a comment claims the opposite of one handler.  Where
a departure is part of what a whole operation does, the property of that operation names
it and excludes everything else: `EmptyBefore` and `Excused` in `Setup`, `Reflected` and
`Suppressed` in `Packets`, port statistics in `RepliesFindTheirSession`.

### Fairness

`ConnLiveSpec` has weak fairness of the opening of a switch and of a controller: a
side that is watched is dialled every second by rofl, or listens for peers that
dial.  Nobody is obliged to leave.  `LiveSpec` of `Sessions` has weak fairness of the
switch's answer to each request: a switch that stays connected answers by a reply or
an error.  A switch that leaves takes its requests with it, and `RequestsAnswered`
counts that as an end.  Timers need no fairness, as nothing is promised that waits for
one: `ActionsLearntAtLast` lets a timer come first.  Nothing is assumed of controllers.
`Spec` of `Configuration` has weak fairness of
its next step: a sequential program that does not wait for anything goes on.

## Proofs

All theorems are checked by TLAPS for every value of the constants, from the named
assumptions of the modules: `PeersAssumption` (the null pointer is no peer),
`SessionsAssumption`, `MapperAssumption` (the map is a sequence of ports), 
`FlowAssumption`, `PacketsAssumption` and `FilesAssumption` (inputs have the right
shape).

* `ConnectionsProofs`.  `ConnInv` is the conjunction of typing, `NoStalePeer`,
  `StateMatchesPeer` and `ControllerSideWatched`; it is inductive as it stands.  The
  handlers branch on pointers *and* on states, so neither half is inductive alone.
  All safety properties of the run are theorems.
* `SessionsProofs`.  `AtMostOneAnswer` and `BarrierWaits` speak of answers and of what
  the switch owes.  They become inductive with `XidsInOrder` (numbers towards the
  switch are fresh and grow with the sessions), `DatabaseAgrees` (a reply finds the
  session that asked) and `AnsweredIsOver` (an answered session is registered no
  more, or nothing is owed to it: the case of an error reported to `table_stats`).
  `TimersAreLocal` gives `OnlyLocalSessionsDangle`.  `PointersInOrder` is
  `TimerOrAnswerDeletes` and `RepliesFindTheirSession`, inductive together with the
  former: the first holds because the
  answer takes a session out of the database as it deletes it, and the timer out of the
  timers; the second because every request but that for port statistics is registered
  as it is sent, and taken out only when its session is over.  One lemma per handler shows the
  invariant, most of them through a common lemma on steps that make no session.
  `AnswersGoToTheAsker` rests on an invariant of its own, `AskerInUse`: whoever is
  remembered as asking is the controller in use.  It is inductive because a controller
  is taken into use only when there is none (the invariant of `Connections`), and the
  departure of any controller ends the memory of all.
  `AggregateWaitsForAll` and `EntriesAwaitTheSwitch` rest on `Counted`: an aggregate
  waits for no fewer replies than the switch owes it (or a last reply would come after
  the answer), and a registered session for no more (or it would wait for ever), which
  needs that each part owed would find the session.  Errors, losses and replies in
  parts break one half each; the properties except them, and so does the invariant.
* `TranslationProofs`.  Lists of actions are flattened from lists of lists, a recursive
  function in the library.  `FlattenParts` says what a flattening holds and in which
  order, by induction on the number of parts.  The theorem of induction in the library
  takes an operator, which the provers cannot instantiate; well-foundedness of the
  natural numbers is stated for sets, and `SetInduction` derives from it an induction for
  a *set* of numbers.  With it: `FloodSends` (a flood outputs to the ports it is for and no
  others, each under its own tag, the untagged ones before any tag is set),
  `SendsWhereAsked` and `SendsToEach` (what a switch makes of such a list, both ways)
  and `TranslationTags` (outputs to tagged ports in a translation).
* `FlowTableProofs`.  `FlowInv` is typing, `SidesAgree` and `InstalledAreKnown`.  The
  last is inductive because an entry is stored before it is sent, what is sent for
  an entry carries the stored match, and no step removes a match.  (The mutant that
  does erase deleted entries breaks it: the comment of `FlowTableDelete` cannot be
  made true by filling `dellist` alone, as the switch may refuse.)
  `TaggedOutputsTagged` is `TranslationTags` for the entry an addition stores.
* `DeletionProofs`.  `DeleteTakesEffect` and `DeleteSparesOthers` look ahead, at the
  switch's table when it has worked off its channel.  The recursions that say so (`Work`,
  `Settle`) are opened by `SetInduction`; a deletion is then one batch more, whose
  flow-mods delete and add nothing (`DeletionLemma`).  `DeleteTakesEffect` follows, as each
  entry's own match covers itself.  `DeleteSparesOthers` needs the converse of translation,
  `CoversAlike`: what a translated match covers, the match itself covers.  That is false of
  a map with a tagged and an untagged virtual port on one actual port, where a deletion on
  the untagged one takes the tagged one's entries too, so the property says
  `SeparatePorts`, and it needs `UntaggedMatches`: no entry stored has a VLAN of the
  controller's in its match, as those are refused.
* `PacketsProofs`.  `PktInv` says that what is under way to the proxy has arrived, that
  a packet arrives but once, and that what was shown arrived where exactly one virtual
  port stands; from it follow `ShownWhereItArrived` and `ShownAsOnePort`.  `OutInv` types
  the channels and says that all that is under way was meant: a port_mod is for the
  actual port of a virtual port that was to be changed, and what a switch would emit for
  a packet_out was asked for by an order for this switch, of the same packet and tag.  It
  gives `PktTypeOK`, `ChangedAsAsked` and
  `LeavesWhereAsked`, through a common lemma on steps that send.  `Kept` adds, for `NothingVanishes`,
  that whatever was asked for has left its switch, with its tag, or is under way to it.
  For the order of a list that is `SendsToEach` of `TranslationProofs`; the one thing that
  can keep it is the untranslated `in_port`, `Suppressed`.
* `ConfigurationProofs`.  `CfgInv` says, hook by hook, how far `cm` has come towards what
  the file means, in the first reading and in the second; a hook that refuses does so
  only to a file `Setup` finds unacceptable, and one that passes has checked its part of
  what `Setup` demands, so that at `main` all of it holds.  `CfgReadsTheFile` is the
  safety part of `ReadsTheFile`; that the reading ends is only model-checked.

All invariants and all action properties of the passing runs are theorems.  Only
model-checked: liveness (`SwitchReturns`, `ControllerReturns`, `RequestsAnswered`,
`ActionsLearntAtLast`, and that part of `ReadsTheFile`), which is
beyond the prover; and the violated properties, which are no theorems.

## Bounds

`MaxSessions`, `MaxMatches` and `MaxMore` bound the guards of `Sessions`, `MaxFlows` and
`MaxChannel` those of `FlowTable`, `MaxOrders` that of `Packets`.  They restrict what
controllers and the switch do, never a handler halfway, with one exception: an
addition to a full table (`MaxFlows`) does not happen at all.  Transaction ids are not
reused (in the code after 2^32).  `TimerSlots` is 4095 in the code and 1 in the runs, so
that they do run out.

## Not modelled, and why

* `table_mod`: dead code.  `cmessagetranslator.h`: used by nothing.
* The syntax of the configuration file and the types of its settings, which libconfig
  checks; the section with the hardware manager's parameters, which only its manager
  reads; command line, logging and daemonising.
* Contents of statistics and of the features reply (the virtual ports advertised to
  the controller): data that no property here tells apart.
* Locks: one event loop calls the handlers, so none of them is ever contended.
* The destructor of `morpheus`: the event loop ends with the process.
* Which actions a switch supports: abstracted to whether the proxy knows.

## Plan

The order follows how much depends on a part.  Done: `Connections`, `Sessions`,
`Translation`, `FlowTable`, `Packets`, `Configuration` with the runs and theorems above.

Next, to extend the models:

1. Supported actions per switch in `FlowTable`: what may be said of the actions a switch
   is sent after another one has told which it supports (`morpheus.cc:153`).
2. Aggregates over the table, as a composition of `Sessions` and `FlowTable`: an entry added
   twice is asked about twice (`flow_entry_translate.cc:64`); `out_port` selecting what is
   deleted, in an instance of `FlowTable`.
3. A build with assertions (`DEBUG`) in `Sessions`.

Then, to prove more:

1. The converse of translation beyond deletions: what a match covers, its translation
   covers (`contains` towards `trans_match`), for modifications.
2. What an answer to a session in parts holds, if the contents of answers are modelled.
3. Why the violated runs' properties fail for every instance: that a deletion never
   shortens the table, as a theorem on `FlowTable`.
