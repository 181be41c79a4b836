-------------------------- MODULE FlowTableProofs --------------------------
(***************************************************************************)
(* The flow table for any port map, matches, actions and bounds.           *)
(*                                                                         *)
(* InstalledAreKnown is inductive because three things hold together: an   *)
(* entry is stored before it is sent, what is sent for a stored entry      *)
(* carries the stored match, and no step takes a match out of the table.   *)
(* SidesAgree needs that modifications leave matches alone.                *)
(***************************************************************************)
EXTENDS FlowTable, ConnectionsProofs, TranslationProofs

FlowInv ==
    /\ FlowTypeOK
    /\ SidesAgree
    /\ InstalledAreKnown

\* The matches on the actual side of the table.
StoredMatches == {untranslate[i].match : i \in DOMAIN untranslate}

-----------------------------------------------------------------------------
\* A function on an initial segment is a sequence.
LEMMA SegmentLemma ==
  ASSUME NEW S, NEW n \in Nat, NEW f \in [1 .. n -> S]
  PROVE  f \in Seq(S) /\ Len(f) = n
  OBVIOUS

\* A batch appended to the channel of the switch in use.
LEMMA SendLemma ==
  ASSUME channel \in [Dpts -> Seq(Batch)], Connected, ConnTypeOK,
         NEW batch \in Batch, send_flow_mod_message(batch)
  PROVE  /\ channel' \in [Dpts -> Seq(Batch)]
         /\ \A d \in Dpts : \A k \in DOMAIN channel'[d] :
              channel'[d][k] = batch \/ \E l \in DOMAIN channel[d] : channel'[d][k] = channel[d][l]
<1>1. m_slave \in Dpts /\ channel[m_slave] \in Seq(Batch)
  BY DEF Connected, ConnTypeOK
<1>2. CASE DOMAIN batch = {}
  BY <1>2 DEF send_flow_mod_message
<1>3. CASE DOMAIN batch # {}
  <2> DEFINE c == Append(channel[m_slave], batch)
  <2>1. /\ c \in Seq(Batch) /\ Len(c) = Len(channel[m_slave]) + 1
        /\ \A k \in 1 .. Len(channel[m_slave]) : c[k] = channel[m_slave][k]
        /\ c[Len(channel[m_slave]) + 1] = batch
    BY <1>1, AppendProperties
  <2>2. channel' = [channel EXCEPT ![m_slave] = c]
    BY <1>3 DEF send_flow_mod_message
  <2> HIDE DEF c
  <2>3. \A k \in DOMAIN c : c[k] = batch \/ \E l \in DOMAIN channel[m_slave] : c[k] = channel[m_slave][l]
    BY <2>1, <1>1
  <2>4. channel' \in [Dpts -> Seq(Batch)]
    BY <2>1, <2>2
  <2>5. \A d \in Dpts : channel'[d] = IF d = m_slave THEN c ELSE channel[d]
    BY <2>2
  <2> QED
    BY <2>3, <2>4, <2>5
<1> QED
  BY <1>2, <1>3

\* A handler that stores what it sends, and loses no match, keeps the switches'
\* entries known.
LEMMA KnownLemma ==
  ASSUME InstalledAreKnown, channel \in [Dpts -> Seq(Batch)], Connected, ConnTypeOK,
         Len(translate) = Len(untranslate), translate \in Seq(Wanted), untranslate \in Seq(Actual),
         Len(translate') = Len(untranslate'),
         translate' \in Seq(Wanted), untranslate' \in Seq(Actual),
         UNCHANGED installed,
         StoredMatches \subseteq StoredMatches',
         NEW batch \in Batch, send_flow_mod_message(batch),
         \A i \in DOMAIN batch : batch[i].match \in StoredMatches'
  PROVE  InstalledAreKnown' /\ channel' \in [Dpts -> Seq(Batch)]
<1>1. DOMAIN translate = DOMAIN untranslate /\ DOMAIN translate' = DOMAIN untranslate'
  OBVIOUS
<1>2. {untranslate[i].match : i \in Places} = StoredMatches
  BY <1>1 DEF StoredMatches, Places
<1>3. {untranslate[i].match : i \in Places}' = StoredMatches'
  BY <1>1 DEF StoredMatches, Places
<1>4. /\ channel' \in [Dpts -> Seq(Batch)]
      /\ \A d \in Dpts : \A k \in DOMAIN channel'[d] :
           channel'[d][k] = batch \/ \E l \in DOMAIN channel[d] : channel'[d][k] = channel[d][l]
  BY SendLemma
<1>5. ASSUME NEW d \in Dpts
      PROVE  /\ DOMAIN installed'[d] \subseteq StoredMatches'
             /\ \A k \in DOMAIN channel'[d] : \A i \in DOMAIN channel'[d][k] :
                  channel'[d][k][i].match \in StoredMatches'
  <2>1. /\ DOMAIN installed[d] \subseteq StoredMatches
        /\ \A k \in DOMAIN channel[d] : \A i \in DOMAIN channel[d][k] :
             channel[d][k][i].match \in StoredMatches
    BY <1>2, <1>5 DEF InstalledAreKnown
  <2>2. ASSUME NEW k \in DOMAIN channel'[d], NEW i \in DOMAIN channel'[d][k]
        PROVE  channel'[d][k][i].match \in StoredMatches'
    <3>1. CASE channel'[d][k] = batch
      BY <3>1, <2>2
    <3>2. CASE \E l \in DOMAIN channel[d] : channel'[d][k] = channel[d][l]
      BY <3>2, <2>1, <2>2
    <3> QED
      BY <3>1, <3>2, <1>4, <1>5
  <2> QED
    BY <2>1, <2>2
<1> QED
  BY <1>3, <1>4, <1>5 DEF InstalledAreKnown

\* A new entry: stored translated, then sent.
LEMMA AddInv ==
  ASSUME FlowInv, ConnTypeOK, Handles, UNCHANGED <<actions_valid, installed>>,
         NEW cmd \in Commands, NEW m \in Matches, NEW actions \in ActionLists, NEW out \in OutPorts,
         process_add_flow(cmd, m, actions, out)
  PROVE  FlowInv'
<1> DEFINE f     == trans_fault(actions, m, actions_valid)
           fe    == FlowMod(cmd, m, actions, out)
           trans == FlowMod(cmd, trans_match(m), trans_actions(actions, m), out)
<1>1. CASE f # "none" /\ flow_mod_fails(f)
  <2>1. UNCHANGED <<translate, untranslate, channel, actions_valid, installed>>
    BY <1>1 DEF flow_mod_fails
  <2>2. f = "eInval" => fault' = fault
    BY <1>1 DEF flow_mod_fails
  <2>3. fault' \in {fault, "out_of_range", "assertion", "double_free"}
    BY <1>1, <2>2 DEF flow_mod_fails
  <2> HIDE DEF f
  <2> QED
    BY <2>1, <2>3 DEF FlowInv, FlowTypeOK, SidesAgree, InstalledAreKnown, Places
<1>2. CASE /\ f = "none" /\ Len(translate) < MaxFlows
           /\ translate' = Append(translate, fe)
           /\ untranslate' = Append(untranslate, trans)
           /\ send_flow_mod_message(<<trans>>)
           /\ UNCHANGED fault
  <2>1. fe \in Wanted /\ fe.match = m
    BY DEF FlowMod, Wanted
  <2>2. trans \in Actual /\ trans.match = trans_match(m)
    <3>1. trans_actions(actions, m) \in Translations
      <4> DEFINE w == [actions |-> actions, match |-> m]
      <4>1. trans_fault(actions, m, TRUE) = "none"
        BY <1>2 DEF trans_fault
      <4>2. /\ w \in [actions : ActionLists, match : Matches]
            /\ w.actions = actions /\ w.match = m
        OBVIOUS
      <4> HIDE DEF w
      <4> QED
        BY <4>1, <4>2 DEF Translations
    <3> QED
      BY <3>1 DEF FlowMod, Actual
  <2> HIDE DEF fe, trans
  <2>3. /\ translate \in Seq(Wanted) /\ untranslate \in Seq(Actual)
        /\ Len(translate) = Len(untranslate) /\ Len(translate) \in Nat
        /\ channel \in [Dpts -> Seq(Batch)] /\ Connected /\ MaxFlows \in Nat
    BY FlowAssumption DEF FlowInv, FlowTypeOK, Handles
  <2>4. /\ translate' \in Seq(Wanted) /\ Len(translate') = Len(translate) + 1
        /\ \A i \in 1 .. Len(translate) : translate'[i] = translate[i]
        /\ translate'[Len(translate) + 1] = fe
    BY <1>2, <2>1, <2>3, AppendProperties
  <2>5. /\ untranslate' \in Seq(Actual) /\ Len(untranslate') = Len(translate) + 1
        /\ \A i \in 1 .. Len(translate) : untranslate'[i] = untranslate[i]
        /\ untranslate'[Len(translate) + 1] = trans
    BY <1>2, <2>2, <2>3, AppendProperties
  <2>6. DOMAIN untranslate = 1 .. Len(translate) /\ DOMAIN untranslate' = 1 .. Len(translate) + 1
    BY <2>3, <2>5
  <2>7. StoredMatches \subseteq StoredMatches' /\ trans.match \in StoredMatches'
    BY <2>3, <2>5, <2>6 DEF StoredMatches
  <2>8. <<trans>> \in Batch /\ DOMAIN <<trans>> = {1} /\ <<trans>>[1] = trans
    <3>1. {1} \in SUBSET (1 .. MaxFlows)
      BY <1>2, <2>3
    <3>2. <<trans>> \in [{1} -> Actual]
      BY <2>2
    <3> QED
      BY <3>1, <3>2 DEF Batch
  <2>9. InstalledAreKnown' /\ channel' \in [Dpts -> Seq(Batch)]
    <3> DEFINE batch == <<trans>>
    <3>1. send_flow_mod_message(batch)
      BY <1>2
    <3>2. batch \in Batch /\ \A i \in DOMAIN batch : batch[i].match \in StoredMatches'
      BY <2>7, <2>8
    <3>3. Len(translate') = Len(untranslate') /\ UNCHANGED installed /\ InstalledAreKnown
      BY <2>4, <2>5 DEF FlowInv
    <3> HIDE DEF batch
    <3> QED
      BY <2>3, <2>4, <2>5, <2>7, <3>1, <3>2, <3>3, KnownLemma
  <2>10. FlowTypeOK'
    BY <1>2, <2>3, <2>4, <2>5, <2>9 DEF FlowInv, FlowTypeOK
  <2>11. SidesAgree'
    BY <2>1, <2>2, <2>3, <2>4, <2>5 DEF FlowInv, SidesAgree, Places
  <2> QED
    BY <2>9, <2>10, <2>11 DEF FlowInv
<1> QED
  BY <1>1, <1>2 DEF process_add_flow

\* What is sent for entries of the table carries their matches.
LEMMA RedirectLemma ==
  ASSUME FlowTypeOK, NEW places \in SUBSET Places, NEW cmd \in Commands,
         NEW actions \in {<<>>} \cup ActionLists, NEW out \in OutPorts
  PROVE  /\ redirected(places, cmd, actions, out) \in Batch
         /\ DOMAIN redirected(places, cmd, actions, out) = places
         /\ \A i \in places :
              redirected(places, cmd, actions, out)[i].match = untranslate[i].match
         /\ \A i \in places : untranslate[i].match \in StoredMatches
<1>1. /\ DOMAIN translate = DOMAIN untranslate
      /\ DOMAIN untranslate = 1 .. Len(translate) /\ Len(translate) \in Nat
      /\ \A i \in DOMAIN untranslate : untranslate[i] \in Actual
      /\ MaxFlows \in Nat /\ Len(translate) <= MaxFlows
  BY FlowAssumption DEF FlowTypeOK
<1>2. places \in SUBSET (1 .. MaxFlows) /\ places \subseteq DOMAIN untranslate
  BY <1>1 DEF Places
<1>3. \A i \in places : FlowMod(cmd, untranslate[i].match, actions, out) \in Actual
  BY <1>1, <1>2 DEF FlowMod, Actual
<1>4. redirected(places, cmd, actions, out) \in [places -> Actual]
  BY <1>3 DEF redirected
<1> QED
  BY <1>2, <1>4 DEF redirected, Batch, FlowMod, StoredMatches

\* A modification changes no match.
LEMMA ModifyInv ==
  ASSUME FlowInv, ConnTypeOK, NEW cmd \in {"MODIFY", "MODIFY_STRICT"}, NEW m \in Matches,
         NEW actions \in ActionLists, NEW out \in OutPorts,
         handle_modify(cmd, m, actions, out)
  PROVE  FlowInv'
<1> DEFINE places == matching(m, Strict(cmd))
<1>1. Handles /\ UNCHANGED <<actions_valid, installed>> /\ cmd \in Commands
  BY DEF handle_modify, Commands
<1>2. CASE places = {}
  BY <1>1, <1>2, AddInv DEF handle_modify
<1>3. CASE places # {}
  <2>1. /\ translate' = with_actions(translate, places, actions)
        /\ untranslate' = with_actions(untranslate, places, actions)
        /\ send_flow_mod_message(redirected(places, cmd, actions, out))
        /\ UNCHANGED fault
    BY <1>3 DEF handle_modify
  <2>2. places \in SUBSET Places
    BY DEF matching, Places
  <2> HIDE DEF places
  <2>3. /\ translate \in Seq(Wanted) /\ untranslate \in Seq(Actual)
        /\ Len(translate) = Len(untranslate) /\ Len(translate) \in Nat
        /\ channel \in [Dpts -> Seq(Batch)] /\ Connected
    BY <1>1 DEF FlowInv, FlowTypeOK, Handles
  <2>4. ASSUME NEW e \in Wanted PROVE /\ [e EXCEPT !.actions = actions] \in Wanted
                                      /\ [e EXCEPT !.actions = actions].match = e.match
    BY <2>4 DEF Wanted
  <2>5. ASSUME NEW e \in Actual PROVE /\ [e EXCEPT !.actions = actions] \in Actual
                                      /\ [e EXCEPT !.actions = actions].match = e.match
    BY <2>5 DEF Actual
  <2>6. /\ translate' \in [1 .. Len(translate) -> Wanted]
        /\ \A i \in 1 .. Len(translate) : translate'[i].match = translate[i].match
    BY <2>1, <2>3, <2>4 DEF with_actions
  <2>7. /\ untranslate' \in [1 .. Len(translate) -> Actual]
        /\ \A i \in 1 .. Len(translate) : untranslate'[i].match = untranslate[i].match
    BY <2>1, <2>3, <2>5 DEF with_actions
  <2>8. /\ translate' \in Seq(Wanted) /\ Len(translate') = Len(translate)
        /\ untranslate' \in Seq(Actual) /\ Len(untranslate') = Len(translate)
    BY <2>3, <2>6, <2>7, SegmentLemma
  <2>9. StoredMatches' = StoredMatches
    BY <2>3, <2>7, <2>8 DEF StoredMatches
  <2>10. InstalledAreKnown' /\ channel' \in [Dpts -> Seq(Batch)]
    <3> DEFINE batch == redirected(places, cmd, actions, out)
    <3>1. batch \in Batch /\ \A i \in DOMAIN batch : batch[i].match \in StoredMatches
      BY <1>1, <2>2, RedirectLemma DEF FlowInv
    <3>2. InstalledAreKnown /\ send_flow_mod_message(batch) /\ UNCHANGED installed
      BY <1>1, <2>1 DEF FlowInv
    <3> HIDE DEF batch
    <3> QED
      BY <2>3, <2>8, <2>9, <3>1, <3>2, KnownLemma
  <2>11. FlowTypeOK'
    BY <1>1, <2>1, <2>3, <2>8, <2>10 DEF FlowInv, FlowTypeOK
  <2>12. SidesAgree'
    BY <2>3, <2>6, <2>7, <2>8 DEF FlowInv, SidesAgree, Places
  <2> QED
    BY <2>10, <2>11, <2>12 DEF FlowInv
<1> QED
  BY <1>2, <1>3

\* A deletion changes nothing in the table.
LEMMA DeleteInv ==
  ASSUME FlowInv, ConnTypeOK, NEW cmd \in Commands, NEW m \in Matches, NEW out \in OutPorts,
         handle_delete(cmd, m, out)
  PROVE  FlowInv'
<1> DEFINE places == to_delete(m, out, Strict(cmd))
           batch  == redirected(places, cmd, <<>>, out)
<1>1. /\ Handles /\ send_flow_mod_message(batch)
      /\ UNCHANGED <<translate, untranslate, actions_valid, installed, fault>>
  BY DEF handle_delete
<1>2. places \in SUBSET Places
  BY DEF to_delete, matching, Places
<1>3. batch \in Batch /\ \A i \in DOMAIN batch : batch[i].match \in StoredMatches
  BY <1>2, RedirectLemma DEF FlowInv
<1> HIDE DEF places, batch
<1>4. StoredMatches' = StoredMatches
  BY <1>1 DEF StoredMatches
<1>5. /\ translate \in Seq(Wanted) /\ untranslate \in Seq(Actual)
      /\ Len(translate) = Len(untranslate)
      /\ channel \in [Dpts -> Seq(Batch)] /\ Connected /\ InstalledAreKnown
  BY <1>1 DEF FlowInv, FlowTypeOK, Handles
<1>6. InstalledAreKnown' /\ channel' \in [Dpts -> Seq(Batch)]
  BY <1>1, <1>3, <1>4, <1>5, KnownLemma
<1> QED
  BY <1>1, <1>6 DEF FlowInv, FlowTypeOK, SidesAgree, Places

\* Whatever flow-mod it obeys, a switch's table grows at most by its match.
LEMMA ObeyLemma ==
  ASSUME NEW table, NEW fm PROVE DOMAIN obey(table, fm) \subseteq DOMAIN table \cup {fm.match}
  BY DEF obey

\* The switch installs what was sent, and what was sent is known.
LEMMA WorkInv ==
  ASSUME FlowInv, NEW d \in Dpts, SwitchWorks(d)
  PROVE  FlowInv'
<1> DEFINE batch == Head(channel[d])
           stored == {untranslate[i].match : i \in Places}
<1>1. channel \in [Dpts -> Seq(Batch)] /\ channel[d] # <<>> /\ DOMAIN installed = Dpts
  BY DEF SwitchWorks, FlowInv, FlowTypeOK
<1>2. /\ batch \in Batch /\ Len(channel[d]) \in Nat \ {0}
      /\ batch = channel[d][1]
      /\ Tail(channel[d]) \in Seq(Batch)
      /\ Len(Tail(channel[d])) = Len(channel[d]) - 1
      /\ \A k \in 1 .. Len(channel[d]) - 1 : Tail(channel[d])[k] = channel[d][k + 1]
  BY <1>1, EmptySeq, HeadTailProperties
<1>3. PICK first \in DOMAIN batch :
        LET rest == [i \in DOMAIN batch \ {first} |-> batch[i]] IN
        /\ channel' = [channel EXCEPT ![d] = IF DOMAIN rest = {} THEN Tail(channel[d])
                                             ELSE <<rest>> \o Tail(channel[d])]
        /\ \/ installed' = [installed EXCEPT ![d] = obey(installed[d], batch[first])]
           \/ UNCHANGED installed
  BY DEF SwitchWorks
<1> DEFINE rest == [i \in DOMAIN batch \ {first} |-> batch[i]]
           c    == IF DOMAIN rest = {} THEN Tail(channel[d]) ELSE <<rest>> \o Tail(channel[d])
<1>4. UNCHANGED <<translate, untranslate, actions_valid, fault>>
  BY DEF SwitchWorks
<1>5. rest \in Batch
  <2>1. PICK S \in SUBSET (1 .. MaxFlows) : batch \in [S -> Actual]
    BY <1>2 DEF Batch
  <2>2. rest \in [S \ {first} -> Actual]
    BY <2>1
  <2> QED
    BY <2>2 DEF Batch
<1>6. /\ DOMAIN installed[d] \subseteq stored
      /\ \A k \in DOMAIN channel[d] : \A i \in DOMAIN channel[d][k] :
           channel[d][k][i].match \in stored
  BY DEF FlowInv, InstalledAreKnown
<1>7. \A i \in DOMAIN batch : batch[i].match \in stored
  BY <1>1, <1>2, <1>6
<1>8. \A i \in DOMAIN rest : rest[i].match \in stored
  BY <1>7
<1>9. /\ c \in Seq(Batch)
      /\ \A k \in DOMAIN c : c[k] = rest \/ \E l \in DOMAIN channel[d] : c[k] = channel[d][l]
  <2> DEFINE t == Tail(channel[d])
  <2>1. t \in Seq(Batch) /\ \A k \in DOMAIN t : \E l \in DOMAIN channel[d] : t[k] = channel[d][l]
    BY <1>1, <1>2
  <2> HIDE DEF t, rest
  <2>2. /\ <<rest>> \in Seq(Batch)
        /\ <<rest>> \o t \in Seq(Batch)
        /\ \A k \in DOMAIN (<<rest>> \o t) :
             (<<rest>> \o t)[k] = rest \/ \E l \in DOMAIN t : (<<rest>> \o t)[k] = t[l]
    BY <1>5, <2>1
  <2> QED
    BY <2>1, <2>2 DEF t
<1>10. channel' = [channel EXCEPT ![d] = c]
  BY <1>3
<1> HIDE DEF rest, c
<1>11. channel' \in [Dpts -> Seq(Batch)] /\ \A e \in Dpts : channel'[e] = IF e = d THEN c ELSE channel[e]
  BY <1>1, <1>9, <1>10
<1>12. DOMAIN installed' = Dpts /\ \A e \in Dpts :
         DOMAIN installed'[e] \subseteq DOMAIN installed[e] \cup (IF e = d THEN {batch[first].match} ELSE {})
  BY <1>1, <1>3, ObeyLemma
<1>13. stored' = stored
  BY <1>4 DEF Places
<1>14. InstalledAreKnown'
  <2>1. ASSUME NEW e \in Dpts PROVE DOMAIN installed'[e] \subseteq stored
    <3>1. DOMAIN installed[e] \subseteq stored
      BY DEF FlowInv, InstalledAreKnown
    <3> QED
      BY <3>1, <1>7, <1>12
  <2>2. ASSUME NEW e \in Dpts, NEW k \in DOMAIN channel'[e], NEW i \in DOMAIN channel'[e][k]
        PROVE  channel'[e][k][i].match \in stored
    <3>1. CASE e # d
      BY <3>1, <2>2, <1>11 DEF FlowInv, InstalledAreKnown
    <3>2. CASE e = d
      <4> HIDE DEF stored
      <4> QED
        BY <3>2, <2>2, <1>6, <1>8, <1>9, <1>11
    <3> QED
      BY <3>1, <3>2
  <2> QED
    BY <2>1, <2>2, <1>13 DEF InstalledAreKnown
<1> QED
  BY <1>4, <1>11, <1>12, <1>14 DEF FlowInv, FlowTypeOK, SidesAgree, Places

\* Losing entries or messages makes nothing unknown.
LEMMA LossInv ==
  ASSUME FlowInv, NEW d \in Dpts,
         SwitchLeaves(d) \/ \E m \in DOMAIN installed[d] : EntryExpires(d, m)
  PROVE  FlowInv'
<1>1. CASE SwitchLeaves(d)
  <2>1. /\ channel' = [channel EXCEPT ![d] = <<>>]
        /\ UNCHANGED <<translate, untranslate, actions_valid, installed, fault>>
    BY <1>1 DEF SwitchLeaves
  <2>2. <<>> \in Seq(Batch) /\ channel \in [Dpts -> Seq(Batch)]
    BY DEF FlowInv, FlowTypeOK
  <2>3. /\ channel' \in [Dpts -> Seq(Batch)]
        /\ \A e \in Dpts : channel'[e] = IF e = d THEN <<>> ELSE channel[e]
    BY <2>1, <2>2
  <2> QED
    BY <2>1, <2>3 DEF FlowInv, FlowTypeOK, SidesAgree, InstalledAreKnown, Places
<1>2. CASE \E m \in DOMAIN installed[d] : EntryExpires(d, m)
  <2>1. PICK m \in DOMAIN installed[d] :
          /\ installed' = [installed EXCEPT ![d] = [x \in DOMAIN installed[d] \ {m} |-> installed[d][x]]]
          /\ UNCHANGED <<translate, untranslate, actions_valid, channel, fault>>
    BY <1>2 DEF EntryExpires
  <2>2. DOMAIN installed' = Dpts /\ \A e \in Dpts : DOMAIN installed'[e] \subseteq DOMAIN installed[e]
    BY <2>1 DEF FlowInv, FlowTypeOK
  <2> QED
    BY <2>1, <2>2 DEF FlowInv, FlowTypeOK, SidesAgree, InstalledAreKnown, Places
<1> QED
  BY <1>1, <1>2

LEMMA FlowInitInv == Init => FlowInv
<1> SUFFICES ASSUME Init PROVE FlowInv
  OBVIOUS
<1>1. /\ translate \in Seq(Wanted) /\ untranslate \in Seq(Actual)
      /\ Len(translate) = 0 /\ Len(untranslate) = 0 /\ MaxFlows \in Nat
      /\ actions_valid \in BOOLEAN /\ fault = "none"
  <2>1. translate = <<>> /\ untranslate = <<>> /\ actions_valid = FALSE /\ fault = "none"
    BY DEF Init
  <2>2. <<>> \in Seq(Wanted) /\ <<>> \in Seq(Actual) /\ Len(<<>>) = 0
    OBVIOUS
  <2> QED
    BY <2>1, <2>2, FlowAssumption
<1>2. <<>> \in Seq(Batch) /\ DOMAIN <<>> = {}
  OBVIOUS
<1>3. /\ channel \in [Dpts -> Seq(Batch)] /\ \A d \in Dpts : channel[d] = <<>>
      /\ DOMAIN installed = Dpts /\ \A d \in Dpts : DOMAIN installed[d] = {}
  BY <1>2 DEF Init
<1> QED
  BY <1>1, <1>2, <1>3 DEF FlowInv, FlowTypeOK, SidesAgree, InstalledAreKnown, Places

LEMMA FlowNextInv ==
  ASSUME FlowInv, ConnTypeOK, [Next]_vars
  PROVE  FlowInv'
<1>1. CASE UNCHANGED flowVars
  BY <1>1 DEF flowVars, FlowInv, FlowTypeOK, SidesAgree, InstalledAreKnown, Places
<1>2. CASE Next
  <2>1. ASSUME NEW m \in Matches, NEW out \in OutPorts, NEW actions \in ActionLists,
               handle_add(m, actions, out)
        PROVE  FlowInv'
    BY <2>1, AddInv DEF handle_add, Commands
  <2>2. ASSUME NEW m \in Matches, NEW out \in OutPorts, NEW actions \in ActionLists,
               NEW cmd \in {"MODIFY", "MODIFY_STRICT"}, handle_modify(cmd, m, actions, out)
        PROVE  FlowInv'
    BY <2>2, ModifyInv
  <2>3. ASSUME NEW m \in Matches, NEW out \in OutPorts,
               NEW cmd \in {"DELETE", "DELETE_STRICT"}, handle_delete(cmd, m, out)
        PROVE  FlowInv'
    BY <2>3, DeleteInv DEF Commands
  <2>4. CASE set_supported_dpe_features
    BY <2>4 DEF set_supported_dpe_features, FlowInv, FlowTypeOK, SidesAgree,
       InstalledAreKnown, Places
  <2>5. CASE \E d \in Dpts : SwitchWorks(d)
    BY <2>5, WorkInv
  <2>6. CASE \E d \in Dpts : SwitchLeaves(d) \/ \E m \in DOMAIN installed[d] : EntryExpires(d, m)
    BY <2>6, LossInv
  <2>7. CASE PeersComeAndGo
    BY <2>7, <1>1 DEF PeersComeAndGo
  <2> QED
    BY <1>2, <2>1, <2>2, <2>3, <2>4, <2>5, <2>6, <2>7 DEF Next
<1> QED
  BY <1>1, <1>2 DEF vars

-----------------------------------------------------------------------------
(***************************************************************************)
(* The theorems                                                            *)
(***************************************************************************)

\* The proxy with its flow table connects and disconnects as Connections says.
THEOREM FlowRefinesConn == Spec => ConnSpec
<1>1. Init => ConnInit
  BY DEF Init
<1>2. [Next]_vars => [ConnNext]_connVars
  <2> SUFFICES ASSUME [Next]_vars PROVE [ConnNext]_connVars
    OBVIOUS
  <2>1. CASE PeersComeAndGo
    BY <2>1 DEF PeersComeAndGo, ConnNext
  <2>2. CASE \E d \in Dpts : SwitchLeaves(d)
    BY <2>2 DEF SwitchLeaves, SwitchCloses, ConnNext
  <2>3. CASE UNCHANGED connVars
    BY <2>3
  <2> QED
    BY <2>1, <2>2, <2>3 DEF Next, vars, handle_add, handle_modify, handle_delete,
       set_supported_dpe_features, SwitchWorks, EntryExpires
<1> QED
  BY <1>1, <1>2, PTL DEF Spec, ConnSpec

\* The flow table keeps its invariant.
THEOREM FlowInvariance == Spec => []FlowInv
<1>1. Spec => []ConnTypeOK
  BY FlowRefinesConn, ConnInvariance, PTL DEF ConnInv
<1>2. FlowInv /\ ConnTypeOK /\ [Next]_vars => FlowInv'
  BY FlowNextInv
<1> QED
  BY <1>1, <1>2, FlowInitInv, PTL DEF Spec

\* Both sides of the table hold as many entries, of the right types.
THEOREM FlowTypes == Spec => []FlowTypeOK
  BY FlowInvariance, PTL DEF FlowInv

\* The translation looked up for a match is the translation of that match.
THEOREM FlowSides == Spec => []SidesAgree
  BY FlowInvariance, PTL DEF FlowInv

\* Nothing the proxy installed in any switch is missing from its table.
THEOREM FlowKnown == Spec => []InstalledAreKnown
  BY FlowInvariance, PTL DEF FlowInv
\* A step that makes an entry translates a flow-mod that nothing stops.
LEMMA NewestLemma ==
  ASSUME FlowTypeOK, [Next]_vars, Adds
  PROVE  \E cmd, out, m : \E actions \in ActionLists :
            /\ trans_fault(actions, m, actions_valid) = "none"
            /\ Newest(translate') = FlowMod(cmd, m, actions, out)
            /\ Newest(untranslate').actions = trans_actions(actions, m)
<1>1. translate \in Seq(Wanted) /\ untranslate \in Seq(Actual) /\ Len(translate) \in Nat
  BY DEF FlowTypeOK
<1>2. translate' # translate /\ Len(translate') # Len(translate)
  BY <1>1 DEF Adds
<1>3. ASSUME NEW cmd, NEW m, NEW actions \in ActionLists, NEW out,
             process_add_flow(cmd, m, actions, out)
      PROVE  /\ trans_fault(actions, m, actions_valid) = "none"
             /\ Newest(translate') = FlowMod(cmd, m, actions, out)
             /\ Newest(untranslate').actions = trans_actions(actions, m)
  <2> DEFINE fe    == FlowMod(cmd, m, actions, out)
             trans == FlowMod(cmd, trans_match(m), trans_actions(actions, m), out)
  <2>1. /\ trans_fault(actions, m, actions_valid) = "none"
        /\ translate' = Append(translate, fe)
        /\ untranslate' = Append(untranslate, trans)
    BY <1>2, <1>3 DEF process_add_flow, flow_mod_fails
  <2>2. trans.actions = trans_actions(actions, m)
    BY DEF FlowMod
  <2> HIDE DEF fe, trans
  <2>3. ASSUME NEW S, NEW s \in Seq(S), NEW x PROVE Newest(Append(s, x)) = x
    <3>1. s \in Seq(S \cup {x})
      OBVIOUS
    <3>2. Len(Append(s, x)) = Len(s) + 1 /\ Append(s, x)[Len(s) + 1] = x
      BY <3>1, AppendProperties
    <3> QED
      BY <3>2 DEF Newest
  <2>4. Newest(translate') = fe /\ Newest(untranslate') = trans
    BY <1>1, <2>1, <2>3
  <2> QED
    BY <2>1, <2>2, <2>4 DEF fe
<1>4. ASSUME NEW m \in Matches, NEW out \in OutPorts, NEW actions \in ActionLists,
             handle_add(m, actions, out)
      PROVE  process_add_flow("ADD", m, actions, out)
  BY <1>4 DEF handle_add
<1>5. ASSUME NEW m \in Matches, NEW out \in OutPorts, NEW actions \in ActionLists,
             NEW cmd \in {"MODIFY", "MODIFY_STRICT"}, handle_modify(cmd, m, actions, out)
      PROVE  process_add_flow(cmd, m, actions, out)
  <2>1. SUFFICES ASSUME translate' = with_actions(translate, matching(m, Strict(cmd)), actions)
                 PROVE  FALSE
    BY <1>5 DEF handle_modify
  <2>2. DOMAIN translate' = 1 .. Len(translate)
    BY <1>1, <2>1, LenProperties DEF with_actions
  <2>3. Len(translate') = Len(translate)
    BY <1>1, <2>1, <2>2 DEF with_actions
  <2> QED
    BY <1>2, <2>3
<1>6. ASSUME NEW m \in Matches, NEW out \in OutPorts,
             NEW cmd \in {"DELETE", "DELETE_STRICT"}, handle_delete(cmd, m, out)
      PROVE  FALSE
  BY <1>2, <1>6 DEF handle_delete
<1>7. ASSUME \/ UNCHANGED vars \/ set_supported_dpe_features \/ PeersComeAndGo
             \/ \E d \in Dpts : \/ SwitchWorks(d) \/ SwitchLeaves(d)
                                \/ \E m \in DOMAIN installed[d] : EntryExpires(d, m)
      PROVE  FALSE
  BY <1>2, <1>7 DEF vars, flowVars, set_supported_dpe_features, PeersComeAndGo, SwitchWorks,
     SwitchLeaves, EntryExpires
<1> QED
  BY <1>3, <1>4, <1>5, <1>6, <1>7 DEF Next

\* However many outputs, tagged or not, and other actions a new entry has, a packet
\* gets to each tagged port with the tag of that port.
THEOREM FlowOutputsTagged == Spec => TaggedOutputsTagged
<1> DEFINE Tagging ==
      Adds => LET fe == Newest(translate') IN
         \A j \in DOMAIN fe.actions : LET p == fe.actions[j].arg IN
             fe.actions[j].type = "output" /\ Tagged(p) =>
                 get_actual_port(p) \in Emissions(NoVlan, Newest(untranslate').actions)
<1>1. FlowInv /\ [Next]_vars => Tagging
  <2> SUFFICES ASSUME FlowInv, [Next]_vars, Adds PROVE Tagging
    OBVIOUS
  <2>0. PICK cmd, out, m : \E actions \in ActionLists :
            /\ trans_fault(actions, m, actions_valid) = "none"
            /\ Newest(translate') = FlowMod(cmd, m, actions, out)
            /\ Newest(untranslate').actions = trans_actions(actions, m)
    BY NewestLemma DEF FlowInv
  <2>1. PICK actions \in ActionLists :
            /\ trans_fault(actions, m, actions_valid) = "none"
            /\ Newest(translate') = FlowMod(cmd, m, actions, out)
            /\ Newest(untranslate').actions = trans_actions(actions, m)
    BY <2>0
  <2>2. Newest(translate').actions = actions
    BY <2>1 DEF FlowMod
  <2>3. actions \in Seq(Action)
    BY FlowAssumption
  <2>4. PICK valid : valid = actions_valid
    OBVIOUS
  <2>5. ASSUME NEW j \in DOMAIN actions, actions[j].type = "output", Tagged(actions[j].arg)
        PROVE  get_actual_port(actions[j].arg) \in Emissions(NoVlan, trans_actions(actions, m))
    <3>1. trans_fault(actions, m, valid) = "none"
      BY <2>1, <2>4
    <3> QED
      BY <2>3, <2>5, <3>1, TranslationTags
  <2> QED
    BY <2>1, <2>2, <2>5
<1> QED
  BY <1>1, FlowInvariance, PTL DEF Spec, TaggedOutputsTagged
=============================================================================
