---------------------------- MODULE DeletionProofs ----------------------------
(***************************************************************************)
(* What a deletion leaves in the switch, for any port map, any matches and *)
(* any number of flow-mods under way.                                      *)
(*                                                                         *)
(* The properties look ahead: at the flow table when the switch has worked *)
(* off its channel.  The recursions that say so are first opened by        *)
(* induction on a set of numbers; then a deletion is one batch more, each  *)
(* flow-mod of which deletes an entry's match and adds none.               *)
(***************************************************************************)
EXTENDS FlowTableProofs

-----------------------------------------------------------------------------
(***************************************************************************)
(* Working off batches                                                     *)
(***************************************************************************)

\* f[k] is the table after the first k places of the batch.
WorksOff(f, table, batch, n) ==
    f = [k \in 0 .. n |->
           IF k = 0 THEN table
           ELSE IF k \in DOMAIN batch THEN obey(f[k - 1], batch[k]) ELSE f[k - 1]]

LEMMA WorksOffExists ==
  ASSUME NEW table, NEW batch, NEW n \in Nat
  PROVE  \E f : WorksOff(f, table, batch, n)
<1> DEFINE S == {k \in Nat : \E f : WorksOff(f, table, batch, k)}
<1>1. 0 \in S
  <2> DEFINE e == [k \in 0 .. 0 |-> table]
  <2>1. WorksOff(e, table, batch, 0) /\ 0 \in Nat
    BY DEF WorksOff
  <2>2. \E f : WorksOff(f, table, batch, 0)
    BY <2>1
  <2> QED
    BY <2>1, <2>2
<1>2. ASSUME NEW k \in Nat, k \in S PROVE k + 1 \in S
  <2>1. PICK f : WorksOff(f, table, batch, k)
    BY <1>2
  <2>2. \A i \in 0 .. k :
          f[i] = IF i = 0 THEN table
                 ELSE IF i \in DOMAIN batch THEN obey(f[i - 1], batch[i]) ELSE f[i - 1]
    <3>1. ASSUME NEW h, f = h, NEW i \in 0 .. k,
                 h = [j \in 0 .. k |-> IF j = 0 THEN table
                        ELSE IF j \in DOMAIN batch THEN obey(f[j - 1], batch[j]) ELSE f[j - 1]]
          PROVE  f[i] = IF i = 0 THEN table
                        ELSE IF i \in DOMAIN batch THEN obey(f[i - 1], batch[i]) ELSE f[i - 1]
      BY <3>1
    <3> QED
      BY <2>1, <3>1 DEF WorksOff
  <2> DEFINE g == [i \in 0 .. k + 1 |-> IF i = 0 THEN table
                     ELSE IF i \in DOMAIN batch THEN obey(f[i - 1], batch[i]) ELSE f[i - 1]]
  <2>3. \A i \in 0 .. k : g[i] = f[i]
    BY <2>2
  <2>4. \A i \in 0 .. k + 1 : i # 0 => i - 1 \in 0 .. k
    OBVIOUS
  <2>5. g = [i \in 0 .. k + 1 |-> IF i = 0 THEN table
               ELSE IF i \in DOMAIN batch THEN obey(g[i - 1], batch[i]) ELSE g[i - 1]]
    BY <2>3, <2>4
  <2>6. WorksOff(g, table, batch, k + 1)
    BY <2>5 DEF WorksOff
  <2> QED
    BY <2>6
<1> HIDE DEF S
<1>3. Nat \subseteq S
  BY <1>1, <1>2, SetInduction
<1> QED
  BY <1>3 DEF S

\* Work goes from place to place.
LEMMA WorkSteps ==
  ASSUME NEW table, NEW batch
  PROVE  \E f : /\ f[0] = table /\ Work(table, batch) = f[MaxFlows]
                /\ \A k \in Nat : k + 1 \in 1 .. MaxFlows =>
                     f[k + 1] = IF k + 1 \in DOMAIN batch THEN obey(f[k], batch[k + 1]) ELSE f[k]
<1>0. MaxFlows \in Nat
  BY FlowAssumption
<1> DEFINE J(f) == f = [k \in 0 .. MaxFlows |->
                          IF k = 0 THEN table
                          ELSE IF k \in DOMAIN batch THEN obey(f[k - 1], batch[k]) ELSE f[k - 1]]
           g == CHOOSE f : J(f)
<1>1. \E f : J(f)
  <2>1. PICK f : WorksOff(f, table, batch, MaxFlows)
    BY <1>0, WorksOffExists
  <2>2. J(f)
    BY <2>1 DEF WorksOff
  <2> HIDE DEF J
  <2> QED
    BY <2>2
<1>2. J(g)
  BY <1>1
<1>3. Work(table, batch) = g[MaxFlows]
  BY DEF Work
<1> HIDE DEF g
<1>4. PICK h : h = g
  OBVIOUS
<1>5. h = [k \in 0 .. MaxFlows |->
             IF k = 0 THEN table
             ELSE IF k \in DOMAIN batch THEN obey(g[k - 1], batch[k]) ELSE g[k - 1]]
  BY <1>2, <1>4
<1>6. \A k \in 0 .. MaxFlows :
        h[k] = IF k = 0 THEN table
               ELSE IF k \in DOMAIN batch THEN obey(g[k - 1], batch[k]) ELSE g[k - 1]
  BY <1>5
<1>7. 0 \in 0 .. MaxFlows /\ h[0] = table
  BY <1>0, <1>6
<1>8. ASSUME NEW k \in Nat, k + 1 \in 1 .. MaxFlows
      PROVE  h[k + 1] = IF k + 1 \in DOMAIN batch THEN obey(h[k], batch[k + 1]) ELSE h[k]
  <2>1. k + 1 \in 0 .. MaxFlows /\ k + 1 # 0 /\ k + 1 - 1 = k
    BY <1>8
  <2> QED
    BY <1>4, <1>6, <2>1
<1> QED
  BY <1>3, <1>4, <1>7, <1>8

\* f[k] is the table after the first k batches.
Settles(f, table, batches, n) ==
    f = [k \in 0 .. n |-> IF k = 0 THEN table ELSE Work(f[k - 1], batches[k])]

LEMMA SettlesExists ==
  ASSUME NEW table, NEW batches, NEW n \in Nat
  PROVE  \E f : Settles(f, table, batches, n)
<1> DEFINE S == {k \in Nat : \E f : Settles(f, table, batches, k)}
<1>1. 0 \in S
  <2> DEFINE e == [k \in 0 .. 0 |-> table]
  <2>1. Settles(e, table, batches, 0) /\ 0 \in Nat
    BY DEF Settles
  <2>2. \E f : Settles(f, table, batches, 0)
    BY <2>1
  <2> QED
    BY <2>1, <2>2
<1>2. ASSUME NEW k \in Nat, k \in S PROVE k + 1 \in S
  <2>1. PICK f : Settles(f, table, batches, k)
    BY <1>2
  <2>2. \A i \in 0 .. k : f[i] = IF i = 0 THEN table ELSE Work(f[i - 1], batches[i])
    <3>1. ASSUME NEW h, f = h, NEW i \in 0 .. k,
                 h = [j \in 0 .. k |-> IF j = 0 THEN table ELSE Work(f[j - 1], batches[j])]
          PROVE  f[i] = IF i = 0 THEN table ELSE Work(f[i - 1], batches[i])
      BY <3>1
    <3> QED
      BY <2>1, <3>1 DEF Settles
  <2> DEFINE g == [i \in 0 .. k + 1 |-> IF i = 0 THEN table ELSE Work(f[i - 1], batches[i])]
  <2>3. \A i \in 0 .. k : g[i] = f[i]
    BY <2>2
  <2>4. \A i \in 0 .. k + 1 : i # 0 => i - 1 \in 0 .. k
    OBVIOUS
  <2>5. g = [i \in 0 .. k + 1 |-> IF i = 0 THEN table ELSE Work(g[i - 1], batches[i])]
    BY <2>3, <2>4
  <2>6. Settles(g, table, batches, k + 1)
    BY <2>5 DEF Settles
  <2> QED
    BY <2>6
<1> HIDE DEF S
<1>3. Nat \subseteq S
  BY <1>1, <1>2, SetInduction
<1> QED
  BY <1>3 DEF S

\* Settle goes from batch to batch.
SettlesBy(f, table, batches) ==
    /\ f[0] = table /\ Settle(table, batches) = f[Len(batches)]
    /\ \A k \in Nat : k + 1 \in 1 .. Len(batches) => f[k + 1] = Work(f[k], batches[k + 1])

LEMMA SettleSteps ==
  ASSUME NEW table, NEW batches, Len(batches) \in Nat
  PROVE  \E f : SettlesBy(f, table, batches)
<1> DEFINE L == Len(batches)
           J(f) == f = [k \in 0 .. Len(batches) |->
                          IF k = 0 THEN table ELSE Work(f[k - 1], batches[k])]
           g == CHOOSE f : J(f)
<1>1. \E f : J(f)
  <2>1. PICK f : Settles(f, table, batches, Len(batches))
    BY SettlesExists
  <2>2. J(f)
    BY <2>1 DEF Settles
  <2> HIDE DEF J
  <2> QED
    BY <2>2
<1>2. J(g)
  BY <1>1
<1>3. Settle(table, batches) = g[L]
  BY DEF Settle
<1> HIDE DEF g
<1>4. PICK h : h = g
  OBVIOUS
<1>5. h = [k \in 0 .. L |-> IF k = 0 THEN table ELSE Work(g[k - 1], batches[k])]
  BY <1>2, <1>4
<1> HIDE DEF L
<1>6. \A k \in 0 .. L : h[k] = IF k = 0 THEN table ELSE Work(g[k - 1], batches[k])
  BY <1>5
<1>7. 0 \in 0 .. L /\ h[0] = table
  BY <1>6 DEF L
<1>8. ASSUME NEW k \in Nat, k + 1 \in 1 .. L
      PROVE  h[k + 1] = Work(h[k], batches[k + 1])
  <2>1. k + 1 \in 0 .. L /\ k + 1 # 0 /\ k + 1 - 1 = k
    BY <1>8
  <2> QED
    BY <1>4, <1>6, <2>1
<1> QED
  BY <1>3, <1>4, <1>7, <1>8 DEF L, SettlesBy

\* The batch sent last is worked off last.
LEMMA SettleAppend ==
  ASSUME NEW table, NEW T, NEW batches \in Seq(T), NEW batch \in T
  PROVE  Settle(table, Append(batches, batch)) = Work(Settle(table, batches), batch)
<1> DEFINE more == Append(batches, batch)
           L == Len(batches)
<1>1. /\ L \in Nat /\ Len(more) = L + 1 /\ more[L + 1] = batch
      /\ \A i \in 1 .. L : more[i] = batches[i]
  BY AppendProperties
<1> HIDE DEF more
<1>2. PICK f : /\ f[0] = table /\ Settle(table, batches) = f[L]
               /\ \A k \in Nat : k + 1 \in 1 .. L => f[k + 1] = Work(f[k], batches[k + 1])
  BY <1>1, SettleSteps DEF SettlesBy
<1>3. PICK g : /\ g[0] = table /\ Settle(table, more) = g[Len(more)]
               /\ \A k \in Nat : k + 1 \in 1 .. Len(more) => g[k + 1] = Work(g[k], more[k + 1])
  BY <1>1, SettleSteps DEF SettlesBy
<1> HIDE DEF L
<1> DEFINE S == {k \in Nat : k \in 0 .. L => g[k] = f[k]}
<1>4. 0 \in S
  BY <1>2, <1>3
<1>5. ASSUME NEW k \in Nat, k \in S PROVE k + 1 \in S
  <2> SUFFICES ASSUME k + 1 \in 0 .. L PROVE g[k + 1] = f[k + 1]
    OBVIOUS
  <2>1. k \in 0 .. L /\ k + 1 \in 1 .. L /\ k + 1 \in 1 .. L + 1
    BY <1>1
  <2>2. g[k] = f[k]
    BY <1>5, <2>1
  <2>3. f[k + 1] = Work(f[k], batches[k + 1]) /\ more[k + 1] = batches[k + 1]
    BY <1>1, <1>2, <2>1
  <2>4. g[k + 1] = Work(g[k], more[k + 1])
    BY <1>1, <1>3, <2>1
  <2> QED
    BY <2>2, <2>3, <2>4
<1> HIDE DEF S
<1>6. Nat \subseteq S
  BY <1>4, <1>5, SetInduction
<1>7. g[L] = f[L]
  <2>1. L \in 0 .. L /\ L \in S
    BY <1>1, <1>6
  <2> QED
    BY <2>1 DEF S
<1>8. g[L + 1] = Work(g[L], batch)
  <2>1. L + 1 \in 1 .. Len(more)
    BY <1>1
  <2> QED
    BY <1>1, <1>3, <2>1
<1> QED
  BY <1>1, <1>2, <1>3, <1>7, <1>8 DEF more

-----------------------------------------------------------------------------
(***************************************************************************)
(* What becomes of the matches                                             *)
(***************************************************************************)

\* A switch that knows only matches of a set, and is told only of such, stays so.
LEMMA WorkKnown ==
  ASSUME NEW X, NEW table, DOMAIN table \subseteq X,
         NEW batch, \A i \in DOMAIN batch : batch[i].match \in X
  PROVE  DOMAIN Work(table, batch) \subseteq X
<1>1. PICK f : /\ f[0] = table /\ Work(table, batch) = f[MaxFlows]
               /\ \A k \in Nat : k + 1 \in 1 .. MaxFlows =>
                    f[k + 1] = IF k + 1 \in DOMAIN batch THEN obey(f[k], batch[k + 1]) ELSE f[k]
  BY WorkSteps
<1> DEFINE S == {k \in Nat : k \in 0 .. MaxFlows => DOMAIN f[k] \subseteq X}
<1>2. 0 \in S
  BY <1>1
<1>3. ASSUME NEW k \in Nat, k \in S PROVE k + 1 \in S
  <2> SUFFICES ASSUME k + 1 \in 0 .. MaxFlows PROVE DOMAIN f[k + 1] \subseteq X
    OBVIOUS
  <2>1. k \in 0 .. MaxFlows /\ k + 1 \in 1 .. MaxFlows
    BY FlowAssumption
  <2>2. DOMAIN f[k] \subseteq X
    BY <1>3, <2>1
  <2>3. k + 1 \in DOMAIN batch =>
          DOMAIN obey(f[k], batch[k + 1]) \subseteq DOMAIN f[k] \cup {batch[k + 1].match}
    BY ObeyLemma
  <2> QED
    BY <1>1, <2>1, <2>2, <2>3
<1> HIDE DEF S
<1>4. Nat \subseteq S
  BY <1>2, <1>3, SetInduction
<1>5. MaxFlows \in 0 .. MaxFlows /\ MaxFlows \in Nat
  BY FlowAssumption
<1>6. MaxFlows \in S
  BY <1>4, <1>5
<1> QED
  BY <1>1, <1>5, <1>6 DEF S

LEMMA SettleKnown ==
  ASSUME NEW X, NEW table, DOMAIN table \subseteq X, NEW batches, Len(batches) \in Nat,
         \A k \in 1 .. Len(batches) : \A i \in DOMAIN batches[k] : batches[k][i].match \in X
  PROVE  DOMAIN Settle(table, batches) \subseteq X
<1> DEFINE L == Len(batches)
<1>0. PICK f : SettlesBy(f, table, batches)
  BY SettleSteps
<1>1. /\ f[0] = table /\ Settle(table, batches) = f[L]
      /\ \A k \in Nat : k + 1 \in 1 .. L => f[k + 1] = Work(f[k], batches[k + 1])
  BY <1>0 DEF SettlesBy
<1> HIDE DEF L
<1> DEFINE S == {k \in Nat : k \in 0 .. L => DOMAIN f[k] \subseteq X}
<1>2. 0 \in S
  BY <1>1
<1>3. ASSUME NEW k \in Nat, k \in S PROVE k + 1 \in S
  <2> SUFFICES ASSUME k + 1 \in 0 .. L PROVE DOMAIN f[k + 1] \subseteq X
    OBVIOUS
  <2>1. k \in 0 .. L /\ k + 1 \in 1 .. L
    BY DEF L
  <2>2. DOMAIN f[k] \subseteq X
    BY <1>3, <2>1
  <2> DEFINE batch == batches[k + 1]
  <2>3. \A i \in DOMAIN batch : batch[i].match \in X
    BY <2>1 DEF L
  <2>4. f[k + 1] = Work(f[k], batch)
    BY <1>1, <2>1
  <2> HIDE DEF batch
  <2> QED
    BY <2>2, <2>3, <2>4, WorkKnown
<1> HIDE DEF S
<1>4. Nat \subseteq S
  BY <1>2, <1>3, SetInduction
<1>5. L \in 0 .. L /\ L \in Nat
  BY DEF L
<1>6. L \in S
  BY <1>4, <1>5
<1> QED
  BY <1>1, <1>5, <1>6 DEF S, L

\* One flow-mod that deletes.
LEMMA ObeyDeletes ==
  ASSUME NEW table, NEW fm, fm.cmd \in {"DELETE", "DELETE_STRICT"}
  PROVE  /\ DOMAIN obey(table, fm) \subseteq DOMAIN table
         /\ \A x \in DOMAIN table \ DOMAIN obey(table, fm) : contains(fm.match, x, Strict(fm.cmd))
         /\ fm.out_port = OFPP10_NONE => fm.match \notin DOMAIN obey(table, fm)
<1> DEFINE kept == {x \in DOMAIN table : \/ ~contains(fm.match, x, Strict(fm.cmd))
                                         \/ ~OutputsTo(table[x], fm.out_port)}
<1>1. DOMAIN obey(table, fm) = kept
  <2> DEFINE covered == {m \in DOMAIN table : contains(fm.match, m, Strict(fm.cmd))}
             rest == {x \in DOMAIN table : x \notin covered \/ ~OutputsTo(table[x], fm.out_port)}
  <2>1. obey(table, fm) = [m \in rest |-> table[m]]
    BY DEF obey
  <2>2. rest = kept
    OBVIOUS
  <2> HIDE DEF rest, kept
  <2> QED
    BY <2>1, <2>2
<1>2. contains(fm.match, fm.match, Strict(fm.cmd))
  BY DEF contains
<1>3. \A x : OutputsTo(table[x], OFPP10_NONE)
  BY DEF OutputsTo
<1> QED
  BY <1>1, <1>2, <1>3

\* A batch of them.
LEMMA WorkDeletes ==
  ASSUME NEW table, NEW cmd \in {"DELETE", "DELETE_STRICT"}, NEW batch,
         DOMAIN batch \subseteq 1 .. MaxFlows, \A i \in DOMAIN batch : batch[i].cmd = cmd
  PROVE  /\ \A x \in DOMAIN table \ DOMAIN Work(table, batch) :
              \E i \in DOMAIN batch : contains(batch[i].match, x, Strict(cmd))
         /\ \A i \in DOMAIN batch : batch[i].out_port = OFPP10_NONE =>
              batch[i].match \notin DOMAIN Work(table, batch)
<1>1. PICK f : /\ f[0] = table /\ Work(table, batch) = f[MaxFlows]
               /\ \A k \in Nat : k + 1 \in 1 .. MaxFlows =>
                    f[k + 1] = IF k + 1 \in DOMAIN batch THEN obey(f[k], batch[k + 1]) ELSE f[k]
  BY WorkSteps
<1>2. MaxFlows \in Nat
  BY FlowAssumption
<1> DEFINE Hit(x) == \E i \in DOMAIN batch : contains(batch[i].match, x, Strict(cmd))
           P(k) == /\ \A x \in DOMAIN table \ DOMAIN f[k] : Hit(x)
                   /\ \A i \in DOMAIN batch : i <= k /\ batch[i].out_port = OFPP10_NONE =>
                        batch[i].match \notin DOMAIN f[k]
           S == {k \in Nat : k \in 0 .. MaxFlows => P(k)}
<1>3. 0 \in S
  <2>1. \A i \in DOMAIN batch : ~(i <= 0)
    BY <1>2
  <2> QED
    BY <1>1, <2>1
<1>4. ASSUME NEW k \in Nat, k \in S PROVE k + 1 \in S
  <2> SUFFICES ASSUME k + 1 \in 0 .. MaxFlows PROVE P(k + 1)
    <3> HIDE DEF P
    <3> QED
      OBVIOUS
  <2>1. k \in 0 .. MaxFlows /\ k + 1 \in 1 .. MaxFlows
    BY <1>2
  <2>2. P(k)
    <3> HIDE DEF P
    <3> QED
      BY <1>4, <2>1
  <2>3. \A i \in DOMAIN batch : i <= k + 1 => i <= k \/ i = k + 1
    BY <1>2
  <2>4. CASE k + 1 \notin DOMAIN batch
    <3>1. f[k + 1] = f[k]
      BY <1>1, <2>1, <2>4
    <3> QED
      BY <2>2, <2>3, <2>4, <3>1
  <2>5. CASE k + 1 \in DOMAIN batch
    <3> DEFINE fm == batch[k + 1]
    <3>1. f[k + 1] = obey(f[k], fm)
      BY <1>1, <2>1, <2>5
    <3>2. fm.cmd = cmd
      BY <2>5
    <3>3. \A x : contains(fm.match, x, Strict(cmd)) => Hit(x)
      BY <2>5
    <3>4. \A i \in DOMAIN batch : i <= k + 1 => i <= k \/ batch[i] = fm
      BY <2>3
    <3> HIDE DEF fm, Hit
    <3>5. /\ DOMAIN f[k + 1] \subseteq DOMAIN f[k]
          /\ \A x \in DOMAIN f[k] \ DOMAIN f[k + 1] : contains(fm.match, x, Strict(cmd))
          /\ fm.out_port = OFPP10_NONE => fm.match \notin DOMAIN f[k + 1]
      BY <3>1, <3>2, ObeyDeletes
    <3>6. \A x \in DOMAIN table \ DOMAIN f[k + 1] : Hit(x)
      BY <2>2, <3>3, <3>5
    <3>7. ASSUME NEW i \in DOMAIN batch, i <= k + 1, batch[i].out_port = OFPP10_NONE
          PROVE  batch[i].match \notin DOMAIN f[k + 1]
      BY <2>2, <3>4, <3>5, <3>7
    <3> QED
      BY <3>6, <3>7
  <2> HIDE DEF P
  <2> QED
    BY <2>4, <2>5
<1> HIDE DEF S
<1>5. Nat \subseteq S
  BY <1>3, <1>4, SetInduction
<1>6. MaxFlows \in 0 .. MaxFlows
  BY <1>2
<1>7. P(MaxFlows)
  <2>1. MaxFlows \in S
    BY <1>2, <1>5
  <2> HIDE DEF P
  <2> QED
    BY <1>6, <2>1 DEF S
<1>8. \A i \in DOMAIN batch : i <= MaxFlows
  BY <1>2
<1> QED
  BY <1>1, <1>7, <1>8

\* Of one key that a batch takes.
LEMMA WorkTakes ==
  ASSUME NEW table, NEW cmd \in {"DELETE", "DELETE_STRICT"}, NEW batch,
         DOMAIN batch \subseteq 1 .. MaxFlows, \A i \in DOMAIN batch : batch[i].cmd = cmd,
         NEW x \in DOMAIN table \ DOMAIN Work(table, batch)
  PROVE  \E i \in DOMAIN batch : contains(batch[i].match, x, Strict(cmd))
  BY WorkDeletes

-----------------------------------------------------------------------------
(***************************************************************************)
(* Which matches cover which                                               *)
(***************************************************************************)

\* The parts of a translated match.
LEMMA TransMatchParts ==
  ASSUME NEW m, IsMatch(m), m.in_port \in VirtualPorts \cup {Wild}, m.vlan = Wild
  PROVE  /\ m.in_port \in VirtualPorts =>
              /\ trans_match(m)["in_port"] = get_actual_port(m.in_port).port
              /\ Tagged(m.in_port) => trans_match(m)["vlan"] = get_actual_port(m.in_port).vlan
              /\ ~Tagged(m.in_port) => trans_match(m)["vlan"] = Wild
         /\ m.in_port = Wild => trans_match(m)["in_port"] = Wild
         /\ trans_match(m)["field"] = m["field"]
<1>1. CASE m.in_port \in VirtualPorts
  <2> DEFINE a == get_actual_port(m.in_port)
  <2>1. trans_match(m) =
          [m EXCEPT !.in_port = a.port, !.vlan = IF a.vlan = NoVlan THEN m.vlan ELSE a.vlan]
    BY <1>1 DEF trans_match
  <2>2. m.in_port # Wild
    BY <1>1, MapperAssumption, LenProperties DEF VirtualPorts
  <2> HIDE DEF a
  <2>3. /\ trans_match(m)["in_port"] = a.port
        /\ trans_match(m)["vlan"] = IF a.vlan = NoVlan THEN m.vlan ELSE a.vlan
        /\ trans_match(m)["field"] = m["field"]
    BY <2>1 DEF IsMatch
  <2> QED
    BY <1>1, <2>2, <2>3 DEF Tagged, a
<1>2. CASE m.in_port \notin VirtualPorts
  <2>1. trans_match(m) = m /\ m.in_port = Wild
    BY <1>2 DEF trans_match
  <2> QED
    BY <1>2, <2>1
<1> QED
  BY <1>1, <1>2

\* If VLANs keep virtual ports apart, what a translated match covers of others is what
\* the match itself covers.
LEMMA CoversAlike ==
  ASSUME SeparatePorts,
         NEW mi, IsMatch(mi), mi.in_port \in VirtualPorts \cup {Wild}, mi.vlan = Wild,
         NEW mj, IsMatch(mj), mj.in_port \in VirtualPorts \cup {Wild}, mj.vlan = Wild,
         contains(trans_match(mi), trans_match(mj), FALSE)
  PROVE  contains(mi, mj, FALSE)
<1> DEFINE ti == trans_match(mi)
           tj == trans_match(mj)
<1>1. /\ ti["in_port"] = Wild \/ ti["in_port"] = tj["in_port"]
      /\ ti["vlan"] = Wild \/ ti["vlan"] = tj["vlan"]
      /\ ti["field"] = Wild \/ ti["field"] = tj["field"]
  BY DEF contains
<1>2. Wild \notin Nat /\ NoVlan \notin Nat
  BY MapperAssumption
<1>3. mi["in_port"] = Wild \/ mi["in_port"] = mj["in_port"]
  <2> SUFFICES ASSUME mi.in_port \in VirtualPorts PROVE mi.in_port = mj.in_port
    OBVIOUS
  <2> DEFINE p == mi.in_port
             q == mj.in_port
  <2>1. /\ ti["in_port"] = get_actual_port(p).port
        /\ Tagged(p) => ti["vlan"] = get_actual_port(p).vlan
    BY TransMatchParts
  <2>2. /\ get_actual_port(p).port \in Nat
        /\ Tagged(p) => get_actual_port(p).vlan \in Nat
    BY PortTyped
  <2>3. tj["in_port"] = get_actual_port(p).port
    BY <1>1, <1>2, <2>1, <2>2
  <2>4. q \in VirtualPorts
    <3>1. q = Wild => tj["in_port"] = Wild
      BY TransMatchParts
    <3> QED
      BY <1>2, <2>2, <2>3, <3>1
  <2>5. /\ tj["in_port"] = get_actual_port(q).port
        /\ Tagged(q) => tj["vlan"] = get_actual_port(q).vlan
    BY <2>4, TransMatchParts
  <2>6. get_actual_port(p) \in PortSpec /\ get_actual_port(q) \in PortSpec
    BY <2>4, PortTyped
  <2> HIDE DEF ti, tj, p, q
  <2>7. SUFFICES ASSUME p # q PROVE FALSE
    BY DEF p, q
  <2>8. /\ Tagged(p) /\ Tagged(q) /\ get_actual_port(p) # get_actual_port(q)
        /\ get_actual_port(p).port = get_actual_port(q).port
    <3>1. p \in VirtualPorts
      BY DEF p
    <3> QED
      BY <2>3, <2>4, <2>5, <2>7, <3>1 DEF SeparatePorts
  <2>9. get_actual_port(p).vlan = get_actual_port(q).vlan
    BY <1>1, <1>2, <2>1, <2>2, <2>5, <2>8
  <2>10. \A a, b \in PortSpec : a.port = b.port /\ a.vlan = b.vlan => a = b
    BY DEF PortSpec
  <2> QED
    BY <2>6, <2>8, <2>9, <2>10
<1>4. mi["field"] = Wild \/ mi["field"] = mj["field"]
  BY <1>1, TransMatchParts
<1> QED
  BY <1>3, <1>4 DEF contains

\* A strictness that is not set is as good as FALSE.
LEMMA ContainsLoosely ==
  ASSUME NEW a, NEW b, NEW strict, ~strict
  PROVE  contains(a, b, strict) <=> contains(a, b, FALSE)
  BY DEF contains

\* Of three matches the first covers the third if it covers the second, which does.
LEMMA CoversOn ==
  ASSUME NEW a, NEW b, NEW c, contains(a, b, FALSE), contains(b, c, FALSE)
  PROVE  contains(a, c, FALSE)
  BY DEF contains

-----------------------------------------------------------------------------
(***************************************************************************)
(* Deletions                                                               *)
(***************************************************************************)

\* A flow-mod with a VLAN in its match is refused, so none is stored.
UntaggedMatches == \A i \in Places : translate[i].match.vlan = Wild

LEMMA UntaggedNext == FlowTypeOK /\ UntaggedMatches /\ [Next]_vars => UntaggedMatches'
<1> SUFFICES ASSUME FlowTypeOK, UntaggedMatches, [Next]_vars PROVE UntaggedMatches'
  OBVIOUS
<1>1. translate \in Seq(Wanted) /\ Len(translate) \in Nat /\ DOMAIN translate = 1 .. Len(translate)
  BY LenProperties DEF FlowTypeOK
<1>2. CASE UNCHANGED translate
  BY <1>2 DEF UntaggedMatches, Places
<1>3. ASSUME NEW cmd \in Commands, NEW m \in Matches, NEW actions \in ActionLists,
             NEW out \in OutPorts, process_add_flow(cmd, m, actions, out)
      PROVE  UntaggedMatches'
  <2>1. CASE flow_mod_fails(trans_fault(actions, m, actions_valid))
    BY <1>2, <2>1 DEF flow_mod_fails
  <2>2. CASE /\ trans_fault(actions, m, actions_valid) = "none"
             /\ translate' = Append(translate, FlowMod(cmd, m, actions, out))
    <3> DEFINE fe == FlowMod(cmd, m, actions, out)
    <3>1. fe \in Wanted /\ fe.match = m
      BY DEF FlowMod, Wanted
    <3>2. m.vlan = Wild
      <4>1. actions \in Seq(Action)
        BY FlowAssumption
      <4>2. PICK valid : valid = actions_valid
        OBVIOUS
      <4>3. trans_fault(actions, m, valid) = "none"
        BY <2>2, <4>2
      <4>4. \A i \in DOMAIN actions : action_fault(actions[i], m) = "none"
        BY <4>1, <4>3, NoActionAtFault
      <4> QED
        BY <4>3, <4>4 DEF trans_fault
    <3> HIDE DEF fe
    <3>3. /\ Len(translate') = Len(translate) + 1 /\ translate' \in Seq(Wanted)
          /\ \A i \in 1 .. Len(translate) : translate'[i] = translate[i]
          /\ translate'[Len(translate) + 1] = fe
      BY <1>1, <2>2, <3>1, AppendProperties DEF fe
    <3>4. DOMAIN translate' = 1 .. Len(translate) + 1
      BY <3>3, LenProperties
    <3> QED
      BY <1>1, <3>1, <3>2, <3>3, <3>4 DEF UntaggedMatches, Places
  <2> QED
    BY <1>3, <2>1, <2>2 DEF process_add_flow
<1>4. ASSUME NEW m \in Matches, NEW actions \in ActionLists, NEW places,
             translate' = with_actions(translate, places, actions)
      PROVE  UntaggedMatches'
  <2>1. \A e \in Wanted : [e EXCEPT !.actions = actions].match = e.match
    BY DEF Wanted
  <2>2. DOMAIN translate' = DOMAIN translate
    BY <1>4 DEF with_actions
  <2>3. \A i \in DOMAIN translate : translate'[i].match = translate[i].match
    BY <1>1, <1>4, <2>1 DEF with_actions
  <2> QED
    BY <2>2, <2>3 DEF UntaggedMatches, Places
<1>5. ASSUME NEW m \in Matches, NEW out \in OutPorts, NEW actions \in ActionLists,
             handle_add(m, actions, out)
      PROVE  UntaggedMatches'
  BY <1>3, <1>5 DEF handle_add, Commands
<1>6. ASSUME NEW m \in Matches, NEW out \in OutPorts, NEW actions \in ActionLists,
             NEW cmd \in {"MODIFY", "MODIFY_STRICT"}, handle_modify(cmd, m, actions, out)
      PROVE  UntaggedMatches'
  BY <1>3, <1>4, <1>6 DEF handle_modify, Commands
<1> QED
  BY <1>2, <1>5, <1>6 DEF Next, vars, flowVars, handle_delete, set_supported_dpe_features,
     PeersComeAndGo, SwitchWorks, SwitchLeaves, EntryExpires

LEMMA DeletionInvariance == Spec => [](FlowInv /\ ConnTypeOK /\ UntaggedMatches)
<1>1. Spec => []ConnTypeOK
  BY FlowRefinesConn, ConnInvariance, PTL DEF ConnInv
<1>2. Init => UntaggedMatches
  BY DEF Init, UntaggedMatches, Places
<1>3. FlowInv /\ UntaggedMatches /\ [Next]_vars => UntaggedMatches'
  BY UntaggedNext DEF FlowInv
<1> QED
  BY <1>1, <1>2, <1>3, FlowInvariance, PTL DEF Spec

\* A deletion is one batch more for the switch in use to work off.
LEMMA DeletionLemma ==
  ASSUME FlowInv, ConnTypeOK, NEW cmd, NEW m, NEW out, handle_delete(cmd, m, out)
  PROVE  LET places == to_delete(m, out, Strict(cmd))
             batch  == redirected(places, cmd, <<>>, out)
         IN  /\ places \subseteq 1 .. MaxFlows /\ places \subseteq DOMAIN untranslate
             /\ DOMAIN batch = places
             /\ \A i \in places : /\ batch[i].cmd = cmd /\ batch[i].out_port = out
                                  /\ batch[i].match = untranslate[i].match
             /\ Settled(m_slave)' = IF places = {} THEN Settled(m_slave)
                                    ELSE Work(Settled(m_slave), batch)
<1> DEFINE places == to_delete(m, out, Strict(cmd))
           batch  == redirected(places, cmd, <<>>, out)
<1>1. /\ Connected /\ send_flow_mod_message(batch)
      /\ UNCHANGED <<connVars, installed>>
  BY DEF handle_delete, Handles
<1>2. /\ DOMAIN translate = DOMAIN untranslate
      /\ DOMAIN untranslate = 1 .. Len(translate) /\ Len(translate) \in Nat
      /\ MaxFlows \in Nat /\ Len(translate) <= MaxFlows
      /\ channel \in [Dpts -> Seq(Batch)]
  BY FlowAssumption DEF FlowInv, FlowTypeOK
<1>3. places \subseteq 1 .. MaxFlows /\ places \subseteq DOMAIN untranslate
  BY <1>2 DEF to_delete, matching
<1>4. /\ DOMAIN batch = places
      /\ \A i \in places : /\ batch[i].cmd = cmd /\ batch[i].out_port = out
                           /\ batch[i].match = untranslate[i].match
  BY DEF redirected, FlowMod
<1> HIDE DEF places, batch
<1>5. m_slave' = m_slave /\ installed' = installed
  BY <1>1 DEF connVars
<1>6. Settled(m_slave)' = IF places = {} THEN Settled(m_slave) ELSE Work(Settled(m_slave), batch)
  <2>1. CASE places = {}
    <3>1. channel' = channel
      BY <1>1, <1>4, <2>1 DEF send_flow_mod_message
    <3> QED
      BY <1>5, <2>1, <3>1 DEF Settled
  <2>2. CASE places # {}
    <3> DEFINE T == Batch \cup {batch}
               before == channel[m_slave]
    <3>1. m_slave \in Dpts /\ before \in Seq(Batch)
      BY <1>1, <1>2 DEF Connected, ConnTypeOK
    <3>2. before \in Seq(T) /\ batch \in T
      BY <3>1
    <3>3. channel'[m_slave] = Append(before, batch)
      BY <1>1, <1>2, <1>4, <2>2, <3>1 DEF send_flow_mod_message
    <3> HIDE DEF T, before
    <3>4. PICK table : table = installed[m_slave]
      OBVIOUS
    <3>5. PICK b, c : b = batch /\ c = before
      OBVIOUS
    <3>6. Settle(table, Append(c, b)) = Work(Settle(table, c), b)
      <4>1. PICK U : U = T
        OBVIOUS
      <4>2. c \in Seq(U) /\ b \in U
        BY <3>2, <3>5, <4>1
      <4> QED
        BY <4>2, SettleAppend
    <3> QED
      BY <1>5, <2>2, <3>3, <3>4, <3>5, <3>6 DEF Settled, before
  <2> QED
    BY <2>1, <2>2
<1> QED
  BY <1>3, <1>4, <1>6 DEF places, batch

\* However many flow-mods are under way, a deletion that the switch obeys takes all it
\* covers.
THEOREM FlowDeletionsTakeEffect == Spec => DeleteTakesEffect
<1>1. ASSUME FlowInv, ConnTypeOK, NEW cmd \in Commands, NEW m \in Matches,
             Deletes(cmd, m, OFPP10_NONE)
      PROVE  Covered(m, Strict(cmd)) \cap DOMAIN Settled(m_slave)' = {}
  <2> DEFINE places == to_delete(m, OFPP10_NONE, Strict(cmd))
             batch  == redirected(places, cmd, <<>>, OFPP10_NONE)
  <2>1. cmd \in {"DELETE", "DELETE_STRICT"} /\ handle_delete(cmd, m, OFPP10_NONE)
    BY <1>1 DEF Deletes
  <2>2. /\ places \subseteq 1 .. MaxFlows
        /\ DOMAIN batch = places
        /\ \A i \in places : /\ batch[i].cmd = cmd /\ batch[i].out_port = OFPP10_NONE
                             /\ batch[i].match = untranslate[i].match
        /\ Settled(m_slave)' = IF places = {} THEN Settled(m_slave)
                               ELSE Work(Settled(m_slave), batch)
    BY <1>1, <2>1, DeletionLemma
  <2>3. Covered(m, Strict(cmd)) = {untranslate[i].match : i \in places}
    BY DEF Covered, to_delete, Reserved
  <2> HIDE DEF places, batch
  <2>4. PICK b, table : b = batch /\ table = Settled(m_slave)
    OBVIOUS
  <2>5. \A i \in DOMAIN b : b[i].match \notin DOMAIN Work(table, b)
    BY <2>1, <2>2, <2>4, WorkDeletes
  <2> QED
    BY <2>2, <2>3, <2>4, <2>5
<1>2. FlowInv /\ ConnTypeOK
      => \A cmd \in Commands, m \in Matches : Deletes(cmd, m, OFPP10_NONE) =>
           Covered(m, Strict(cmd)) \cap DOMAIN Settled(m_slave)' = {}
  BY <1>1
<1> QED
  BY <1>2, DeletionInvariance, PTL DEF DeleteTakesEffect

\* A deletion takes nothing that it does not cover, if VLANs keep the virtual ports of
\* an actual one apart and the entries are for ports there are.
THEOREM FlowDeletionsSpareOthers == Spec => DeleteSparesOthers
<1> DEFINE Ports == \A i \in Places : translate[i].match.in_port \in VirtualPorts \cup {Wild}
<1>1. ASSUME FlowInv, ConnTypeOK, UntaggedMatches, SeparatePorts, Ports,
             NEW cmd \in Commands, NEW m \in Matches, NEW out \in OutPorts, Deletes(cmd, m, out),
             NEW x \in DOMAIN Settled(m_slave), x \notin DOMAIN Settled(m_slave)'
      PROVE  x \in Covered(m, Strict(cmd))
  <2> DEFINE places == to_delete(m, out, Strict(cmd))
             batch  == redirected(places, cmd, <<>>, out)
  <2>1. cmd \in {"DELETE", "DELETE_STRICT"} /\ handle_delete(cmd, m, out)
    BY <1>1 DEF Deletes
  <2>2. /\ places \subseteq 1 .. MaxFlows
        /\ DOMAIN batch = places
        /\ \A i \in places : batch[i].cmd = cmd /\ batch[i].match = untranslate[i].match
        /\ Settled(m_slave)' = IF places = {} THEN Settled(m_slave)
                               ELSE Work(Settled(m_slave), batch)
    BY <1>1, <2>1, DeletionLemma
  <2>3. places \subseteq matching(m, Strict(cmd))
    BY DEF to_delete
  <2>4. matching(m, Strict(cmd)) \subseteq Places
    BY DEF matching, Places
  <2> HIDE DEF places, batch
  <2>5. PICK i \in places : contains(untranslate[i].match, x, Strict(cmd))
    <3>1. PICK b, table : b = batch /\ table = Settled(m_slave)
      OBVIOUS
    <3>2. DOMAIN b \subseteq 1 .. MaxFlows /\ \A i \in DOMAIN b : b[i].cmd = cmd
      BY <2>2, <3>1
    <3>3. x \in DOMAIN table \ DOMAIN Work(table, b)
      BY <1>1, <2>2, <3>1
    <3>4. PICK i \in DOMAIN b : contains(b[i].match, x, Strict(cmd))
      BY <2>1, <3>2, <3>3, WorkTakes
    <3>5. i \in places /\ b[i].match = untranslate[i].match
      BY <2>2, <3>1
    <3> QED
      BY <3>4, <3>5
  <2>6. contains(m, translate[i].match, Strict(cmd)) /\ i \in Places
    BY <2>3, <2>4 DEF matching
  <2>7. CASE Strict(cmd)
    <3>1. x = untranslate[i].match
      BY <2>5, <2>7 DEF contains
    <3> QED
      BY <2>3, <3>1 DEF Covered
  <2>8. CASE ~Strict(cmd)
    <3>1. PICK j \in Places : x = untranslate[j].match
      <4> DEFINE stored == {untranslate[k].match : k \in Places}
                 batches == channel[m_slave]
      <4>1. m_slave \in Dpts
        BY <1>1, <2>1 DEF handle_delete, Handles, Connected, ConnTypeOK
      <4>2. /\ DOMAIN installed[m_slave] \subseteq stored
            /\ \A k \in DOMAIN batches : \A n \in DOMAIN batches[k] : batches[k][n].match \in stored
        BY <1>1, <4>1 DEF FlowInv, InstalledAreKnown
      <4>3. batches \in Seq(Batch) /\ Len(batches) \in Nat /\ DOMAIN batches = 1 .. Len(batches)
        BY <1>1, <4>1, LenProperties DEF FlowInv, FlowTypeOK
      <4> HIDE DEF stored, batches
      <4>4. PICK X, t, bs : X = stored /\ t = installed[m_slave] /\ bs = batches
        OBVIOUS
      <4>5. DOMAIN Settle(t, bs) \subseteq X
        BY <4>2, <4>3, <4>4, SettleKnown
      <4>6. x \in stored
        BY <4>4, <4>5 DEF Settled, batches
      <4> QED
        BY <4>6 DEF stored
    <3> DEFINE mi == translate[i].match
               mj == translate[j].match
    <3>2. untranslate[i].match = trans_match(mi) /\ untranslate[j].match = trans_match(mj)
      BY <1>1, <2>6 DEF FlowInv, SidesAgree
    <3>3. /\ IsMatch(mi) /\ mi.in_port \in VirtualPorts \cup {Wild} /\ mi.vlan = Wild
          /\ IsMatch(mj) /\ mj.in_port \in VirtualPorts \cup {Wild} /\ mj.vlan = Wild
      <4>1. mi \in Matches /\ mj \in Matches
        <5>1. \A k \in Places : translate[k] \in Wanted
          BY <1>1 DEF FlowInv, FlowTypeOK, Places
        <5> QED
          BY <2>6, <5>1 DEF Wanted
      <4> QED
        BY <1>1, <2>6, <4>1, FlowAssumption DEF UntaggedMatches
    <3>4. contains(trans_match(mi), trans_match(mj), FALSE)
      BY <2>5, <2>8, <3>1, <3>2, ContainsLoosely
    <3> HIDE DEF mi, mj
    <3>5. PICK a, b : a = mi /\ b = mj
      OBVIOUS
    <3>6. contains(a, b, FALSE)
      <4>1. /\ IsMatch(a) /\ a.in_port \in VirtualPorts \cup {Wild} /\ a.vlan = Wild
            /\ IsMatch(b) /\ b.in_port \in VirtualPorts \cup {Wild} /\ b.vlan = Wild
            /\ contains(trans_match(a), trans_match(b), FALSE)
        BY <3>3, <3>4, <3>5
      <4> QED
        BY <1>1, <4>1, CoversAlike
    <3>7. contains(m, a, FALSE)
      BY <2>6, <2>8, <3>5, ContainsLoosely DEF mi
    <3>8. contains(m, b, FALSE)
      BY <3>6, <3>7, CoversOn
    <3>9. j \in matching(m, Strict(cmd))
      <4>1. contains(m, mj, Strict(cmd))
        BY <2>8, <3>5, <3>8, ContainsLoosely
      <4> QED
        BY <4>1 DEF matching, Places, mj
    <3> QED
      BY <3>1, <3>9 DEF Covered
  <2> QED
    BY <2>7, <2>8
<1>2. FlowInv /\ ConnTypeOK /\ UntaggedMatches
      => (SeparatePorts /\ Ports =>
          \A cmd \in Commands, m \in Matches, out \in OutPorts : Deletes(cmd, m, out) =>
            DOMAIN Settled(m_slave) \ DOMAIN Settled(m_slave)' \subseteq Covered(m, Strict(cmd)))
  BY <1>1
<1> QED
  BY <1>2, DeletionInvariance, PTL DEF DeleteSparesOthers
=============================================================================
