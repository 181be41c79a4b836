-------------------------- MODULE TranslationProofs --------------------------
(***************************************************************************)
(* Lists of actions for any map of ports.                                  *)
(*                                                                         *)
(* Translations are put together by flattening a sequence of sequences.    *)
(* What a flattening holds is proved by induction on its parts; the        *)
(* induction is on a set of numbers, because well-foundedness of Nat is    *)
(* stated for sets.  The second part says what a switch does with a list   *)
(* in which an output to a tagged port stands behind the tag.              *)
(***************************************************************************)
EXTENDS Translation, SequenceTheorems, WellFoundedInduction, TLAPS

Smaller == OpToRel(<, Nat)

\* Induction over the natural numbers, for a set.
LEMMA SetInduction ==
  ASSUME NEW S, 0 \in S, \A n \in Nat : n \in S => n + 1 \in S
  PROVE  Nat \subseteq S
<1> DEFINE T == Nat \ S
<1> SUFFICES ASSUME T # {} PROVE FALSE
  OBVIOUS
<1>1. IsWellFoundedOn(Smaller, Nat)
  BY NatLessThanWellFounded DEF Smaller
<1>2. PICK x \in T : \A y \in T : ~(<<y, x>> \in Smaller)
  <2>1. T \subseteq Nat
    OBVIOUS
  <2> HIDE DEF T
  <2> QED
    BY <1>1, <2>1, WFMin
<1>3. x # 0 /\ x \in Nat
  OBVIOUS
<1>4. x - 1 \in Nat /\ x - 1 \notin S
  <2>1. x - 1 \in Nat /\ x - 1 + 1 = x
    BY <1>3
  <2> QED
    BY <2>1
<1>5. <<x - 1, x>> \in Smaller
  BY <1>3, <1>4 DEF Smaller, OpToRel
<1> QED
  BY <1>2, <1>4, <1>5

\* A set of numbers has a least one.
LEMMA LeastNumber ==
  ASSUME NEW S \in SUBSET Nat, S # {}
  PROVE  \E m \in S : \A k \in S : m <= k
<1>1. IsWellFoundedOn(Smaller, Nat)
  BY NatLessThanWellFounded DEF Smaller
<1>2. PICK m \in S : \A k \in S : ~(<<k, m>> \in Smaller)
  BY <1>1, WFMin
<1>3. ASSUME NEW k \in S PROVE m <= k
  <2>1. CASE k < m
    <3>1. k \in Nat /\ m \in Nat
      OBVIOUS
    <3>2. <<k, m>> \in Smaller
      BY <2>1, <3>1 DEF Smaller, OpToRel
    <3> QED
      BY <1>2, <3>2
  <2> QED
    BY <2>1
<1> QED
  BY <1>3

-----------------------------------------------------------------------------
(***************************************************************************)
(* Flattening                                                              *)
(***************************************************************************)

\* f[i] joins the first i of n sequences.
Joins(f, seqs, n) ==
    f = [i \in 1 .. n |-> IF i = 1 THEN seqs[i] ELSE f[i - 1] \o seqs[i]]

\* There is such an f for any number of sequences.
LEMMA JoinsExists ==
  ASSUME NEW seqs, NEW n \in Nat
  PROVE  \E f : Joins(f, seqs, n)
<1> DEFINE S == {k \in Nat : \E f : Joins(f, seqs, k)}
<1>1. 0 \in S
  <2> DEFINE e == [i \in 1 .. 0 |-> seqs]
  <2>1. Joins(e, seqs, 0) /\ 0 \in Nat
    BY DEF Joins
  <2>2. \E f : Joins(f, seqs, 0)
    BY <2>1
  <2> QED
    BY <2>1, <2>2
<1>2. ASSUME NEW k \in Nat, k \in S PROVE k + 1 \in S
  <2>1. PICK f : Joins(f, seqs, k)
    BY <1>2
  <2>2. \A i \in 1 .. k : f[i] = IF i = 1 THEN seqs[i] ELSE f[i - 1] \o seqs[i]
    <3>1. ASSUME NEW h, f = h, NEW i \in 1 .. k,
                 h = [j \in 1 .. k |-> IF j = 1 THEN seqs[j] ELSE f[j - 1] \o seqs[j]]
          PROVE  f[i] = IF i = 1 THEN seqs[i] ELSE f[i - 1] \o seqs[i]
      BY <3>1
    <3> QED
      BY <2>1, <3>1 DEF Joins
  <2> DEFINE g == [i \in 1 .. k + 1 |->
                     IF i = 1 THEN seqs[i]
                     ELSE f[i - 1] \o seqs[i]]
  <2>3. \A i \in 1 .. k : g[i] = f[i]
    BY <2>2
  <2>4. \A i \in 1 .. k + 1 : i # 1 => i - 1 \in 1 .. k
    OBVIOUS
  <2>5. g = [i \in 1 .. k + 1 |-> IF i = 1 THEN seqs[i] ELSE g[i - 1] \o seqs[i]]
    BY <2>3, <2>4
  <2>6. Joins(g, seqs, k + 1)
    BY <2>5 DEF Joins
  <2> QED
    BY <2>6
<1> HIDE DEF S
<1>3. Nat \subseteq S
  BY <1>1, <1>2, SetInduction
<1> QED
  BY <1>3 DEF S

\* FlattenSeq joins all of its sequences.
LEMMA FlattenJoins ==
  ASSUME NEW seqs, Len(seqs) \in Nat, Len(seqs) # 0
  PROVE  \E f : Joins(f, seqs, Len(seqs)) /\ SE!FlattenSeq(seqs) = f[Len(seqs)]
<1>1. \E f : f = [i \in 1 .. Len(seqs) |-> IF i = 1 THEN seqs[i] ELSE f[i - 1] \o seqs[i]]
  BY JoinsExists DEF Joins
<1> DEFINE J(f) == f = [i \in 1 .. Len(seqs) |-> IF i = 1 THEN seqs[i] ELSE f[i - 1] \o seqs[i]]
           g == CHOOSE f : J(f)
<1>2. J(g)
  BY <1>1
<1>3. SE!FlattenSeq(seqs) = g[Len(seqs)]
  BY DEF SE!FlattenSeq
<1> QED
  BY <1>2, <1>3 DEF Joins

\* Part i of seqs is found in flat behind off[i]; and nothing else is.
Parts(flat, seqs, n, off) ==
    /\ \A i \in 1 .. n : \A k \in DOMAIN seqs[i] :
         off[i] + k \in DOMAIN flat /\ flat[off[i] + k] = seqs[i][k]
    /\ \A j \in DOMAIN flat : \E i \in 1 .. n : \E k \in DOMAIN seqs[i] : j = off[i] + k

\* One more part.
LEMMA PartsGrow ==
  ASSUME NEW T, NEW seqs \in Seq(Seq(T)), NEW n \in Nat, n + 1 \in 1 .. Len(seqs),
         NEW flat \in Seq(T), NEW off \in [1 .. n -> Nat], Parts(flat, seqs, n, off)
  PROVE  /\ flat \o seqs[n + 1] \in Seq(T)
         /\ \E o \in [1 .. n + 1 -> Nat] : Parts(flat \o seqs[n + 1], seqs, n + 1, o)
<1> DEFINE s == seqs[n + 1]
           o == [i \in 1 .. n + 1 |-> IF i = n + 1 THEN Len(flat) ELSE off[i]]
           u == flat \o s
<1>0. n + 1 \in DOMAIN seqs
  BY LenProperties
<1>1. s \in Seq(T) /\ Len(s) \in Nat /\ Len(flat) \in Nat
  BY <1>0
<1>2. DOMAIN s = 1 .. Len(s) /\ DOMAIN flat = 1 .. Len(flat)
  BY <1>1, LenProperties
<1> HIDE DEF s
<1>3. /\ u \in Seq(T) /\ DOMAIN u = 1 .. Len(flat) + Len(s)
      /\ \A j \in 1 .. Len(flat) + Len(s) :
           u[j] = IF j <= Len(flat) THEN flat[j] ELSE s[j - Len(flat)]
  BY <1>1, ConcatProperties, LenProperties
<1> HIDE DEF u
<1>4. o \in [1 .. n + 1 -> Nat]
  BY <1>1
<1>5. o[n + 1] = Len(flat) /\ \A i \in 1 .. n : o[i] = off[i] /\ i \in 1 .. n + 1
  OBVIOUS
<1> HIDE DEF o
<1>6. ASSUME NEW i \in 1 .. n + 1, NEW k \in DOMAIN seqs[i]
      PROVE  o[i] + k \in DOMAIN u /\ u[o[i] + k] = seqs[i][k]
  <2>1. CASE i = n + 1
    <3>1. k \in 1 .. Len(s) /\ o[i] = Len(flat) /\ seqs[i] = s
      BY <1>2, <1>5, <2>1 DEF s
    <3>2. Len(flat) + k \in 1 .. Len(flat) + Len(s) /\ ~(Len(flat) + k <= Len(flat))
          /\ Len(flat) + k - Len(flat) = k
      BY <1>1, <3>1
    <3> QED
      BY <1>3, <3>1, <3>2
  <2>2. CASE i # n + 1
    <3>1. i \in 1 .. n
      BY <2>2
    <3>2. o[i] + k \in 1 .. Len(flat) /\ flat[o[i] + k] = seqs[i][k]
      BY <3>1, <1>2, <1>5, <1>6 DEF Parts
    <3>3. o[i] + k \in 1 .. Len(flat) + Len(s) /\ o[i] + k <= Len(flat)
      BY <1>1, <3>2
    <3> QED
      BY <1>3, <3>2, <3>3
  <2> QED
    BY <2>1, <2>2
<1>7. ASSUME NEW j \in DOMAIN u
      PROVE  \E i \in 1 .. n + 1 : \E k \in DOMAIN seqs[i] : j = o[i] + k
  <2>1. CASE j <= Len(flat)
    <3>1. j \in DOMAIN flat
      BY <1>1, <1>2, <1>3, <2>1
    <3> QED
      BY <3>1, <1>5 DEF Parts
  <2>2. CASE ~(j <= Len(flat))
    <3>1. j - Len(flat) \in DOMAIN s /\ j = Len(flat) + (j - Len(flat))
      BY <1>1, <1>2, <1>3, <2>2
    <3> QED
      BY <3>1, <1>5 DEF s
  <2> QED
    BY <2>1, <2>2
<1> QED
  BY <1>3, <1>4, <1>6, <1>7 DEF Parts, u, s

\* A flattening is a sequence of the same elements, made of all the parts.
LEMMA FlattenParts ==
  ASSUME NEW T, NEW seqs \in Seq(Seq(T))
  PROVE  /\ SE!FlattenSeq(seqs) \in Seq(T)
         /\ \E off \in [1 .. Len(seqs) -> Nat] :
              Parts(SE!FlattenSeq(seqs), seqs, Len(seqs), off)
<1> DEFINE L == Len(seqs)
<1>0. L \in Nat /\ DOMAIN seqs = 1 .. L
  BY LenProperties
<1>1. CASE L = 0
  <2>1. SE!FlattenSeq(seqs) = seqs /\ seqs = <<>>
    BY <1>1, EmptySeq DEF SE!FlattenSeq
  <2>2. <<>> \in Seq(T) /\ DOMAIN <<>> = {} /\ 1 .. 0 = {}
    OBVIOUS
  <2>3. Parts(<<>>, seqs, 0, [i \in 1 .. 0 |-> 0])
    BY <2>2 DEF Parts
  <2>4. [i \in 1 .. 0 |-> 0] \in [1 .. 0 -> Nat]
    OBVIOUS
  <2> QED
    BY <1>1, <2>1, <2>2, <2>3, <2>4
<1>2. CASE L # 0
  <2>1. PICK f : Joins(f, seqs, L) /\ SE!FlattenSeq(seqs) = f[L]
    BY <1>0, <1>2, FlattenJoins
  <2>2. \A i \in 1 .. L : f[i] = IF i = 1 THEN seqs[i] ELSE f[i - 1] \o seqs[i]
    BY <2>1 DEF Joins
  <2> HIDE DEF L
  <2> DEFINE Good(n) == /\ f[n] \in Seq(T)
                        /\ \E off \in [1 .. n -> Nat] : Parts(f[n], seqs, n, off)
             S == {n \in Nat : n + 1 \in 1 .. L => Good(n + 1)}
  <2>3. 0 \in S
    <3> DEFINE e == [i \in 1 .. 0 |-> 0]
    <3>1. <<>> \in Seq(T) /\ e \in [1 .. 0 -> Nat] /\ Parts(<<>>, seqs, 0, e)
      BY DEF Parts
    <3>2. 1 \in 1 .. L /\ 1 \in DOMAIN seqs /\ f[1] = seqs[1]
      BY <1>0, <1>2, <2>2 DEF L
    <3>3. <<>> \o seqs[1] = seqs[1]
      BY <3>2, ConcatEmptySeq
    <3> DEFINE m == 0
    <3>4. m \in Nat /\ m + 1 \in 1 .. Len(seqs) /\ m + 1 = 1
          /\ e \in [1 .. m -> Nat] /\ Parts(<<>>, seqs, m, e)
      BY <3>1, <3>2 DEF L
    <3> HIDE DEF m, e
    <3>5. /\ <<>> \o seqs[m + 1] \in Seq(T)
          /\ \E o \in [1 .. m + 1 -> Nat] : Parts(<<>> \o seqs[m + 1], seqs, m + 1, o)
      BY <3>1, <3>4, PartsGrow
    <3>6. Good(m + 1) /\ m \in Nat
      BY <3>2, <3>3, <3>4, <3>5
    <3> HIDE DEF Good
    <3> QED
      BY <3>6 DEF m
  <2>4. ASSUME NEW n \in Nat, n \in S PROVE n + 1 \in S
    <3> SUFFICES ASSUME n + 2 \in 1 .. L PROVE Good(n + 2)
      <4>1. n + 1 \in Nat /\ n + 1 + 1 = n + 2
        OBVIOUS
      <4> HIDE DEF Good
      <4> QED
        BY <4>1
    <3>1. n + 1 \in 1 .. L /\ n + 1 \in Nat /\ (n + 1) + 1 = n + 2 /\ (n + 2) - 1 = n + 1 /\ n + 2 # 1
      BY <1>0 DEF L
    <3>2. Good(n + 1)
      BY <2>4, <3>1
    <3>3. f[n + 2] = f[n + 1] \o seqs[n + 2]
      BY <2>2, <3>1
    <3>4. PICK off \in [1 .. n + 1 -> Nat] : Parts(f[n + 1], seqs, n + 1, off)
      BY <3>2
    <3> DEFINE m == n + 1
    <3>5. m \in Nat /\ m + 1 \in 1 .. Len(seqs) /\ f[m] \in Seq(T)
          /\ off \in [1 .. m -> Nat] /\ Parts(f[m], seqs, m, off)
          /\ m + 1 = n + 2
      BY <3>1, <3>2, <3>4 DEF L
    <3> HIDE DEF m
    <3>6. /\ f[m] \o seqs[m + 1] \in Seq(T)
          /\ \E o \in [1 .. m + 1 -> Nat] : Parts(f[m] \o seqs[m + 1], seqs, m + 1, o)
      BY <3>5, PartsGrow
    <3> QED
      BY <3>3, <3>5, <3>6 DEF m
  <2> HIDE DEF S
  <2>5. Nat \subseteq S
    BY <2>3, <2>4, SetInduction
  <2>6. L - 1 \in Nat /\ L - 1 + 1 = L /\ L \in 1 .. L
    BY <1>0, <1>2 DEF L
  <2>7. Good(L)
    <3>1. L - 1 \in S
      BY <2>5, <2>6
    <3> HIDE DEF Good
    <3> QED
      BY <3>1, <2>6 DEF S
  <2> QED
    BY <2>1, <2>7 DEF L
<1> QED
  BY <1>1, <1>2

\* The same, for the elements alone.
LEMMA FlattenElements ==
  ASSUME NEW T, NEW seqs \in Seq(Seq(T))
  PROVE  /\ \A i \in DOMAIN seqs : \A k \in DOMAIN seqs[i] :
              \E j \in DOMAIN SE!FlattenSeq(seqs) : SE!FlattenSeq(seqs)[j] = seqs[i][k]
         /\ \A j \in DOMAIN SE!FlattenSeq(seqs) :
              \E i \in DOMAIN seqs : \E k \in DOMAIN seqs[i] :
                 SE!FlattenSeq(seqs)[j] = seqs[i][k]
<1>1. PICK off \in [1 .. Len(seqs) -> Nat] :
        Parts(SE!FlattenSeq(seqs), seqs, Len(seqs), off)
  BY FlattenParts
<1>2. DOMAIN seqs = 1 .. Len(seqs)
  BY LenProperties
<1> DEFINE flat == SE!FlattenSeq(seqs)
<1> HIDE DEF flat
<1>3. ASSUME NEW i \in DOMAIN seqs, NEW k \in DOMAIN seqs[i]
      PROVE  \E j \in DOMAIN flat : flat[j] = seqs[i][k]
  <2>1. off[i] + k \in DOMAIN flat /\ flat[off[i] + k] = seqs[i][k]
    BY <1>1, <1>2 DEF Parts, flat
  <2> QED
    BY <2>1
<1>4. ASSUME NEW j \in DOMAIN flat
      PROVE  \E i \in DOMAIN seqs : \E k \in DOMAIN seqs[i] : flat[j] = seqs[i][k]
  <2>1. PICK i \in 1 .. Len(seqs) : \E k \in DOMAIN seqs[i] : j = off[i] + k
    BY <1>1 DEF Parts, flat
  <2>2. PICK k \in DOMAIN seqs[i] : j = off[i] + k
    BY <2>1
  <2>3. flat[j] = seqs[i][k]
    BY <1>1, <2>2 DEF Parts, flat
  <2> QED
    BY <1>2, <2>3
<1> QED
  BY <1>3, <1>4 DEF flat

\* Where the elements of a concatenation are.
LEMMA ConcatParts ==
  ASSUME NEW T, NEW s \in Seq(T), NEW t \in Seq(T)
  PROVE  /\ s \o t \in Seq(T)
         /\ \A k \in DOMAIN s : k \in DOMAIN (s \o t) /\ (s \o t)[k] = s[k]
         /\ \A k \in DOMAIN t : Len(s) + k \in DOMAIN (s \o t) /\ (s \o t)[Len(s) + k] = t[k]
         /\ \A j \in DOMAIN (s \o t) : j \in DOMAIN s \/ \E k \in DOMAIN t : j = Len(s) + k
<1>1. DOMAIN s = 1 .. Len(s) /\ DOMAIN t = 1 .. Len(t) /\ Len(s) \in Nat /\ Len(t) \in Nat
  BY LenProperties
<1> DEFINE u == s \o t
<1>2. /\ u \in Seq(T) /\ DOMAIN u = 1 .. Len(s) + Len(t)
      /\ \A j \in 1 .. Len(s) + Len(t) : u[j] = IF j <= Len(s) THEN s[j] ELSE t[j - Len(s)]
  BY ConcatProperties, LenProperties
<1> HIDE DEF u
<1>3. \A k \in DOMAIN s : k \in DOMAIN u /\ u[k] = s[k]
  BY <1>1, <1>2
<1>4. ASSUME NEW k \in DOMAIN t PROVE Len(s) + k \in DOMAIN u /\ u[Len(s) + k] = t[k]
  <2>1. /\ Len(s) + k \in 1 .. Len(s) + Len(t) /\ ~(Len(s) + k <= Len(s))
        /\ Len(s) + k - Len(s) = k
    BY <1>1
  <2> QED
    BY <1>2, <2>1
<1>5. ASSUME NEW j \in DOMAIN u PROVE j \in DOMAIN s \/ \E k \in DOMAIN t : j = Len(s) + k
  <2>1. CASE j <= Len(s)
    BY <1>1, <1>2, <2>1
  <2>2. CASE ~(j <= Len(s))
    <3>1. j - Len(s) \in DOMAIN t /\ j = Len(s) + (j - Len(s))
      BY <1>1, <1>2, <2>2
    <3> QED
      BY <3>1
  <2> QED
    BY <2>1, <2>2
<1> QED
  BY <1>2, <1>3, <1>4, <1>5 DEF u

-----------------------------------------------------------------------------
(***************************************************************************)
(* Outputs and tags                                                        *)
(***************************************************************************)
Marks == {"set_vlan", "strip_vlan"}

\* The j-th action of list l is the output for virtual port p, its tag before it.
OutputFor(l, j, p) ==
    /\ j \in DOMAIN l /\ l[j] = Output(get_actual_port(p).port)
    /\ Tagged(p) => j - 1 \in DOMAIN l /\ l[j - 1] = SetVlan(get_actual_port(p).vlan)

\* A tag is set for what follows.
LEMMA TagFollows ==
  ASSUME NEW tag, NEW l, NEW j \in Nat, j - 1 \in Nat \ {0}, l[j - 1].type \in Marks
  PROVE  TagAt(tag, l, j) = l[j - 1].arg
<1> DEFINE marks == {k \in 1 .. j - 1 : l[k].type \in {"set_vlan", "strip_vlan"}}
           last  == CHOOSE k \in marks : \A i \in marks : i <= k
<1>1. j - 1 \in marks /\ \A i \in marks : i <= j - 1 /\ i \in Nat
  BY DEF Marks
<1>2. last \in marks /\ \A i \in marks : i <= last
  <2>1. \E k \in marks : \A i \in marks : i <= k
    BY <1>1
  <2> HIDE DEF marks
  <2> QED
    BY <2>1
<1>3. last = j - 1
  <2> HIDE DEF marks, last
  <2> QED
    BY <1>1, <1>2
<1>4. marks # {}
  BY <1>1
<1>5. TagAt(tag, l, j) = IF marks = {} THEN tag ELSE l[last].arg
  BY DEF TagAt
<1> HIDE DEF marks, last
<1> QED
  BY <1>3, <1>4, <1>5

\* Without a mark the packet keeps its tag.
LEMMA TagKept ==
  ASSUME NEW tag, NEW l, NEW j, \A k \in 1 .. j - 1 : l[k].type \notin Marks
  PROVE  TagAt(tag, l, j) = tag
<1> DEFINE marks == {k \in 1 .. j - 1 : l[k].type \in {"set_vlan", "strip_vlan"}}
<1>1. marks = {}
  BY DEF Marks
<1> QED
  BY <1>1 DEF TagAt

LEMMA PortTyped ==
  ASSUME NEW p \in VirtualPorts
  PROVE  /\ get_actual_port(p) \in PortSpec
         /\ get_actual_port(p).port \in Nat
         /\ Tagged(p) => get_actual_port(p).vlan \in Nat
         /\ ~Tagged(p) => get_actual_port(p).vlan = NoVlan
<1>1. get_actual_port(p) \in PortSpec
  BY MapperAssumption, ElementOfSeq DEF VirtualPorts, get_actual_port
<1> QED
  BY <1>1 DEF PortSpec, Tagged

\* What trans_output makes of an output.
LEMMA TransOutput ==
  ASSUME NEW p \in VirtualPorts
  PROVE  /\ trans_output(p) \in Seq(SwitchAction)
         /\ \E j \in DOMAIN trans_output(p) : OutputFor(trans_output(p), j, p)
         /\ \A j \in DOMAIN trans_output(p) :
              \/ OutputFor(trans_output(p), j, p)
              \/ trans_output(p)[j].type = "set_vlan" /\ Tagged(p)
<1> DEFINE a == get_actual_port(p)
<1>1. a.port \in Nat /\ (Tagged(p) => a.vlan \in Nat)
  BY PortTyped
<1> HIDE DEF a
<1>2. Output(a.port) \in SwitchAction
  BY <1>1 DEF Output, SwitchAction, Action
<1>3. CASE Tagged(p)
  <2>1. SetVlan(a.vlan) \in SwitchAction /\ SetVlan(a.vlan).type = "set_vlan"
    BY <1>1, <1>3 DEF SetVlan, SwitchAction
  <2>2. trans_output(p) = <<SetVlan(a.vlan), Output(a.port)>>
    BY <1>3 DEF trans_output, a
  <2> DEFINE l == <<SetVlan(a.vlan), Output(a.port)>>
  <2>3. l \in Seq(SwitchAction) /\ DOMAIN l = {1, 2} /\ 2 - 1 = 1
        /\ l[1] = SetVlan(a.vlan) /\ l[2] = Output(a.port)
    BY <1>2, <2>1
  <2> HIDE DEF l
  <2>4. OutputFor(l, 2, p)
    BY <2>3 DEF OutputFor, a
  <2> QED
    BY <1>3, <2>1, <2>2, <2>3, <2>4 DEF l
<1>4. CASE ~Tagged(p)
  <2>1. trans_output(p) = <<Output(a.port)>>
    BY <1>4 DEF trans_output, a
  <2> DEFINE l == <<Output(a.port)>>
  <2>2. l \in Seq(SwitchAction) /\ DOMAIN l = {1} /\ l[1] = Output(a.port)
    BY <1>2
  <2> HIDE DEF l
  <2>3. OutputFor(l, 1, p)
    BY <1>4, <2>2 DEF OutputFor, a
  <2> QED
    BY <2>1, <2>2, <2>3 DEF l
<1> QED
  BY <1>3, <1>4

\* An output stays one in a list that its list is a part of.
LEMMA OutputInPart ==
  ASSUME NEW l, NEW part, NEW o \in Nat, NEW j, NEW p, DOMAIN part \subseteq Nat,
         \A k \in DOMAIN part : o + k \in DOMAIN l /\ l[o + k] = part[k],
         OutputFor(part, j, p)
  PROVE  OutputFor(l, o + j, p)
<1>1. j \in Nat /\ (o + j) - 1 = o + (j - 1)
  BY DEF OutputFor
<1> QED
  BY <1>1 DEF OutputFor

\* The outputs on a list of outputs.
LEMMA OutputsOnPorts ==
  ASSUME NEW ports \in SUBSET VirtualPorts
  PROVE  /\ OutputsOn(ports) \in Seq(SwitchAction)
         /\ \A p \in ports : \E j \in DOMAIN OutputsOn(ports) : OutputFor(OutputsOn(ports), j, p)
         /\ \A j \in DOMAIN OutputsOn(ports) :
              \E p \in ports :
                 \/ OutputFor(OutputsOn(ports), j, p)
                 \/ OutputsOn(ports)[j].type = "set_vlan" /\ Tagged(p)
<1> DEFINE seqs == [p \in VirtualPorts |-> IF p \in ports THEN trans_output(p) ELSE <<>>]
           l == SE!FlattenSeq(seqs)
<1>1. Len(PortMap) \in Nat /\ VirtualPorts = 1 .. Len(PortMap)
  BY MapperAssumption, LenProperties DEF VirtualPorts
<1>2. \A p \in VirtualPorts : trans_output(p) \in Seq(SwitchAction) /\ <<>> \in Seq(SwitchAction)
  BY TransOutput
<1>3. seqs \in Seq(Seq(SwitchAction)) /\ DOMAIN seqs = VirtualPorts /\ Len(seqs) = Len(PortMap)
  BY <1>1, <1>2
<1>4. \A p \in VirtualPorts : seqs[p] = IF p \in ports THEN trans_output(p) ELSE <<>>
  OBVIOUS
<1>5. OutputsOn(ports) = l
  BY DEF OutputsOn
<1> HIDE DEF seqs, l
<1>6. l \in Seq(SwitchAction)
  BY <1>3, FlattenParts DEF l
<1>7. PICK off \in [1 .. Len(seqs) -> Nat] : Parts(l, seqs, Len(seqs), off)
  BY <1>3, FlattenParts DEF l
<1>8. ASSUME NEW p \in ports, NEW j \in DOMAIN trans_output(p), OutputFor(trans_output(p), j, p)
      PROVE  OutputFor(l, off[p] + j, p)
  <2>1. p \in 1 .. Len(seqs) /\ seqs[p] = trans_output(p) /\ off[p] \in Nat
    BY <1>1, <1>3, <1>4
  <2>2. \A k \in DOMAIN trans_output(p) :
          off[p] + k \in DOMAIN l /\ l[off[p] + k] = trans_output(p)[k]
    BY <1>7, <2>1 DEF Parts
  <2>3. DOMAIN trans_output(p) \subseteq Nat
    BY <1>2, LenProperties
  <2> QED
    BY <1>8, <2>1, <2>2, <2>3, OutputInPart
<1>9. ASSUME NEW p \in ports PROVE \E j \in DOMAIN l : OutputFor(l, j, p)
  <2>1. PICK j \in DOMAIN trans_output(p) : OutputFor(trans_output(p), j, p)
    BY TransOutput
  <2> QED
    BY <1>8, <2>1 DEF OutputFor
<1>10. ASSUME NEW j \in DOMAIN l
       PROVE  \E p \in ports : OutputFor(l, j, p) \/ (l[j].type = "set_vlan" /\ Tagged(p))
  <2>1. PICK p \in 1 .. Len(seqs) : \E k \in DOMAIN seqs[p] : j = off[p] + k
    BY <1>7 DEF Parts
  <2>2. PICK k \in DOMAIN seqs[p] : j = off[p] + k
    BY <2>1
  <2>3. l[j] = seqs[p][k]
    BY <1>7, <2>2 DEF Parts
  <2>4. p \in ports /\ seqs[p] = trans_output(p)
    BY <1>1, <1>3, <1>4, <2>2
  <2>5. \/ OutputFor(trans_output(p), k, p)
        \/ trans_output(p)[k].type = "set_vlan" /\ Tagged(p)
    BY <2>2, <2>4, TransOutput
  <2> QED
    BY <1>8, <2>2, <2>3, <2>4, <2>5
<1> QED
  BY <1>5, <1>6, <1>9, <1>10

-----------------------------------------------------------------------------
(***************************************************************************)
(* Lists that send a packet where they should                              *)
(***************************************************************************)

\* List l outputs to the given virtual ports and no others, untagged before tagged.
SentAt(l, j, p) ==
    /\ OutputFor(l, j, p)
    /\ ~Tagged(p) => \A k \in 1 .. j - 1 : l[k].type \notin Marks

SendsTo(l, ports) ==
    /\ l \in Seq(SwitchAction)
    /\ \A p \in ports : \E j \in DOMAIN l : SentAt(l, j, p)
    /\ \A j \in DOMAIN l : l[j].type = "output" => \E p \in ports : SentAt(l, j, p)

LEMMA OutputSends ==
  ASSUME NEW p \in VirtualPorts
  PROVE  SendsTo(trans_output(p), {p})
<1> DEFINE l == trans_output(p)
<1>1. l \in Seq(SwitchAction) /\ DOMAIN l \subseteq Nat
  BY TransOutput, LenProperties
<1>2. /\ \E j \in DOMAIN l : OutputFor(l, j, p)
      /\ \A j \in DOMAIN l : OutputFor(l, j, p) \/ (l[j].type = "set_vlan" /\ Tagged(p))
  BY TransOutput
<1>3. \A j \in DOMAIN l : \A k \in 1 .. j - 1 : k \in DOMAIN l
  BY <1>1, LenProperties
<1>4. \A k \in DOMAIN l : OutputFor(l, k, p) => l[k].type = "output" /\ l[k].type \notin Marks
  BY DEF OutputFor, Output, Marks
<1> HIDE DEF l
<1>5. ASSUME NEW j \in DOMAIN l, l[j].type = "output"
      PROVE  SentAt(l, j, p)
  BY <1>2, <1>3, <1>4, <1>5 DEF SentAt
<1>6. \E j \in DOMAIN l : SentAt(l, j, p)
  BY <1>2, <1>4, <1>5
<1> QED
  BY <1>1, <1>5, <1>6 DEF SendsTo, l

\* Rewriting fields first changes nothing of that.
LEMMA RewritesFirst ==
  ASSUME NEW pre \in Seq(SwitchAction), NEW l, NEW ports, SendsTo(l, ports),
         \A k \in DOMAIN pre : pre[k].type \notin Marks \cup {"output"}
  PROVE  SendsTo(pre \o l, ports)
<1> DEFINE u == pre \o l
<1>1. l \in Seq(SwitchAction) /\ DOMAIN l \subseteq Nat /\ Len(pre) \in Nat
      /\ DOMAIN pre = 1 .. Len(pre) /\ DOMAIN l = 1 .. Len(l) /\ Len(l) \in Nat
  BY LenProperties DEF SendsTo
<1>2. /\ u \in Seq(SwitchAction)
      /\ \A k \in DOMAIN pre : k \in DOMAIN u /\ u[k] = pre[k]
      /\ \A k \in DOMAIN l : Len(pre) + k \in DOMAIN u /\ u[Len(pre) + k] = l[k]
      /\ \A j \in DOMAIN u : j \in DOMAIN pre \/ \E k \in DOMAIN l : j = Len(pre) + k
  BY <1>1, ConcatParts
<1> HIDE DEF u
<1>3. ASSUME NEW p, NEW j, OutputFor(l, j, p)
      PROVE  OutputFor(u, Len(pre) + j, p) /\ Len(pre) + j \in DOMAIN u
  <2>1. OutputFor(u, Len(pre) + j, p)
    BY <1>1, <1>2, <1>3, OutputInPart
  <2> QED
    BY <2>1 DEF OutputFor
<1>4. ASSUME NEW p, NEW i \in DOMAIN l, SentAt(l, i, p)
      PROVE  Len(pre) + i \in DOMAIN u /\ SentAt(u, Len(pre) + i, p)
  <2>1. ASSUME ~Tagged(p), NEW k \in 1 .. (Len(pre) + i) - 1 PROVE u[k].type \notin Marks
    <3>1. CASE k <= Len(pre)
      <4>1. k \in DOMAIN pre
        BY <1>1, <3>1
      <4> QED
        BY <1>2, <4>1
    <3>2. CASE ~(k <= Len(pre))
      <4>1. /\ k - Len(pre) \in 1 .. i - 1 /\ k - Len(pre) \in DOMAIN l
            /\ Len(pre) + (k - Len(pre)) = k
        BY <1>1, <3>2
      <4>2. u[k] = l[k - Len(pre)]
        BY <1>2, <4>1
      <4> QED
        BY <1>4, <2>1, <4>1, <4>2 DEF SentAt
    <3> QED
      BY <3>1, <3>2
  <2> QED
    BY <1>3, <1>4, <2>1 DEF SentAt
<1>5. \A p \in ports : \E j \in DOMAIN u : SentAt(u, j, p)
  BY <1>4 DEF SendsTo
<1>6. ASSUME NEW j \in DOMAIN u, u[j].type = "output"
      PROVE  \E p \in ports : SentAt(u, j, p)
  <2>1. PICK i \in DOMAIN l : j = Len(pre) + i
    BY <1>2, <1>6
  <2>2. l[i].type = "output"
    BY <1>2, <1>6, <2>1
  <2> QED
    BY <1>4, <2>1, <2>2 DEF SendsTo
<1> QED
  BY <1>2, <1>5, <1>6 DEF SendsTo, u

\* A flood reaches all of its ports, each with its tag.
THEOREM FloodSends ==
  ASSUME NEW ports \in SUBSET VirtualPorts
  PROVE  SendsTo(flood(ports), ports)
<1> DEFINE tagged == {p \in ports : Tagged(p)}
           s == OutputsOn(ports \ tagged)
           t == OutputsOn(tagged)
           u == s \o t
           e == IF tagged # {} THEN <<StripVlan>> ELSE <<>>
           l == u \o e
<1>0. ports \ tagged \in SUBSET VirtualPorts /\ tagged \in SUBSET VirtualPorts
  OBVIOUS
<1>1. /\ \A p \in tagged : p \in ports /\ Tagged(p)
      /\ \A p \in ports \ tagged : ~Tagged(p)
  OBVIOUS
<1>2. flood(ports) = l
  BY DEF flood
<1>3. e \in Seq(SwitchAction) /\ \A k \in DOMAIN e : e[k].type = "strip_vlan"
  <2>1. <<StripVlan>> \in Seq(SwitchAction) /\ StripVlan.type = "strip_vlan"
    BY DEF StripVlan, SwitchAction
  <2> QED
    BY <2>1
<1> HIDE DEF tagged, s, t, e
<1>4. /\ s \in Seq(SwitchAction)
      /\ \A p \in ports \ tagged : \E j \in DOMAIN s : OutputFor(s, j, p)
      /\ \A j \in DOMAIN s : \E p \in ports \ tagged : OutputFor(s, j, p)
  BY <1>0, <1>1, OutputsOnPorts DEF s
<1>5. /\ t \in Seq(SwitchAction)
      /\ \A p \in tagged : \E j \in DOMAIN t : OutputFor(t, j, p)
      /\ \A j \in DOMAIN t : t[j].type = "output" =>
           \E p \in tagged : OutputFor(t, j, p)
  BY <1>0, OutputsOnPorts DEF t
<1>6. /\ DOMAIN s \subseteq Nat /\ DOMAIN t \subseteq Nat /\ Len(s) \in Nat
      /\ DOMAIN s = 1 .. Len(s) /\ DOMAIN t = 1 .. Len(t) /\ Len(t) \in Nat
  BY <1>4, <1>5, LenProperties
<1>7. /\ u \in Seq(SwitchAction)
      /\ \A k \in DOMAIN s : k \in DOMAIN u /\ u[k] = s[k]
      /\ \A k \in DOMAIN t : Len(s) + k \in DOMAIN u /\ u[Len(s) + k] = t[k]
      /\ \A j \in DOMAIN u : j \in DOMAIN s \/ \E k \in DOMAIN t : j = Len(s) + k
  BY <1>4, <1>5, ConcatParts
<1> HIDE DEF u
<1>8. /\ l \in Seq(SwitchAction)
      /\ \A k \in DOMAIN u : k \in DOMAIN l /\ l[k] = u[k]
      /\ \A j \in DOMAIN l : j \in DOMAIN u \/ l[j].type = "strip_vlan"
  BY <1>3, <1>7, ConcatParts
<1> HIDE DEF l
<1>9. ASSUME NEW p, NEW j, OutputFor(s, j, p) PROVE OutputFor(l, j, p)
  BY <1>7, <1>8, <1>9 DEF OutputFor
<1>10. ASSUME NEW p, NEW j \in DOMAIN s, OutputFor(s, j, p) PROVE j \in DOMAIN l /\ SentAt(l, j, p)
  <2>1. ASSUME NEW k \in 1 .. j - 1 PROVE l[k].type \notin Marks
    <3>1. k \in DOMAIN s
      BY <1>6
    <3>2. PICK q : OutputFor(s, k, q)
      BY <1>4, <3>1
    <3> QED
      BY <1>9, <3>2 DEF OutputFor, Output, Marks
  <2>2. OutputFor(l, j, p)
    BY <1>9, <1>10
  <2> QED
    BY <2>1, <2>2 DEF SentAt, OutputFor
<1>11. ASSUME NEW p \in tagged, NEW j, OutputFor(t, j, p)
       PROVE  Len(s) + j \in DOMAIN l /\ SentAt(l, Len(s) + j, p)
  <2>1. OutputFor(l, Len(s) + j, p)
    BY <1>6, <1>7, <1>8, <1>11, OutputInPart
  <2> QED
    BY <1>1, <2>1 DEF SentAt, OutputFor
<1>12. ASSUME NEW p \in ports PROVE \E j \in DOMAIN l : SentAt(l, j, p)
  <2>1. CASE p \in tagged
    BY <1>5, <1>11, <2>1
  <2>2. CASE p \notin tagged
    BY <1>4, <1>10, <2>2
  <2> QED
    BY <2>1, <2>2
<1>13. ASSUME NEW j \in DOMAIN l, l[j].type = "output"
       PROVE  \E p \in ports : SentAt(l, j, p)
  <2>1. j \in DOMAIN u
    BY <1>8, <1>13
  <2>2. CASE j \in DOMAIN s
    BY <1>4, <1>10, <2>2
  <2>3. CASE \E k \in DOMAIN t : j = Len(s) + k
    <3>1. PICK k \in DOMAIN t : j = Len(s) + k
      BY <2>3
    <3>2. t[k].type = "output"
      BY <1>7, <1>8, <1>13, <3>1
    <3>3. PICK p \in tagged : OutputFor(t, k, p)
      BY <1>5, <3>2
    <3> QED
      BY <1>1, <1>11, <3>1, <3>3
  <2> QED
    BY <1>7, <2>1, <2>2, <2>3
<1> QED
  BY <1>2, <1>8, <1>12, <1>13 DEF SendsTo

\* The tag a packet leaves with.
TagFor(p, tag) == IF Tagged(p) THEN get_actual_port(p).vlan ELSE tag

LEMMA SentTagged ==
  ASSUME NEW l \in Seq(SwitchAction), NEW j \in DOMAIN l, NEW p, SentAt(l, j, p), NEW tag
  PROVE  /\ l[j].type = "output" /\ l[j].arg = get_actual_port(p).port
         /\ TagAt(tag, l, j) = TagFor(p, tag)
<1>1. l[j].type = "output" /\ l[j].arg = get_actual_port(p).port
  BY DEF SentAt, OutputFor, Output
<1>2. CASE Tagged(p)
  <2>1. /\ j \in Nat /\ j - 1 \in Nat \ {0}
        /\ l[j - 1].type \in Marks /\ l[j - 1].arg = get_actual_port(p).vlan
    <3>1. j - 1 \in DOMAIN l /\ l[j - 1] = SetVlan(get_actual_port(p).vlan)
      BY <1>2 DEF SentAt, OutputFor
    <3>2. DOMAIN l \subseteq Nat \ {0}
      BY LenProperties
    <3> QED
      BY <3>1, <3>2 DEF SetVlan, Marks
  <2> QED
    BY <1>1, <1>2, <2>1, TagFollows DEF TagFor
<1>3. CASE ~Tagged(p)
  BY <1>1, <1>3, TagKept DEF SentAt, TagFor
<1> QED
  BY <1>2, <1>3

\* What such a list does to a packet: it leaves at these ports, each with its tag,
\* and nowhere else.
LEMMA SendsWhereAsked ==
  ASSUME NEW l, NEW ports \in SUBSET VirtualPorts, SendsTo(l, ports), NEW tag,
         NEW e \in Emissions(tag, l)
  PROVE  \E p \in ports : e.port = get_actual_port(p).port /\ e.vlan = TagFor(p, tag)
<1>1. PICK j \in DOMAIN l : /\ l[j].type = "output"
                            /\ e = [port |-> l[j].arg, vlan |-> TagAt(tag, l, j)]
  BY DEF Emissions
<1>2. PICK p \in ports : SentAt(l, j, p)
  BY <1>1 DEF SendsTo
<1> QED
  BY <1>1, <1>2, SentTagged DEF SendsTo

LEMMA SendsToEach ==
  ASSUME NEW l, NEW ports \in SUBSET VirtualPorts, SendsTo(l, ports), NEW tag, NEW p \in ports
  PROVE  \E e \in Emissions(tag, l) : e.port = get_actual_port(p).port /\ e.vlan = TagFor(p, tag)
<1>1. PICK j \in DOMAIN l : SentAt(l, j, p)
  BY DEF SendsTo
<1>2. l \in Seq(SwitchAction)
  BY DEF SendsTo
<1> DEFINE e == [port |-> l[j].arg, vlan |-> TagAt(tag, l, j)]
<1>3. e \in Emissions(tag, l)
  BY <1>1, <1>2, SentTagged DEF Emissions
<1>4. e.port = get_actual_port(p).port /\ e.vlan = TagFor(p, tag)
  BY <1>1, <1>2, SentTagged
<1> QED
  BY <1>3, <1>4
-----------------------------------------------------------------------------
(***************************************************************************)
(* Translated lists                                                        *)
(***************************************************************************)

\* A translation that nothing stops has no action at fault.
LEMMA NoActionAtFault ==
  ASSUME NEW actions \in Seq(Action), NEW m, NEW valid, trans_fault(actions, m, valid) = "none"
  PROVE  \A i \in DOMAIN actions : action_fault(actions[i], m) = "none"
<1> DEFINE faulty == {i \in DOMAIN actions : action_fault(actions[i], m) # "none"}
           first  == CHOOSE i \in faulty : \A j \in faulty : i <= j
<1>1. SUFFICES ASSUME faulty # {} PROVE FALSE
  OBVIOUS
<1>2. faulty \subseteq Nat
  BY LenProperties
<1>3. \E i \in faulty : \A j \in faulty : i <= j
  <2> HIDE DEF faulty
  <2> QED
    BY <1>1, <1>2, LeastNumber
<1>4. first \in faulty
  BY <1>3
<1>5. \/ trans_fault(actions, m, valid) = "eInval"
      \/ trans_fault(actions, m, valid) = action_fault(actions[first], m)
  BY <1>1 DEF trans_fault
<1>6. action_fault(actions[first], m) # "none"
  BY <1>4
<1> HIDE DEF faulty, first
<1> QED
  BY <1>5, <1>6

\* What one action becomes is for a switch to take.
LEMMA TransAction ==
  ASSUME NEW a \in Action, NEW m, action_fault(a, m) = "none"
  PROVE  trans_action(a, m) \in Seq(SwitchAction)
<1>1. CASE a.type = "output"
  <2>1. a.arg \in VirtualPorts
    BY <1>1 DEF action_fault
  <2> QED
    BY <1>1, <2>1, TransOutput DEF trans_action
<1>2. CASE a.type = "flood"
  <2> DEFINE ports == {p \in VirtualPorts : get_actual_port(p).port # m.in_port}
  <2>1. ports \in SUBSET VirtualPorts
    OBVIOUS
  <2>2. trans_action(a, m) = flood(ports)
    BY <1>2 DEF trans_action, trans_flood
  <2> HIDE DEF ports
  <2> QED
    BY <2>1, <2>2, FloodSends DEF SendsTo
<1>3. CASE a.type # "output" /\ a.type # "flood"
  <2>1. trans_action(a, m) = <<a>>
    BY <1>3 DEF trans_action
  <2>2. a \in SwitchAction
    BY DEF SwitchAction
  <2> QED
    BY <2>1, <2>2
<1> QED
  BY <1>1, <1>2, <1>3

\* What an output leads to, when the packet is tagged just before.
LEMMA OutputEmits ==
  ASSUME NEW l \in Seq(SwitchAction), NEW j, NEW p \in VirtualPorts, OutputFor(l, j, p),
         Tagged(p), NEW tag
  PROVE  get_actual_port(p) \in Emissions(tag, l)
<1> DEFINE a == get_actual_port(p)
<1>1. /\ j \in DOMAIN l /\ l[j].type = "output" /\ l[j].arg = a.port
      /\ j - 1 \in DOMAIN l /\ l[j - 1].type \in Marks /\ l[j - 1].arg = a.vlan
  BY DEF OutputFor, Output, SetVlan, Marks
<1>2. j \in Nat /\ j - 1 \in Nat \ {0}
  BY <1>1, LenProperties
<1>3. TagAt(tag, l, j) = a.vlan
  <2> HIDE DEF a
  <2> QED
    BY <1>1, <1>2, TagFollows
<1>4. [port |-> l[j].arg, vlan |-> TagAt(tag, l, j)] \in Emissions(tag, l)
  BY <1>1 DEF Emissions
<1>5. a = [port |-> a.port, vlan |-> a.vlan]
  BY PortTyped DEF PortSpec
<1> HIDE DEF a
<1> QED
  BY <1>1, <1>3, <1>4, <1>5 DEF a

\* In a translation each output to a tagged port stands behind the tag of that port,
\* whatever precedes it in the list.
THEOREM TranslationTags ==
  ASSUME NEW actions \in Seq(Action), NEW m, NEW valid,
         trans_fault(actions, m, valid) = "none",
         NEW i \in DOMAIN actions, actions[i].type = "output", Tagged(actions[i].arg), NEW tag
  PROVE  get_actual_port(actions[i].arg) \in Emissions(tag, trans_actions(actions, m))
<1> DEFINE seqs == [k \in DOMAIN actions |-> trans_action(actions[k], m)]
           l == trans_actions(actions, m)
           p == actions[i].arg
<1>1. DOMAIN actions = 1 .. Len(actions) /\ Len(actions) \in Nat
  BY LenProperties
<1>2. \A k \in DOMAIN actions : actions[k] \in Action /\ action_fault(actions[k], m) = "none"
  BY NoActionAtFault
<1>3. \A k \in 1 .. Len(actions) : seqs[k] \in Seq(SwitchAction)
  BY <1>1, <1>2, TransAction
<1>4. seqs = [k \in 1 .. Len(actions) |-> seqs[k]] /\ DOMAIN seqs = 1 .. Len(actions)
  BY <1>1
<1>5. l = SE!FlattenSeq(seqs)
  BY DEF trans_actions
<1>6. p \in VirtualPorts
  BY <1>2 DEF action_fault
<1>7. seqs[i] = trans_output(p)
  BY DEF trans_action
<1> HIDE DEF seqs, l, p
<1>8. seqs \in Seq(Seq(SwitchAction)) /\ Len(seqs) = Len(actions)
  BY <1>1, <1>3, <1>4, SeqDef, LenProperties
<1>9. l \in Seq(SwitchAction)
  BY <1>5, <1>8, FlattenParts
<1>10. PICK off \in [1 .. Len(seqs) -> Nat] : Parts(l, seqs, Len(seqs), off)
  BY <1>5, <1>8, FlattenParts
<1>11. PICK j \in DOMAIN trans_output(p) : OutputFor(trans_output(p), j, p)
  BY <1>6, TransOutput
<1>12. OutputFor(l, off[i] + j, p)
  <2> DEFINE part == trans_output(p)
             o == off[i]
  <2>1. i \in 1 .. Len(seqs) /\ o \in Nat
    BY <1>1, <1>8
  <2>2. \A k \in DOMAIN part : o + k \in DOMAIN l /\ l[o + k] = part[k]
    BY <1>7, <1>10, <2>1 DEF Parts
  <2>3. DOMAIN part \subseteq Nat
    BY <1>6, TransOutput, LenProperties
  <2>4. OutputFor(part, j, p)
    BY <1>11
  <2> HIDE DEF part, o
  <2>5. OutputFor(l, o + j, p)
    BY <2>1, <2>2, <2>3, <2>4, OutputInPart
  <2> QED
    BY <2>5 DEF o
<1>13. Tagged(p)
  BY DEF p
<1> QED
  BY <1>6, <1>9, <1>12, <1>13, OutputEmits DEF l, p
=============================================================================
