---------------------------- MODULE Devices_proofs ----------------------------
(***************************************************************************)
(* GroupingSound, StateIsCurrent and HeardOfIsOffered are invariants of    *)
(* Devices for any set of entities, whatever they are, may say and are     *)
(* listed as, and any number of events.                                    *)
(*                                                                         *)
(* A group is a list chosen from a list: ThoseInSet says what the choice   *)
(* contains.  An event changes one device; that the state of the others    *)
(* stays current needs that none of them has the entity (OneDeviceEach).   *)
(***************************************************************************)
EXTENDS Devices, NaturalsInduction, WellFoundedInduction, SequenceTheorems, TLAPS

-----------------------------------------------------------------------------
(***************************************************************************)
(* Choosing from a list                                                    *)
(***************************************************************************)
LEMMA LeastOf ==
  ASSUME NEW S \in SUBSET Nat, S # {}
  PROVE  \E i \in S : \A j \in S : i <= j
<1>1. PICK i \in S : \A j \in S : ~(<<j, i>> \in OpToRel(<, Nat))
  BY NatLessThanWellFounded, WFMin
<1>2. \A j \in S : ~(j < i)
  BY <1>1 DEF OpToRel
<1> QED BY <1>2

\* What Those has chosen of the first n of the list.
Chosen(S, list, f, n) ==
    f = [k \in 0 .. n |-> IF k = 0 THEN <<>>
                          ELSE IF list[k] \in S THEN Append(f[k - 1], list[k]) ELSE f[k - 1]]

LEMMA ChosenExists ==
  ASSUME NEW S, NEW list
  PROVE  \A n \in Nat : \E f : Chosen(S, list, f, n)
<1> DEFINE Lacking == {n \in Nat : ~\E f : Chosen(S, list, f, n)}
<1> SUFFICES ASSUME Lacking # {} PROVE FALSE
  OBVIOUS
<1>1. PICK n \in Lacking : \A m \in Lacking : n <= m
  BY LeastOf
<1>2. CASE n = 0
  <2> DEFINE f == [k \in 0 .. 0 |-> <<>>]
  <2>1. Chosen(S, list, f, 0)
    BY DEF Chosen
  <2> QED BY <1>2, <2>1
<1>3. CASE n # 0
  <2>1. n \in Nat /\ n - 1 \in Nat /\ n - 1 \notin Lacking
    BY <1>1, <1>3
  <2>2. PICK g : Chosen(S, list, g, n - 1)
    BY <2>1
  <2> DEFINE f == [k \in 0 .. n |->
                     IF k = 0 THEN <<>>
                     ELSE IF list[k] \in S THEN Append(g[k - 1], list[k]) ELSE g[k - 1]]
  <2>3. \A k \in 0 .. n - 1 : g[k] = IF k = 0 THEN <<>>
                                     ELSE IF list[k] \in S THEN Append(g[k - 1], list[k])
                                     ELSE g[k - 1]
    BY <2>2 DEF Chosen
  <2>4. \A k \in 0 .. n - 1 : f[k] = g[k]
    BY <2>1, <2>3
  <2>5. \A k \in 1 .. n : k - 1 \in 0 .. n - 1
    BY <2>1
  <2>6. \A k \in 0 .. n : k # 0 => f[k - 1] = g[k - 1]
    <3> HIDE DEF f
    <3> QED BY <2>4, <2>5
  <2>7. Chosen(S, list, f, n)
    <3>1. f = [k \in 0 .. n |-> IF k = 0 THEN <<>>
                  ELSE IF list[k] \in S THEN Append(f[k - 1], list[k]) ELSE f[k - 1]]
      BY <2>6
    <3> HIDE DEF f
    <3> QED BY <3>1 DEF Chosen
  <2> QED BY <1>1, <2>7
<1> QED BY <1>2, <1>3

\* q is made of the members of S among the first n of the list.
Picks(S, list, n, q) ==
    /\ \A i \in 1 .. Len(q) : q[i] \in S
    /\ \A i \in 1 .. Len(q) : \E j \in 1 .. n : list[j] = q[i]
    /\ \A j \in 1 .. n : list[j] \in S => \E i \in 1 .. Len(q) : q[i] = list[j]

\* How much of the list, in the order of the list, and only members of the set.
LEMMA ThoseAre ==
  ASSUME NEW T, NEW list \in Seq(T), NEW S
  PROVE  Those(S, list) \in Seq(T) /\ Picks(S, list, Len(list), Those(S, list))
<1> DEFINE f == CHOOSE g : Chosen(S, list, g, Len(list))
<1>1. Len(list) \in Nat /\ \A j \in 1 .. Len(list) : list[j] \in T
  BY LenProperties, ElementOfSeq
<1>2. Chosen(S, list, f, Len(list))
  BY <1>1, ChosenExists
<1>3. Those(S, list) = f[Len(list)]
  BY DEF Those, Chosen
<1> HIDE DEF f
<1>4. \A k \in 0 .. Len(list) : f[k] = IF k = 0 THEN <<>>
                                       ELSE IF list[k] \in S THEN Append(f[k - 1], list[k])
                                       ELSE f[k - 1]
  BY <1>2 DEF Chosen
<1> DEFINE Right(n, q) == q \in Seq(T) /\ Picks(S, list, n, q)
           Wrong == {n \in 0 .. Len(list) : ~Right(n, f[n])}
<1>5. Wrong = {}
  <2> SUFFICES ASSUME Wrong # {} PROVE FALSE
    OBVIOUS
  <2>1. Wrong \in SUBSET Nat
    BY <1>1
  <2>2. PICK n \in Wrong : \A m \in Wrong : n <= m
    <3> HIDE DEF Wrong
    <3> QED BY <2>1, LeastOf
  <2>3. CASE n = 0
    <3>1. f[0] = <<>>
      BY <1>1, <1>4
    <3>2. Right(0, <<>>)
      BY EmptySeq DEF Picks
    <3> QED BY <2>2, <2>3, <3>1, <3>2
  <2>4. CASE n # 0
    <3>1. n \in 1 .. Len(list) /\ n - 1 \in 0 .. Len(list) /\ n - 1 \notin Wrong
      BY <1>1, <2>2, <2>4
    <3> DEFINE q == f[n - 1]
    <3>2. Right(n - 1, q)
      BY <3>1
    <3>3. f[n] = IF list[n] \in S THEN Append(q, list[n]) ELSE q
      BY <1>4, <3>1
    <3> HIDE DEF q
    <3>4. list[n] \in T /\ Len(q) \in Nat
      BY <1>1, <3>1, <3>2, LenProperties
    <3>5. CASE list[n] \in S
      <4> DEFINE p == Append(q, list[n])
      <4>1. /\ p \in Seq(T) /\ Len(p) = Len(q) + 1 /\ p[Len(q) + 1] = list[n]
            /\ \A i \in 1 .. Len(q) : p[i] = q[i]
        BY <3>2, <3>4, AppendProperties
      <4> HIDE DEF p
      <4>2. \A i \in 1 .. Len(p) : i \in 1 .. Len(q) \/ i = Len(q) + 1
        BY <3>4, <4>1
      <4>3. \A j \in 1 .. n : j \in 1 .. n - 1 \/ j = n
        BY <3>1
      <4>4. Len(q) + 1 \in 1 .. Len(p) /\ \A i \in 1 .. Len(q) : i \in 1 .. Len(p)
        BY <3>4, <4>1
      <4>5. n \in 1 .. n /\ \A j \in 1 .. n - 1 : j \in 1 .. n
        BY <3>1
      <4>6. \A i \in 1 .. Len(p) : p[i] \in S
        BY <3>2, <3>5, <4>1, <4>2 DEF Picks
      <4>7. \A i \in 1 .. Len(p) : \E j \in 1 .. n : list[j] = p[i]
        BY <3>2, <4>1, <4>2, <4>5 DEF Picks
      <4>8. \A j \in 1 .. n : list[j] \in S => \E i \in 1 .. Len(p) : p[i] = list[j]
        BY <3>2, <4>1, <4>3, <4>4 DEF Picks
      <4>9. Right(n, p)
        BY <4>1, <4>6, <4>7, <4>8 DEF Picks
      <4> QED BY <2>2, <3>3, <3>5, <4>9 DEF p
    <3>6. CASE list[n] \notin S
      <4>1. f[n] = q
        BY <3>3, <3>6
      <4>2. \A j \in 1 .. n : j \in 1 .. n - 1 \/ j = n
        BY <3>1
      <4>3. \A j \in 1 .. n - 1 : j \in 1 .. n
        BY <3>1
      <4>4. Right(n, q)
        BY <3>2, <3>6, <4>2, <4>3 DEF Picks
      <4> QED BY <2>2, <4>1, <4>4
    <3> QED BY <3>5, <3>6
  <2> QED BY <2>3, <2>4
<1>6. Right(Len(list), f[Len(list)])
  BY <1>1, <1>5
<1> QED BY <1>3, <1>6
LEMMA ThoseInSet ==
  ASSUME NEW T, NEW list \in Seq(T), NEW S
  PROVE  /\ Those(S, list) \in Seq(T)
         /\ ToSet(Those(S, list)) = ToSet(list) \cap S
         /\ Those(S, list) = <<>> <=> ToSet(list) \cap S = {}
<1> DEFINE q == Those(S, list)
<1>1. q \in Seq(T) /\ Picks(S, list, Len(list), q)
  BY ThoseAre
<1> HIDE DEF q
<1>2. DOMAIN q = 1 .. Len(q) /\ DOMAIN list = 1 .. Len(list) /\ Len(q) \in Nat
  BY <1>1, LenProperties
<1>3. ToSet(q) = ToSet(list) \cap S
  <2>1. \A i \in DOMAIN q : q[i] \in S /\ \E j \in DOMAIN list : list[j] = q[i]
    BY <1>1, <1>2 DEF Picks
  <2>2. \A j \in DOMAIN list : list[j] \in S => \E i \in DOMAIN q : q[i] = list[j]
    BY <1>1, <1>2 DEF Picks
  <2> QED BY <2>1, <2>2 DEF ToSet
<1>4. q # <<>> => 1 \in 1 .. Len(q)
  BY <1>1, EmptySeq
<1>5. q # <<>> => ToSet(q) # {}
  BY <1>2, <1>4 DEF ToSet
<1>6. q = <<>> => ToSet(q) = {}
  BY DEF ToSet
<1> QED BY <1>1, <1>3, <1>5, <1>6 DEF q

\* The members of a list are those of the set it is a list of.
LEMMA ListedIn ==
  ASSUME NEW T, NEW list \in Seq(T)
  PROVE  /\ ToSet(list) \subseteq T
         /\ list # <<>> => Len(list) \in Nat \ {0} /\ Head(list) \in ToSet(list)
                           /\ Last(list) \in ToSet(list)
<1>1. DOMAIN list = 1 .. Len(list) /\ \A i \in 1 .. Len(list) : list[i] \in T
  BY LenProperties, ElementOfSeq
<1>2. list # <<>> => Len(list) \in Nat \ {0}
  BY EmptySeq
<1>3. list # <<>> => 1 \in DOMAIN list /\ Len(list) \in DOMAIN list
  BY <1>1, <1>2
<1>4. list # <<>> => Head(list) = list[1] /\ Last(list) = list[Len(list)]
  BY DEF Last
<1> QED BY <1>1, <1>2, <1>3, <1>4 DEF ToSet

LEMMA LastOfThose ==
  ASSUME NEW group \in Seq(Entities), NEW S
  PROVE  \/ LastOf(Those(S, group)) = None
         \/ LastOf(Those(S, group)) \in ToSet(group) \cap S
BY ThoseInSet, ListedIn DEF LastOf

-----------------------------------------------------------------------------
(***************************************************************************)
(* What a group of entities is made of                                     *)
(***************************************************************************)
LEMMA KindTypes ==
  /\ \A e \in Entities : /\ Kinds[e] \in Kind /\ e # None
                         /\ Readings[e] \subseteq Reading
  /\ \A states \in Orders : states \in Seq(Entities) /\ ToSet(states) = Entities
BY KindsAssumption DEF Reading

\* An entity belongs to one device.
LEMMA DeviceOfIsId ==
  ASSUME NEW e \in Entities
  PROVE  DeviceOf(e) \in DeviceIds
<1> DEFINE T == {RegistryId(e), Kinds[e].via, Kinds[e].base, e}
           ids == Ids(e)
<1>1. ids \in Seq(T)
  BY DEF Ids
<1>2. e \in ToSet(ids)
  <2>1. 4 \in DOMAIN ids /\ ids[4] = e
    BY DEF Ids
  <2> QED BY <2>1 DEF ToSet
<1>3. e \in DeviceIds
  BY KindTypes DEF DeviceIds
<1> HIDE DEF ids
<1>4. Those(DeviceIds, ids) \in Seq(T) /\ Those(DeviceIds, ids) # <<>>
      /\ ToSet(Those(DeviceIds, ids)) = ToSet(ids) \cap DeviceIds
  BY <1>1, <1>2, <1>3, ThoseInSet
<1>5. Head(Those(DeviceIds, ids)) \in DeviceIds
  BY <1>4, ListedIn
<1> QED BY <1>5 DEF DeviceOf, ids

\* A group has the entities that belong to the device.
LEMMA GroupIs ==
  ASSUME NEW states \in Orders, NEW id
  PROVE  /\ Group(states, id) \in Seq(Entities)
         /\ ToSet(Group(states, id)) = {e \in Entities : ShouldInclude(e) /\ id = DeviceOf(e)}
         /\ Group(states, id) = <<>> <=> ToSet(Group(states, id)) = {}
BY KindTypes, ThoseInSet DEF Group, Belongs

IsControlled(e) == Domain(e) \in Controls

LEMMA RankOf ==
  ASSUME NEW e
  PROVE  /\ Rank(e) \in 1 .. 8
         /\ IsControlled(e) <=> Rank(e) <= 7
<1>1. Len(Priority) = 7 /\ DOMAIN Priority = 1 .. 7
  BY DEF Priority
<1>2. CASE IsControlled(e)
  <2>1. \E k \in DOMAIN Priority : Priority[k] = Domain(e)
    BY <1>1, <1>2 DEF IsControlled, Controls, Priority
  <2>2. Rank(e) \in 1 .. 7
    BY <1>1, <1>2, <2>1 DEF Rank, IsControlled
  <2> QED BY <1>2, <2>2
<1>3. CASE ~IsControlled(e)
  <2>1. Rank(e) = 8
    BY <1>1, <1>3 DEF Rank, IsControlled
  <2> QED BY <1>3, <2>1
<1> QED BY <1>2, <1>3

\* The primary entity is one of the group's, and none ranks before it.
LEMMA PrimaryIs ==
  ASSUME NEW group \in Seq(Entities), group # <<>>
  PROVE  /\ PrimaryEntity(group) \in ToSet(group)
         /\ \A e \in ToSet(group) : Rank(PrimaryEntity(group)) <= Rank(e)
<1>1. DOMAIN group = 1 .. Len(group) /\ Len(group) \in Nat \ {0}
  BY LenProperties, EmptySeq
<1> DEFINE ranks == {Rank(group[i]) : i \in DOMAIN group}
<1>2. ranks \in SUBSET Nat /\ ranks # {}
  <2>1. 1 \in DOMAIN group
    BY <1>1
  <2>2. Rank(group[1]) \in ranks
    BY <2>1
  <2> QED BY <2>2, RankOf
<1>3. PICK least \in ranks : \A n \in ranks : least <= n
  <2> HIDE DEF ranks
  <2> QED BY <1>2, LeastOf
<1> DEFINE places == {i \in DOMAIN group : Rank(group[i]) = least}
<1>4. places \in SUBSET Nat /\ places # {}
  BY <1>1, <1>3
<1>5. PICK i \in places : \A j \in places : i <= j
  <2> HIDE DEF places
  <2> QED BY <1>4, LeastOf
<1> DEFINE Before(a, b) == \/ Rank(group[a]) < Rank(group[b])
                           \/ Rank(group[a]) = Rank(group[b]) /\ a <= b
<1>6. \A j \in DOMAIN group : Before(i, j)
  <2> SUFFICES ASSUME NEW j \in DOMAIN group PROVE Before(i, j)
    OBVIOUS
  <2>1. Rank(group[i]) = least /\ least <= Rank(group[j])
    BY <1>3, <1>5
  <2>2. Rank(group[j]) = least => i <= j
    BY <1>5
  <2>3. Rank(group[i]) \in Nat /\ Rank(group[j]) \in Nat
    BY RankOf
  <2> QED BY <2>1, <2>2, <2>3
<1> DEFINE p == CHOOSE a \in DOMAIN group : \A b \in DOMAIN group : Before(a, b)
<1>7. p \in DOMAIN group /\ \A b \in DOMAIN group : Before(p, b)
  BY <1>5, <1>6
<1>8. PrimaryEntity(group) = group[p]
  BY DEF PrimaryEntity
<1> HIDE DEF p
<1>9. \A b \in DOMAIN group : Rank(group[p]) <= Rank(group[b])
  BY <1>7, RankOf
<1> QED BY <1>7, <1>8, <1>9 DEF ToSet

LEMMA FoundIs ==
  ASSUME NEW e, NEW r
  PROVE  Found(e, r) \subseteq Capability
<1>1. SensingOf(e) \subseteq Capability
  BY DEF SensingOf, Capability
<1>2. Found(e, r) \subseteq SensingOf(e) \union Capability
  BY DEF Found, Capability
<1> QED BY <1>1, <1>2

LEMMA LearntIs ==
  ASSUME NEW e, NEW r
  PROVE  /\ Learnt(e, r) \subseteq Capability
         /\ Domain(e) \in {"light", "switch", "cover", "climate"} => "power" \in Learnt(e, r)
<1>1. SensingOf(e) \subseteq Capability
  BY DEF SensingOf, Capability
<1>2. Learnt(e, r) \subseteq SensingOf(e) \union Capability
  BY DEF Learnt, Capability
<1>3. Domain(e) \in {"light", "switch", "cover", "climate"} => "power" \in Learnt(e, r)
  BY DEF Learnt
<1> QED BY <1>1, <1>2, <1>3

\* What is said of a device's state: what its entities say.
SaysNow(group, says, primary, state) ==
    /\ state \in DeviceState
    /\ state.online <=> \E e \in ToSet(group) : says[e].value # "unavailable"
    /\ state.power = says[primary].value
    /\ state.temperature # None =>
          /\ state.temperature \in ToSet(group)
          /\ Domain(state.temperature) = "climate" \/ says[state.temperature].value \in Numbers

LEMMA QuantityIs ==
  ASSUME NEW group \in Seq(Entities), NEW says, NEW primary, NEW class
  PROVE  LET q == Quantity(group, says, primary, class) IN
         q # None => q \in ToSet(group) /\ says[q].value \in Numbers
<1> DEFINE said == {x \in Entities : /\ IsSensor(x, primary) /\ Kinds[x].class = class
                                     /\ says[x].value \in Numbers \union {"unavailable"}}
           e == LastOf(Those(said, group))
<1>1. Quantity(group, says, primary, class)
        = IF e # None /\ Known(says[e].value) THEN e ELSE None
  BY DEF Quantity
<1>2. e = None \/ e \in ToSet(group) \cap said
  BY LastOfThose
<1> HIDE DEF e
<1> QED BY <1>1, <1>2 DEF Known

LEMMA TemperatureIs ==
  ASSUME NEW group \in Seq(Entities), NEW says, NEW primary
  PROVE  LET q == Temperature(group, says, primary) IN
         q # None => /\ q \in ToSet(group)
                     /\ Domain(q) = "climate" \/ says[q].value \in Numbers
<1> DEFINE said == {x \in Entities : /\ IsControl(x, primary) /\ Domain(x) = "climate"
                                     /\ "current_temperature" \in says[x].attrs}
           e == LastOf(Those(said, group))
<1>1. Temperature(group, says, primary)
        = IF e # None THEN e ELSE Quantity(group, says, primary, "temperature")
  BY DEF Temperature
<1>2. e = None \/ e \in ToSet(group) \cap said
  BY LastOfThose
<1> HIDE DEF e
<1> QED BY <1>1, <1>2, QuantityIs

LEMMA AggregateSays ==
  ASSUME NEW group \in Seq(Entities), NEW says, \A e \in Entities : says[e] \in Reading,
         NEW primary \in ToSet(group)
  PROVE  SaysNow(group, says, primary, Aggregate(group, says, primary))
<1> DEFINE s == Aggregate(group, says, primary)
<1>1. ToSet(group) \subseteq Entities
  BY ListedIn
<1>2. /\ s.online = \E e \in ToSet(group) : Known(says[e].value)
      /\ s.power = says[primary].value
      /\ s.temperature = Temperature(group, says, primary)
      /\ s.consumption = Quantity(group, says, primary, "power")
  BY DEF Aggregate
<1>3. s.temperature # None =>
          /\ s.temperature \in ToSet(group)
          /\ Domain(s.temperature) = "climate" \/ says[s.temperature].value \in Numbers
  BY <1>2, TemperatureIs
<1>4. s.consumption \in Entities \union {None}
  BY <1>1, <1>2, QuantityIs
<1>5. s.power \in Values
  BY <1>1, <1>2 DEF Reading
<1>6. s.online \in BOOLEAN
  BY <1>2
<1>7. s = [online |-> s.online, power |-> s.power, temperature |-> s.temperature,
           consumption |-> s.consumption]
  BY DEF Aggregate
<1>8. s.online <=> \E e \in ToSet(group) : says[e].value # "unavailable"
  BY <1>2 DEF Known
<1> HIDE DEF s
<1>9. s \in DeviceState
  BY <1>1, <1>3, <1>4, <1>5, <1>6, <1>7 DEF DeviceState
<1> QED BY <1>2, <1>3, <1>8, <1>9 DEF SaysNow, s
-----------------------------------------------------------------------------
(***************************************************************************)
(* The invariant                                                           *)
(***************************************************************************)
\* What is said of one device, "says" what the entities say.
IsWhole(d, says) ==
    /\ d \in Device
    /\ d.primary \in ToSet(d.entities)
    /\ (\E e \in ToSet(d.entities) : IsControlled(e)) => IsControlled(d.primary)
    /\ SaysNow(d.entities, says, d.primary, d.state)

EntitiesInv ==
    /\ DOMAIN reading = Entities /\ \A e \in Entities : reading[e] \in Readings[e]
    /\ owner \in [Entities -> DeviceIds \union {None}]
    /\ \A e \in Entities : owner[e] # None => ShouldInclude(e)
    /\ touched \subseteq {e \in Entities : owner[e] \in DOMAIN devices}

DevicesInv ==
    /\ DOMAIN devices \subseteq DeviceIds
    /\ \A id \in DOMAIN devices : IsWhole(devices[id], reading)

OfferedInv ==
    /\ offered \subseteq DeviceIds
    /\ HeardOfIsOffered

CountInv == registered \in BOOLEAN /\ events \in 0 .. MaxEvents

GroupedInv == EntitiesInv /\ DevicesInv /\ OneDeviceEach /\ OfferedInv /\ CountInv

LEMMA GroupedInit == Init => GroupedInv
<1> SUFFICES ASSUME Init PROVE GroupedInv
  OBVIOUS
<1>1. DOMAIN devices = {} /\ devices = <<>> /\ touched = {} /\ offered = {} /\ events = 0
  BY DEF Init
<1>2. EntitiesInv
  <2>1. reading \in Snapshots /\ owner = [e \in Entities |-> None]
    BY DEF Init
  <2> QED BY <1>1, <2>1, KindsAssumption DEF EntitiesInv
<1>3. OneDeviceEach /\ OfferedInv /\ DevicesInv
  BY <1>1 DEF OneDeviceEach, OfferedInv, HeardOfIsOffered, DevicesInv
<1>4. CountInv
  BY <1>1, KindsAssumption DEF CountInv, Init
<1> QED BY <1>2, <1>3, <1>4 DEF GroupedInv

LEMMA SaidAre ==
  ASSUME EntitiesInv
  PROVE  \A e \in Entities : reading[e] \in Reading
BY KindTypes DEF EntitiesInv

\* A group that is not empty makes a whole device.
LEMMA CreatedIsWhole ==
  ASSUME NEW group \in Seq(Entities), group # <<>>, EntitiesInv
  PROVE  IsWhole(CreateDevice(group), reading) /\ CreateDevice(group).entities = group
<1> DEFINE d == CreateDevice(group)
<1>1. /\ d.type = DeviceType(group) /\ d.primary = PrimaryEntity(group) /\ d.entities = group
      /\ d.caps = UNION {Found(e, reading[e]) : e \in ToSet(group)}
      /\ d.state = Aggregate(group, reading, PrimaryEntity(group))
  BY DEF CreateDevice
<1>2. d = [type |-> d.type, primary |-> d.primary, entities |-> d.entities, caps |-> d.caps,
           state |-> d.state]
  BY DEF CreateDevice
<1> HIDE DEF d
<1>3. d.type \in Controls \union {"sensor", "unknown"}
  <2> DEFINE control == Those(EntitiesOf(Controls), group)
  <2>1. control # <<>> => Head(control) \in EntitiesOf(Controls)
    BY ThoseInSet, ListedIn
  <2>2. control # <<>> => Domain(Head(control)) \in Controls
    BY <2>1 DEF EntitiesOf
  <2> QED BY <1>1, <2>2 DEF DeviceType
<1>4. /\ d.primary \in ToSet(group) /\ ToSet(group) \subseteq Entities
      /\ \A e \in ToSet(group) : Rank(d.primary) <= Rank(e)
  BY <1>1, PrimaryIs, ListedIn
<1>5. (\E e \in ToSet(group) : IsControlled(e)) => IsControlled(d.primary)
  <2> SUFFICES ASSUME NEW e \in ToSet(group), IsControlled(e) PROVE IsControlled(d.primary)
    OBVIOUS
  <2>1. Rank(d.primary) <= Rank(e) /\ Rank(e) <= 7 /\ Rank(e) \in 1 .. 8
        /\ Rank(d.primary) \in 1 .. 8
    BY <1>4, RankOf
  <2>2. Rank(d.primary) <= 7
    BY <2>1
  <2> QED BY <2>2, RankOf
<1>6. SaysNow(group, reading, d.primary, d.state)
  BY <1>1, <1>4, SaidAre, AggregateSays
<1>7. d.caps \subseteq Capability
  BY <1>1, FoundIs
<1>8. d \in Device
  BY <1>1, <1>2, <1>3, <1>4, <1>6, <1>7 DEF Device, SaysNow
<1>9. IsWhole(d, reading)
  BY <1>1, <1>4, <1>5, <1>6, <1>8 DEF IsWhole
<1> QED BY <1>1, <1>9 DEF d

LEMMA DiscoverStep ==
  ASSUME GroupedInv, DiscoverDevices
  PROVE  GroupedInv'
<1>1. PICK states \in Orders :
        LET ids == {id \in DeviceIds : Group(states, id) # <<>>} IN
        /\ devices' = [id \in ids |-> CreateDevice(Group(states, id))]
        /\ owner' = [e \in Entities |->
                      IF ShouldInclude(e) THEN CHOOSE id \in ids : Belongs(e, id) ELSE None]
        /\ Offer(ids)
  BY DEF DiscoverDevices
<1> DEFINE ids == {id \in DeviceIds : Group(states, id) # <<>>}
<1>2. devices = <<>> /\ UNCHANGED <<registered, reading, touched, events>>
  BY DEF DiscoverDevices
<1>3. touched = {}
  BY <1>2 DEF GroupedInv, EntitiesInv
<1>4. \A e \in Entities : ShouldInclude(e)' = ShouldInclude(e)
  BY <1>2 DEF ShouldInclude, RegistryId
<1>5. \A e \in Entities : ShouldInclude(e) => DeviceOf(e) \in ids
  BY DeviceOfIsId, GroupIs
<1> HIDE DEF ids
<1>6. \A e \in Entities : owner'[e] = IF ShouldInclude(e) THEN DeviceOf(e) ELSE None
  <2> SUFFICES ASSUME NEW e \in Entities
               PROVE  owner'[e] = IF ShouldInclude(e) THEN DeviceOf(e) ELSE None
    OBVIOUS
  <2>1. owner'[e] = IF ShouldInclude(e) THEN CHOOSE id \in ids : Belongs(e, id) ELSE None
    BY <1>1 DEF ids
  <2>2. ShouldInclude(e) => (CHOOSE id \in ids : Belongs(e, id)) = DeviceOf(e)
    BY <1>5 DEF Belongs
  <2> QED BY <2>1, <2>2
<1>7. None \notin DeviceIds /\ ids \subseteq DeviceIds /\ DOMAIN devices' = ids
  BY <1>1 DEF DeviceIds, ids
<1>8. EntitiesInv'
  <2>1. owner' \in [Entities -> DeviceIds \union {None}]
    <3>1. owner' = [e \in Entities |-> owner'[e]]
      BY <1>1
    <3>2. \A e \in Entities : owner'[e] \in DeviceIds \union {None}
      BY <1>6, DeviceOfIsId
    <3> QED BY <3>1, <3>2
  <2>2. \A e \in Entities : owner'[e] # None => ShouldInclude(e)'
    BY <1>4, <1>6
  <2> QED BY <1>2, <1>3, <2>1, <2>2 DEF EntitiesInv, GroupedInv
<1>9. \A id \in ids : /\ devices'[id] = CreateDevice(Group(states, id))
                      /\ IsWhole(devices'[id], reading)
                      /\ ToSet(devices'[id].entities)
                           = {e \in Entities : ShouldInclude(e) /\ id = DeviceOf(e)}
  <2> SUFFICES ASSUME NEW id \in ids
               PROVE  /\ devices'[id] = CreateDevice(Group(states, id))
                      /\ IsWhole(devices'[id], reading)
                      /\ ToSet(devices'[id].entities)
                           = {e \in Entities : ShouldInclude(e) /\ id = DeviceOf(e)}
    OBVIOUS
  <2>1. devices'[id] = CreateDevice(Group(states, id))
    BY <1>1 DEF ids
  <2>2. Group(states, id) \in Seq(Entities) /\ Group(states, id) # <<>>
        /\ ToSet(Group(states, id)) = {e \in Entities : ShouldInclude(e) /\ id = DeviceOf(e)}
    BY GroupIs DEF ids
  <2>3. IsWhole(CreateDevice(Group(states, id)), reading)
        /\ CreateDevice(Group(states, id)).entities = Group(states, id)
    BY <2>2, CreatedIsWhole DEF GroupedInv
  <2> QED BY <2>1, <2>2, <2>3
<1>10. DevicesInv'
  BY <1>2, <1>7, <1>9 DEF DevicesInv
<1>11. OneDeviceEach'
  <2> SUFFICES ASSUME NEW e \in Entities, NEW id \in DeviceIds
               PROVE  (id \in DOMAIN devices' /\ e \in ToSet(devices'[id].entities))
                        <=> (owner'[e] = id /\ ShouldInclude(e)')
    BY <1>2 DEF OneDeviceEach, DeviceIds
  <2> QED BY <1>4, <1>5, <1>6, <1>7, <1>9
<1>12. OfferedInv'
  <2>1. offered' \subseteq offered \union ids
    BY <1>1 DEF Offer, ids
  <2> QED BY <1>2, <1>3, <1>7, <2>1 DEF OfferedInv, HeardOfIsOffered, GroupedInv
<1>13. CountInv'
  BY <1>2 DEF CountInv, GroupedInv
<1> QED BY <1>8, <1>10, <1>11, <1>12, <1>13 DEF GroupedInv

\* What an event changes of a device.
LEMMA Changed ==
  ASSUME NEW d \in Device, NEW caps, NEW state
  PROVE  LET new == [d EXCEPT !.caps = caps, !.state = state] IN
         /\ new.type = d.type /\ new.primary = d.primary /\ new.entities = d.entities
         /\ new.caps = caps /\ new.state = state
         /\ caps \in SUBSET Capability /\ state \in DeviceState => new \in Device
<1> DEFINE new == [d EXCEPT !.caps = caps, !.state = state]
<1>1. new.type = d.type /\ new.primary = d.primary /\ new.entities = d.entities
      /\ new.caps = caps /\ new.state = state
  BY DEF Device
<1>2. caps \in SUBSET Capability /\ state \in DeviceState => new \in Device
  BY DEF Device
<1> QED BY <1>1, <1>2

LEMMA EventStep ==
  ASSUME GroupedInv, NEW e \in Entities, NEW r \in Readings[e], UpdateEntityState(e, r)
  PROVE  GroupedInv'
<1> DEFINE o == owner[e]
           d == devices[o]
           caps == MoreCaps(d, e, r)
           state == Refreshed(d, reading')
           new == [d EXCEPT !.caps = caps, !.state = state]
<1>1. devices # <<>> /\ UNCHANGED <<registered, owner>>
  BY DEF UpdateEntityState
<1>2. CountInv'
  BY KindsAssumption DEF CountInv, GroupedInv, UpdateEntityState
<1>3. \A x \in Entities : ShouldInclude(x)' = ShouldInclude(x)
  BY <1>1 DEF ShouldInclude, RegistryId
<1>4. CASE o = None
  <2>1. UNCHANGED <<reading, touched, devices, offered>>
    BY <1>4 DEF UpdateEntityState
  <2>2. EntitiesInv' /\ DevicesInv'
    BY <1>1, <1>3, <2>1 DEF GroupedInv, EntitiesInv, DevicesInv
  <2>3. OneDeviceEach'
    BY <1>1, <1>3, <2>1 DEF GroupedInv, OneDeviceEach
  <2>4. OfferedInv'
    BY <1>1, <2>1 DEF GroupedInv, OfferedInv, HeardOfIsOffered
  <2> QED BY <1>2, <2>2, <2>3, <2>4 DEF GroupedInv
<1>5. CASE o # None
  <2>1. /\ reading' = [reading EXCEPT ![e] = r] /\ touched' = touched \union {e}
        /\ devices' = [devices EXCEPT ![o] = new]
        /\ Offer({o})
    BY <1>5 DEF UpdateEntityState
  <2>2. o \in DeviceIds /\ ShouldInclude(e) /\ DOMAIN reading = Entities
    BY <1>5 DEF GroupedInv, EntitiesInv
  <2>3. o \in DOMAIN devices /\ e \in ToSet(d.entities)
    BY <1>1, <2>2 DEF GroupedInv, OneDeviceEach
  <2>4. \A id \in DOMAIN devices : id # o => e \notin ToSet(devices[id].entities)
    BY <1>1 DEF GroupedInv, OneDeviceEach, DevicesInv
  <2>5. IsWhole(d, reading)
    BY <2>3 DEF GroupedInv, DevicesInv
  <2>6. /\ new.type = d.type /\ new.primary = d.primary /\ new.entities = d.entities
        /\ new.caps = caps /\ new.state = state
        /\ caps \in SUBSET Capability /\ state \in DeviceState => new \in Device
    <3>1. d \in Device
      BY <2>5 DEF IsWhole
    <3> HIDE DEF d, caps, state
    <3> QED BY <3>1, Changed
  <2>7. \A x \in Entities : reading'[x] = IF x = e THEN r ELSE reading[x]
    BY <2>1, <2>2
  <2>8. \A x \in Entities : reading'[x] \in Readings[x] /\ reading'[x] \in Reading
    BY <2>7, KindTypes DEF GroupedInv, EntitiesInv
  <2>9. state = Aggregate(d.entities, reading', d.primary)
    BY DEF Refreshed
  <2>10. caps \subseteq Capability /\ Learnt(e, r) \subseteq caps
    BY <2>5, LearntIs DEF MoreCaps, IsWhole, Device
  <2> HIDE DEF new, state, caps
  <2>11. SaysNow(d.entities, reading', d.primary, state)
    BY <2>5, <2>8, <2>9, AggregateSays DEF IsWhole, Device
  <2>12. IsWhole(new, reading')
    <3>1. new \in Device
      BY <2>5, <2>6, <2>10, <2>11 DEF IsWhole, Device, SaysNow
    <3> QED BY <2>5, <2>6, <2>11, <3>1 DEF IsWhole
  <2>13. /\ DOMAIN devices' = DOMAIN devices /\ devices'[o] = new
         /\ \A id \in DOMAIN devices : id # o => devices'[id] = devices[id]
    BY <2>1, <2>3
  <2>14. \A id \in DOMAIN devices : /\ devices'[id].entities = devices[id].entities
                                    /\ devices'[id].type = devices[id].type
    BY <2>6, <2>13
  <2>15. ASSUME NEW id \in DOMAIN devices, id # o
         PROVE  IsWhole(devices[id], reading')
    <3> DEFINE c == devices[id]
    <3>1. IsWhole(c, reading)
      BY DEF GroupedInv, DevicesInv
    <3> HIDE DEF c
    <3>2. ToSet(c.entities) \subseteq Entities
      BY <3>1, ListedIn DEF IsWhole, Device
    <3>3. \A x \in ToSet(c.entities) : reading'[x] = reading[x]
      BY <2>4, <2>7, <2>15, <3>2 DEF c
    <3>4. SaysNow(c.entities, reading', c.primary, c.state)
      BY <3>1, <3>3 DEF IsWhole, SaysNow
    <3> QED BY <3>1, <3>4 DEF IsWhole, c
  <2>16. DevicesInv'
    BY <2>12, <2>13, <2>15 DEF DevicesInv, GroupedInv
  <2>17. EntitiesInv'
    <3>1. DOMAIN reading' = Entities
      BY <2>1, <2>2
    <3>2. touched' \subseteq {x \in Entities : owner'[x] \in DOMAIN devices'}
      BY <1>1, <2>1, <2>3, <2>13 DEF GroupedInv, EntitiesInv
    <3> QED BY <1>1, <1>3, <2>8, <3>1, <3>2 DEF GroupedInv, EntitiesInv
  <2>18. OneDeviceEach'
    <3> SUFFICES ASSUME NEW x \in Entities, NEW id \in DeviceIds
                 PROVE  (id \in DOMAIN devices' /\ x \in ToSet(devices'[id].entities))
                          <=> (owner'[x] = id /\ ShouldInclude(x)')
      BY DEF OneDeviceEach, DeviceIds
    <3>1. (id \in DOMAIN devices /\ x \in ToSet(devices[id].entities))
            <=> (owner[x] = id /\ ShouldInclude(x))
      BY <1>1 DEF GroupedInv, OneDeviceEach
    <3> QED BY <1>1, <1>3, <2>13, <2>14, <3>1
  <2>19. /\ offered' \subseteq offered \union {o} /\ offered \subseteq offered'
         /\ IsKnxCompatible(new) => o \in offered'
    BY <2>1, <2>13 DEF Offer
  <2>20. Domain(e) \in {"light", "switch", "cover", "climate"} /\ new.type \in KnxDomains
           => IsKnxCompatible(new)
    <3> SUFFICES ASSUME Domain(e) \in {"light", "switch", "cover", "climate"},
                        new.type \in KnxDomains
                 PROVE  IsKnxCompatible(new)
      OBVIOUS
    <3>1. "power" \in new.caps
      BY <2>6, <2>10, LearntIs
    <3>2. "power" \in Capabilities(new)
      BY <3>1 DEF Capabilities
    <3>3. new.type # "unknown"
      BY DEF KnxDomains
    <3> QED BY <3>2, <3>3 DEF IsKnxCompatible
  <2>21. HeardOfIsOffered'
    <3> SUFFICES ASSUME NEW x \in touched',
                        Domain(x) \in {"light", "switch", "cover", "climate"},
                        devices'[owner'[x]].type \in KnxDomains
                 PROVE  owner'[x] \in offered'
      BY DEF HeardOfIsOffered, Domain
    <3>1. owner'[x] = owner[x]
      BY <1>1
    <3>2. CASE x = e
      BY <2>13, <2>19, <2>20, <3>1, <3>2
    <3>3. CASE x \in touched
      <4>1. owner[x] \in DOMAIN devices
        BY <3>3 DEF GroupedInv, EntitiesInv
      <4>2. devices[owner[x]].type \in KnxDomains
        BY <2>14, <3>1, <4>1
      <4> QED BY <2>19, <3>1, <3>3, <4>2 DEF GroupedInv, OfferedInv, HeardOfIsOffered
    <3> QED BY <2>1, <3>2, <3>3
  <2>22. OfferedInv'
    BY <2>2, <2>19, <2>21 DEF OfferedInv, GroupedInv
  <2> QED BY <1>2, <2>16, <2>17, <2>18, <2>22 DEF GroupedInv
<1> QED BY <1>4, <1>5

LEMMA GroupedStep ==
  ASSUME GroupedInv, [Next]_vars
  PROVE  GroupedInv'
<1>1. CASE UNCHANGED vars
  <2>1. EntitiesInv' /\ DevicesInv' /\ CountInv'
    BY <1>1 DEF vars, GroupedInv, EntitiesInv, DevicesInv, CountInv, ShouldInclude, RegistryId
  <2>2. OneDeviceEach'
    BY <1>1 DEF vars, GroupedInv, OneDeviceEach, ShouldInclude, RegistryId
  <2>3. OfferedInv'
    BY <1>1 DEF vars, GroupedInv, OfferedInv, HeardOfIsOffered
  <2> QED BY <2>1, <2>2, <2>3 DEF GroupedInv
<1>2. CASE DiscoverDevices
  BY <1>2, DiscoverStep
<1>3. ASSUME NEW e \in Entities, NEW r \in Readings[e], UpdateEntityState(e, r)
      PROVE  GroupedInv'
  BY <1>3, EventStep
<1> QED BY <1>1, <1>2, <1>3 DEF Next

-----------------------------------------------------------------------------
\* The invariant of the whole module (DeviceManager with its Device).
THEOREM GroupedInvariant == Spec => []GroupedInv
<1>1. GroupedInv /\ [Next]_vars => GroupedInv'
  BY GroupedStep
<1> QED BY <1>1, GroupedInit, PTL DEF Spec

\* Every entity that is not filtered out is in one device and in no other, and a
\* device with something to control is controlled by it (discover_devices and
\* _find_primary_entity), with the types of everything.
THEOREM GroupingIsSound == Spec => []GroupingSound
<1>1. ASSUME GroupedInv PROVE GroupingSound
  <2>1. TypeOK
    BY <1>1 DEF TypeOK, GroupedInv, EntitiesInv, DevicesInv, OfferedInv, CountInv, IsWhole
  <2>2. PrimaryControls
    BY <1>1 DEF PrimaryControls, GroupedInv, DevicesInv, IsWhole, IsControlled
  <2> QED BY <1>1, <2>1, <2>2 DEF GroupingSound, GroupedInv
<1> QED BY <1>1, GroupedInvariant, PTL

\* A device's state is what its entities say now (_aggregate_device_state, run
\* again on every event of update_entity_state).
THEOREM StatesAreCurrent == Spec => []StateIsCurrent
<1>1. ASSUME GroupedInv PROVE StateIsCurrent
  BY <1>1 DEF StateIsCurrent, GroupedInv, DevicesInv, IsWhole, SaysNow
<1> QED BY <1>1, GroupedInvariant, PTL

\* Lights, switches, covers and heating are offered to KNX once they have been
\* heard of (_on_device_change of server.py).
THEOREM OfferedOnceHeardOf == Spec => []HeardOfIsOffered
<1>1. GroupedInv => HeardOfIsOffered
  BY DEF GroupedInv, OfferedInv
<1> QED BY <1>1, GroupedInvariant, PTL
=============================================================================
