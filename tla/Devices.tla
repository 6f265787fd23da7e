------------------------------- MODULE Devices -------------------------------
(***************************************************************************)
(* The devices the gateway makes of Home Assistant's entities:             *)
(* DeviceManager of ha_gateway/new_device_manager.py with the Device of    *)
(* ha_gateway/device_models.py, the registry's device ids that             *)
(* state_manager.py adds before, and the choice of the devices that        *)
(* server.py offers to KNX.                                                *)
(*                                                                         *)
(* Entities are grouped once, at start-up; their events then change the    *)
(* devices one by one.  What an entity is called and described as is a     *)
(* record of Kinds, what it says is a Reading: its state and the names of  *)
(* those attributes that are there.                                        *)
(***************************************************************************)
EXTENDS FiniteSets, Integers, SequencesExt

CONSTANTS
    Entities,
    Kinds,     \* what is known of an entity from its id and attributes
    Readings,  \* the readings each entity may have
    Snapshots, \* what they may say at the initial sync
    Orders,    \* the orders in which Home Assistant may list the entities
    MaxEvents  \* bound: events

None == "none"
Controls == {"light", "switch", "climate", "cover", "fan", "lock", "media_player"}
Sensors == {"sensor", "binary_sensor"}
KnxDomains == {"light", "switch", "cover", "climate", "fan", "lock"}

\* excluded: by the patterns for ids, or by the name; registry: the device id in
\* the entity registry; system: that id, or the device's, is one of the system's;
\* base: what the naming patterns leave of the id; class: device class, or the
\* quantity its name and unit tell.
Kind == [domain : STRING, excluded : BOOLEAN, system : BOOLEAN, registry : STRING,
         via : STRING, base : STRING, class : STRING]

Numbers == {"20", "21"}
Values == {"on", "off", "unavailable", "text"} \union Numbers

ASSUME KindsAssumption ==
    /\ Kinds \in [Entities -> Kind]
    /\ \A e \in Entities : Readings[e] \subseteq [value : Values, attrs : SUBSET STRING]
    /\ \A says \in Snapshots :
          DOMAIN says = Entities /\ \A e \in Entities : says[e] \in Readings[e]
    /\ \A states \in Orders : /\ states \in Seq(Entities) /\ ToSet(states) = Entities
                             /\ Len(states) = Cardinality(Entities)
    /\ None \notin Entities /\ IsFiniteSet(Entities) /\ MaxEvents \in Nat

VARIABLES
    registered, \* the entity registry had been loaded at the initial sync
    reading,    \* what each entity says, as far as its device knows
    touched,    \* history: entities whose device has seen an event of theirs
    owner,      \* entity_to_device
    devices,    \* devices, a function from the ids there are
    offered,    \* history: devices for which a KNX address was requested
    events      \* so far

vars == <<registered, reading, touched, owner, devices, offered, events>>
-----------------------------------------------------------------------------
(***************************************************************************)
(* Grouping                                                                *)
(***************************************************************************)
Domain(e) == Kinds[e].domain

\* The members of a set, in the order of a list.
Those(S, list) ==
    LET upTo[n \in 0 .. Len(list)] ==
            IF n = 0 THEN <<>>
            ELSE IF list[n] \in S THEN Append(upTo[n - 1], list[n])
            ELSE upTo[n - 1]
    IN upTo[Len(list)]

EntitiesOf(domains) == {e \in Entities : Domain(e) \in domains}

RegistryId(e) == IF registered THEN Kinds[e].registry ELSE None

ShouldInclude(e) == ~Kinds[e].excluded /\ ~(Kinds[e].system /\ RegistryId(e) # None)

\* The registry's id, or the device the entity goes through, or the common part
\* of the names; or the entity stands for itself.
Ids(e) == <<RegistryId(e), Kinds[e].via, Kinds[e].base, e>>

DeviceIds ==
    (UNION {{Kinds[e].registry, Kinds[e].via, Kinds[e].base, e} : e \in Entities}) \ {None}

DeviceOf(e) == Head(Those(DeviceIds, Ids(e)))

Belongs(e, id) == id = DeviceOf(e)

Group(states, id) == Those({e \in Entities : ShouldInclude(e) /\ Belongs(e, id)}, states)

\* Of the first controllable entity there is.
DeviceType(group) ==
    LET control == Those(EntitiesOf(Controls), group) IN
    IF control # <<>> THEN Domain(Head(control))
    ELSE IF \A e \in ToSet(group) : Domain(e) \in Sensors THEN "sensor" ELSE "unknown"

Priority == <<"light", "switch", "climate", "cover", "fan", "lock", "media_player">>

Rank(e) == IF Domain(e) \in Controls THEN CHOOSE k \in DOMAIN Priority : Priority[k] = Domain(e)
           ELSE Len(Priority) + 1

\* A bug: the first entity of the group.
FirstOf(group) == Head(group)

\* By the domains' priority, then by the order of the states.
PrimaryEntity(group) ==
    group[CHOOSE i \in DOMAIN group : \A j \in DOMAIN group :
            \/ Rank(group[i]) < Rank(group[j])
            \/ /\ Rank(group[i]) = Rank(group[j])
               /\ i <= j]
-----------------------------------------------------------------------------
(***************************************************************************)
(* Capabilities                                                            *)
(***************************************************************************)
SensingOf(e) ==
    CASE Kinds[e].class \in {"temperature", "humidity", "pressure", "illuminance"} ->
            {Kinds[e].class}
      [] OTHER -> {}

\* What an entity adds to its device's capabilities when it is discovered.
Found(e, r) ==
    SensingOf(e) \union
    CASE Domain(e) = "light"   -> {"brightness", "color", "color_temp"} \cap r.attrs
      [] Domain(e) = "switch"  -> {"power"}
      [] Domain(e) = "climate" -> {"temperature_control", "humidity_control", "mode"}
      [] Domain(e) = "lock"    -> {"lock"}
      [] OTHER                 -> {}

\* A bug: a capability that is found at the discovery only.
FoundOnly(e, r) == Found(e, r)

\* What each of its events adds.
Learnt(e, r) ==
    (IF Domain(e) \in Sensors THEN SensingOf(e) ELSE {}) \union
    (IF Kinds[e].class = "power" THEN {"power_monitoring"} ELSE {}) \union
    CASE Domain(e) = "light"   -> {"power"} \union ({"brightness", "color", "color_temp"} \cap r.attrs)
      [] Domain(e) = "climate" -> {"power", "temperature_control", "mode"}
                                  \union ({"fan", "swing"} \cap r.attrs)
      [] Domain(e) = "cover"   -> {"power"} \union ({"position", "tilt"} \cap r.attrs)
      [] Domain(e) \in {"switch", "media_player"} -> {"power"}
      [] Domain(e) = "lock"    -> {"lock"}
      [] OTHER                 -> {}
-----------------------------------------------------------------------------
(***************************************************************************)
(* The aggregated state                                                    *)
(***************************************************************************)
Known(v) == v # "unavailable"

\* The last entity of a group, or None.
LastOf(group) == IF group = <<>> THEN None ELSE Last(group)

\* The primary entity is none of the device's sensors, even if it is one.
IsSensor(e, primary) == e # primary /\ Domain(e) \in Sensors

\* A quantity is known by the entity it is read from.  A text that is no number
\* leaves it as it is, a state that is not available clears it.
Quantity(group, says, primary, class) ==
    LET said == {x \in Entities : /\ IsSensor(x, primary) /\ Kinds[x].class = class
                                  /\ says[x].value \in Numbers \union {"unavailable"}}
        e == LastOf(Those(said, group))
    IN IF e # None /\ Known(says[e].value) THEN e ELSE None

IsControl(e, primary) == e = primary \/ Domain(e) \in Controls

\* A climate entity's own temperature goes over that of the sensors.
Temperature(group, says, primary) ==
    LET said == {x \in Entities : /\ IsControl(x, primary) /\ Domain(x) = "climate"
                                  /\ "current_temperature" \in says[x].attrs}
        e == LastOf(Those(said, group))
    IN IF e # None THEN e ELSE Quantity(group, says, primary, "temperature")

DeviceState == [online : BOOLEAN, power : Values, temperature : Entities \union {None},
                consumption : Entities \union {None}]

Aggregate(group, says, primary) ==
    [online      |-> \E e \in ToSet(group) : Known(says[e].value),
     power       |-> says[primary].value,
     temperature |-> Temperature(group, says, primary),
     consumption |-> Quantity(group, says, primary, "power")]
-----------------------------------------------------------------------------
(***************************************************************************)
(* What server.py offers to KNX                                            *)
(***************************************************************************)
Capabilities(d) ==
    (d.caps \ {"temperature", "humidity", "pressure", "illuminance"})
    \union (IF d.state.power \in {"on", "off"} THEN {"power"} ELSE {})

IsKnxCompatible(d) ==
    IF d.type = "unknown" THEN \E e \in ToSet(d.entities) : Domain(e) \in KnxDomains
    ELSE /\ d.type \in KnxDomains
         /\ Capabilities(d) \cap {"power", "position", "temperature_control", "brightness"} # {}
-----------------------------------------------------------------------------
Capability == {"power", "brightness", "color", "color_temp", "temperature_control",
               "humidity_control", "mode", "fan", "swing", "position", "tilt", "lock",
               "power_monitoring", "temperature", "humidity", "pressure", "illuminance"}

Reading == [value : Values, attrs : SUBSET STRING]

Device == [type : Controls \union {"sensor", "unknown"}, primary : Entities,
           entities : Seq(Entities), caps : SUBSET Capability, state : DeviceState]

TypeOK ==
    /\ registered \in BOOLEAN
    /\ \A e \in Entities : reading[e] \in Readings[e]
    /\ touched \subseteq Entities
    /\ owner \in [Entities -> DeviceIds \union {None}]
    /\ DOMAIN devices \subseteq DeviceIds
    /\ \A id \in DOMAIN devices :
          /\ devices[id] \in Device
          /\ devices[id].primary \in ToSet(devices[id].entities)
    /\ offered \subseteq DeviceIds
    /\ events \in 0 .. MaxEvents

\* The entities' states as they were some time before the initial sync.
Init ==
    /\ registered \in BOOLEAN
    /\ reading \in Snapshots
    /\ touched = {} /\ owner = [e \in Entities |-> None]
    /\ devices = <<>> /\ offered = {} /\ events = 0

CreateDevice(group) ==
    [type     |-> DeviceType(group),
     primary  |-> PrimaryEntity(group),
     entities |-> group,
     caps     |-> UNION {Found(e, reading[e]) : e \in ToSet(group)},
     state    |-> Aggregate(group, reading, PrimaryEntity(group))]

\* The callbacks of the devices: those that suit KNX are offered.
Offer(ids) == offered' = offered \union {id \in ids : IsKnxCompatible(devices'[id])}

DiscoverDevices ==
    /\ devices = <<>>
    /\ \E states \in Orders :
          LET ids == {id \in DeviceIds : Group(states, id) # <<>>} IN
          /\ devices' = [id \in ids |-> CreateDevice(Group(states, id))]
          /\ owner' = [e \in Entities |->
                        IF ShouldInclude(e) THEN CHOOSE id \in ids : Belongs(e, id) ELSE None]
          /\ Offer(ids)
    /\ UNCHANGED <<registered, reading, touched, events>>

\* A bug: only what an event brings is changed.
InPlace(d, says) ==
    LET new == Aggregate(d.entities, says, d.primary) IN
    [new EXCEPT !.temperature = IF @ = None THEN d.state.temperature ELSE @]

Refreshed(d, says) == Aggregate(d.entities, says, d.primary)

MoreCaps(d, e, r) == d.caps \union Learnt(e, r)

\* Events of entities that are in no device are dropped.
UpdateEntityState(e, r) ==
    /\ devices # <<>> /\ events < MaxEvents /\ events' = events + 1
    /\ IF owner[e] = None
       THEN UNCHANGED <<reading, touched, devices, offered>>
       ELSE /\ reading' = [reading EXCEPT ![e] = r]
            /\ touched' = touched \union {e}
            /\ devices' = [devices EXCEPT ![owner[e]] =
                              [@ EXCEPT !.caps = MoreCaps(devices[owner[e]], e, r),
                                        !.state = Refreshed(devices[owner[e]], reading')]]
            /\ Offer({owner[e]})
    /\ UNCHANGED <<registered, owner>>

Next ==
    \/ DiscoverDevices
    \/ \E e \in Entities : \E r \in Readings[e] : UpdateEntityState(e, r)

Spec == Init /\ [][Next]_vars
-----------------------------------------------------------------------------
\* Every entity that is not filtered out is in one device, the one it is owned by,
\* and no device has another entity: events reach the right device and no other.
OneDeviceEach ==
    devices # <<>> =>
        \A e \in Entities, id \in DeviceIds :
            (id \in DOMAIN devices /\ e \in ToSet(devices[id].entities))
                <=> (owner[e] = id /\ ShouldInclude(e))

\* The state of a device says what its entities say now, not what they have said:
\* one whose entities are all gone is offline and has no temperature.
StateIsCurrent ==
    \A id \in DOMAIN devices :
        LET d == devices[id] IN
        /\ d.state.online <=> \E e \in ToSet(d.entities) : reading[e].value # "unavailable"
        /\ d.state.power = reading[d.primary].value
        /\ d.state.temperature # None =>
              \/ Domain(d.state.temperature) = "climate"
              \/ reading[d.state.temperature].value \in Numbers

\* A device with something to control is controlled by it.
PrimaryControls ==
    \A id \in DOMAIN devices :
        (\E e \in ToSet(devices[id].entities) : Domain(e) \in Controls)
            => Domain(devices[id].primary) \in Controls

\* What holds of the devices between any two events.
GroupingSound == TypeOK /\ OneDeviceEach /\ PrimaryControls

\* Lights, switches, covers and heating are offered to KNX when they have been
\* heard of once, whatever was known of them at the start.
HeardOfIsOffered ==
    \A e \in touched :
        Domain(e) \in {"light", "switch", "cover", "climate"}
        /\ devices[owner[e]].type \in KnxDomains => owner[e] \in offered
=============================================================================
