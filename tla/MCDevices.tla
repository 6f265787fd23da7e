------------------------------ MODULE MCDevices ------------------------------
(* A small instance of Devices: a lamp, its plug and its meter that only     *)
(* their names tie together, a heater with a sensor of its own, a lock and a *)
(* blind behind a bridge, an update of some software, and the sun.           *)
EXTENDS Devices

MCEntities == {"lamp", "plug", "watts", "heater", "thermo", "door", "blind", "update", "sun"}

MCOrders ==
    LET s == <<"lamp", "heater", "door", "plug", "thermo", "watts", "sun", "blind", "update">> IN
    {s, Reverse(s)}

Is(domain, registry, via, base, class) ==
    [domain |-> domain, excluded |-> FALSE, system |-> FALSE, registry |-> registry,
     via |-> via, base |-> base, class |-> class]

MCKinds ==
    [e \in MCEntities |->
        CASE e = "lamp"   -> Is("light", None, None, "desk", None)
          [] e = "plug"   -> Is("switch", None, None, "desk", None)
          [] e = "watts"  -> Is("sensor", None, None, "desk", "power")
          [] e = "heater" -> Is("climate", "dev1", None, "room", None)
          [] e = "thermo" -> Is("sensor", "dev1", None, None, "temperature")
          [] e = "door"   -> Is("lock", None, "bridge", "front", None)
          [] e = "blind"  -> Is("cover", None, "bridge", "front", None)
          [] e = "update" -> Is("update", None, None, None, None)
          [] e = "sun"    -> [Is("sensor", "dev1", None, None, None) EXCEPT !.excluded = TRUE]]

Says(v, attrs) == [value |-> v, attrs |-> attrs]
Gone == Says("unavailable", {})

MCReadings ==
    [e \in MCEntities |->
        CASE e = "lamp"   -> {Gone, Says("on", {"brightness"}), Says("off", {})}
          [] e = "plug"   -> {Gone, Says("off", {})}
          [] e = "watts"  -> {Gone, Says("20", {})}
          [] e = "heater" -> {Gone, Says("text", {"current_temperature"})}
          [] e = "thermo" -> {Gone, Says("20", {}), Says("text", {})}
          [] e = "door"   -> {Gone, Says("text", {})}
          [] e = "blind"  -> {Gone, Says("text", {"position"})}
          [] e \in {"update", "sun"} -> {Gone}]

\* Any of them may be out of reach.
MCSnapshots ==
    {[e \in MCEntities |-> IF e \in gone \/ MCReadings[e] = {Gone} THEN Gone
                           ELSE CHOOSE r \in MCReadings[e] : r # Gone] :
       gone \in SUBSET {"lamp", "plug", "watts", "heater", "thermo", "door", "blind"}}
=============================================================================
