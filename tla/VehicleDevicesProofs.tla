------------------------ MODULE VehicleDevicesProofs ------------------------
(***************************************************************************)
(* What TraccarProvisioning guarantees of the vehicles, whatever requests  *)
(* overlap, fail or are cut off: while none is between two of its effects, *)
(* the device the row names is there, and the cache routes that device to  *)
(* the vehicle, and no other, unless the vehicle was changed by one        *)
(* request while another one was under way, or left half done.             *)
(***************************************************************************)
EXTENDS TraccarProvisioningProofs

\* Request r is at work for vehicle v.
Works(r, v) == r \in Running /\ IsVehicleJob(r) /\ job[r].vehicle = v

\* A request at a label has changed one of the row, the device and the cache, and not
\* yet the others.
Half(label, j) ==
  \/ label = "cache"
  \/ label = "uncache" /\ j.op = "DELETE"
  \/ label = "drop" /\ j.op # "DELETE"
  \/ label = "save" /\ DeviceGone(j)

\* The devices a vehicle has, had or is to have.
Holds(v, d) ==
  \/ rows[v].device = d
  \/ \E r \in Requests : Works(r, v) /\ (job[r].old.device = d \/ job[r].new.device = d)

Unshared ==
  \A v, w \in Vehicles, d \in Ids : Holds(v, d) /\ Holds(w, d) => v = w

\* Ids that are still to be given out are nobody's.
Given == \A v \in Vehicles, d \in Ids : Holds(v, d) => d <= lastId

RowSound(v) == rows[v].imei = NoImei => rows[v].device = 0

-----------------------------------------------------------------------------
Keys(v)    == {k[1] : k \in {l \in routing : l[2] = v}}
There(d)   == \E x \in devices : x.id = d
Live(d, i) == \E x \in devices : x.id = d /\ x.imei = i

\* The device of a row is there; that of a retired vehicle carries its identifier, so
\* that a reactivation finds the identifier taken.
Sound(row) ==
  row.device # 0 => There(row.device) /\ (row.status = "BAJA" => Live(row.device, row.imei))

\* Row, device and cache of a vehicle agree.
Agree(v) == Keys(v) = {rows[v].device} \ {0} /\ Sound(rows[v])

\* What a request at a label wants, by the decisions it has taken.
Shape(label, j) ==
  /\ label \in {"check", "create", "save", "uncache", "drop", "cache"}
  /\ label \in {"check", "create"} =>
       /\ j.op # "DELETE" /\ ~DeviceGone(j) /\ j.new.imei # NoImei
       /\ j.new.imei # j.old.imei \/ Reactivates(j)
       /\ ~(j.op = "UPDATE" /\ Retires(j))
       /\ j.new.device = KeptDevice(j)
  /\ label \in {"uncache", "drop"} => DeviceGone(j) \/ j.op = "DELETE"
  /\ j.op = "CREATE" => j.old = NoRow
  /\ j.op = "STATUS" => /\ j.new.imei = IF Retires(j) THEN NoImei ELSE j.old.imei
                        /\ j.new.status = "BAJA" => j.new.device = KeptDevice(j)
  /\ j.op = "DELETE" => j.new.device = 0 /\ label # "cache"
  /\ DeviceGone(j) => j.new.device = 0
  /\ j.new.imei = NoImei => j.new.device = 0
  /\ j.old.imei = NoImei => j.old.device = 0

\* The row is as it was read until the save.
Ties(label, j) ==
  rows[j.vehicle] = IF label = "cache" \/ (j.op = "DELETE" /\ label \in {"uncache", "drop"})
                    THEN j.new ELSE j.old

\* What it has done to the cache and the devices, and what these still have.
Effect(label, j) ==
  /\ Keys(j.vehicle) = IF label = "drop" \/ (label \in {"save", "cache"} /\ DeviceGone(j))
                       THEN {} ELSE {j.old.device} \ {0}
  /\ (label \in {"check", "create"} \/ (label = "save" /\ ~DeviceGone(j))
      \/ (label = "uncache" /\ DeviceGone(j))) => Sound(j.old)
  /\ label \in {"save", "cache"} => Sound(j.new)
  /\ label = "create" /\ j.op = "STATUS" => j.old.device = 0
  /\ label \in {"save", "cache"} /\ j.op = "STATUS" /\ ~DeviceGone(j) =>
       j.old.device \in {0, j.new.device}

Stage(label, j) == Ties(label, j) /\ Effect(label, j)

\* Of the requests for a vehicle, one at most is half done; when none is, all agrees,
\* with what the requests have read too.
Fair(v) ==
  v \notin amiss =>
    /\ Settled(v) => Agree(v)
    /\ \A r \in Requests : Works(r, v) /\ (Settled(v) \/ HalfDone(r)) => Stage(pc[r], job[r])
    /\ \A q, r \in Requests : Works(q, v) /\ HalfDone(q) /\ Works(r, v) /\ HalfDone(r) => q = r

\* The invariant behind DevicesLive and RoutingFollowsRows.
DInv ==
  /\ TInv /\ Unshared /\ Given
  /\ \A v \in Vehicles : RowSound(v) /\ Fair(v)
  /\ \A r \in Requests, v \in Vehicles : Works(r, v) => Shape(pc[r], job[r])

-----------------------------------------------------------------------------
LEMMA KeyFacts ==
  ASSUME routing \subseteq (1 .. MaxIds) \X Vehicles, NEW v
  PROVE  \A d : d \in Keys(v) <=> <<d, v>> \in routing
<1>1. ASSUME NEW d, d \in Keys(v) PROVE <<d, v>> \in routing
  <2>1. PICK k \in routing : k[2] = v /\ k[1] = d
    BY <1>1 DEF Keys
  <2>2. k = <<k[1], k[2]>>
    BY <2>1
  <2> QED BY <2>1, <2>2
<1>2. ASSUME NEW d, <<d, v>> \in routing PROVE d \in Keys(v)
  <2>1. <<d, v>>[1] = d /\ <<d, v>>[2] = v
    OBVIOUS
  <2> QED BY <1>2, <2>1 DEF Keys
<1> QED BY <1>1, <1>2

\* What the rows and the requests hold are devices or none.
LEMMA RowTyped ==
  ASSUME TInv, NEW v \in Vehicles
  PROVE  /\ rows[v] \in Row \cup {NoRow} /\ rows[v].device \in 0 .. MaxIds
         /\ \A r \in Requests : Works(r, v) =>
              /\ job[r] \in VehicleJob /\ Asks(pc[r], job[r])
              /\ job[r].old \in Row \cup {NoRow} /\ job[r].new \in Row
              /\ job[r].old.device \in 0 .. MaxIds /\ job[r].new.device \in 0 .. MaxIds
<1>0. JobsTyped /\ VehicleTypeOK /\ MaxIds \in Nat
  BY ApiAssumptions DEF TInv, TypeOK
<1>1. \A x \in Row \cup {NoRow} : x.device \in 0 .. MaxIds
  BY <1>0 DEF Row, NoRow
<1>2. rows[v] \in Row \cup {NoRow}
  BY <1>0 DEF VehicleTypeOK
<1>3. ASSUME NEW r \in Requests, Works(r, v)
      PROVE  job[r] \in VehicleJob /\ Asks(pc[r], job[r])
  BY <1>0, <1>3, WorkTyped DEF Works, Running
<1>4. \A j \in VehicleJob : j.old \in Row \cup {NoRow} /\ j.new \in Row
  BY DEF VehicleJob
<1> QED BY <1>1, <1>2, <1>3, <1>4

\* What a step for one vehicle leaves of the others' devices, rows and keys.
Frame(v) ==
  /\ \A u \in Vehicles \ {v} : rows'[u] = rows[u] /\ (u \in amiss' <=> u \in amiss)
  /\ \A u \in Vehicles \ {v}, d \in Ids : <<d, u>> \in routing' => <<d, u>> \in routing
  /\ \A u \in Vehicles \ {v}, d \in Ids : <<d, u>> \in routing => <<d, u>> \in routing' \/ Holds(v, d)
  /\ \A x \in devices : x \in devices' \/ Holds(v, x.id)
  /\ lastId <= lastId'

\* The keys and the rows of a vehicle no step touches.
LEMMA OtherKept ==
  ASSUME DInv, TInv', NEW v \in Vehicles, NEW u \in Vehicles, u # v, Frame(v)
  PROVE  /\ (\A d : d \in Keys(u) => Holds(u, d)) => Keys(u)' = Keys(u)
         /\ \A row \in Row \cup {NoRow} : Sound(row) /\ (row.device # 0 => Holds(u, row.device)) => Sound(row)'
<1>0. /\ routing \subseteq (1 .. MaxIds) \X Vehicles /\ routing' \subseteq (1 .. MaxIds) \X Vehicles
      /\ Unshared /\ MaxIds \in Nat
  BY ApiAssumptions DEF DInv, TInv, TypeOK, VehicleTypeOK
<1>1. ASSUME \A d : d \in Keys(u) => Holds(u, d) PROVE Keys(u)' = Keys(u)
  <2>1. \A d : d \in Keys(u) <=> <<d, u>> \in routing
    BY <1>0, KeyFacts
  <2>2. \A d : d \in Keys(u)' <=> <<d, u>> \in routing'
    <3>1. ASSUME NEW d, d \in Keys(u)' PROVE <<d, u>> \in routing'
      <4>1. PICK k \in routing' : k[2] = u /\ k[1] = d
        BY <3>1 DEF Keys
      <4>2. k = <<k[1], k[2]>>
        BY <1>0, <4>1
      <4> QED BY <4>1, <4>2
    <3>2. ASSUME NEW d, <<d, u>> \in routing' PROVE d \in Keys(u)'
      <4>1. <<d, u>>[1] = d /\ <<d, u>>[2] = u
        OBVIOUS
      <4> QED BY <3>2, <4>1 DEF Keys
    <3> QED BY <3>1, <3>2
  <2>3. \A d : <<d, u>> \in routing \/ <<d, u>> \in routing' => d \in Ids
    BY <1>0 DEF Ids
  <2>4. ASSUME NEW d, d \in Keys(u) PROVE d \in Keys(u)'
    <3>1. d \in Ids /\ <<d, u>> \in routing /\ Holds(u, d)
      BY <1>1, <2>1, <2>3, <2>4
    <3>2. ~Holds(v, d)
      BY <1>0, <3>1 DEF Unshared
    <3> QED BY <2>2, <3>1, <3>2 DEF Frame
  <2>5. ASSUME NEW d, d \in Keys(u)' PROVE d \in Keys(u)
    BY <2>1, <2>2, <2>3, <2>5 DEF Frame
  <2> QED BY <2>4, <2>5
<1>2. ASSUME NEW row \in Row \cup {NoRow}, Sound(row), row.device # 0 => Holds(u, row.device)
      PROVE  Sound(row)'
  <2>1. row.device \in 0 .. MaxIds
    BY <1>0 DEF Row, NoRow
  <2>2. SUFFICES ASSUME row.device # 0
                 PROVE  There(row.device)' /\ (row.status = "BAJA" => Live(row.device, row.imei)')
    BY DEF Sound
  <2>3. ~Holds(v, row.device)
    BY <1>0, <1>2, <2>1, <2>2 DEF Unshared, Ids
  <2>4. \A x \in devices : x.id = row.device => x \in devices'
    BY <2>3 DEF Frame
  <2>5. There(row.device) /\ (row.status = "BAJA" => Live(row.device, row.imei))
    BY <1>2, <2>2 DEF Sound
  <2> QED BY <2>4, <2>5 DEF There, Live
<1> QED BY <1>1, <1>2

\* The requests for a vehicle, as a set and one by one.
LEMMA Workers ==
  ASSUME NEW v
  PROVE  /\ \A r \in Requests : r \in WorkOn(v) <=> Works(r, v)
         /\ WorkOn(v) \subseteq Requests
         /\ Settled(v) <=> \A r \in Requests : Works(r, v) => ~HalfDone(r)
         /\ \A r : HalfDone(r) <=> Half(pc[r], job[r])
BY DEF WorkOn, Works, Settled, Running, HalfDone, Half

\* The same after a step.
LEMMA WorkersNext ==
  ASSUME NEW v
  PROVE  /\ Settled(v)' <=> \A r \in Requests : Works(r, v)' => ~HalfDone(r)'
         /\ \A r : HalfDone(r)' <=> Half(pc'[r], job'[r])
BY DEF WorkOn, Works, Settled, Running, HalfDone, Half

\* Request r moves to a label with work for v.
Acts(r, v, label, j) ==
  /\ Moves(r, label, j)
  /\ label = "done" \/ (label \notin {"idle", "done"} /\ j \in VehicleJob /\ j.vehicle = v)
  /\ \A u \in Vehicles : Works(r, u) => u = v

LEMMA ActsFacts ==
  ASSUME DInv, NEW r \in Requests, NEW v \in Vehicles, NEW label, NEW j, Acts(r, v, label, j)
  PROVE  /\ \A q \in Requests \ {r}, u \in Vehicles :
              /\ pc'[q] = pc[q] /\ job'[q] = job[q] /\ (Works(q, u)' <=> Works(q, u))
              /\ HalfDone(q)' <=> HalfDone(q)
         /\ \A u \in Vehicles : Works(r, u)' => u = v /\ label # "done"
         /\ label # "done" => Works(r, v)'
         /\ pc'[r] = label /\ job'[r] = j
         /\ HalfDone(r)' <=> Half(label, j)
         /\ \A u \in Vehicles \ {v} : /\ \A q \in Requests : Works(q, u)' <=> Works(q, u)
                                      /\ Settled(u)' <=> Settled(u)
<1>1. /\ pc'[r] = label /\ job'[r] = j
      /\ \A q \in Requests \ {r} : pc'[q] = pc[q] /\ job'[q] = job[q]
  BY DEF Acts, Moves
<1>2. \A q \in Requests \ {r}, u \in Vehicles : Works(q, u)' <=> Works(q, u)
  BY <1>1 DEF Works, Running, IsVehicleJob
<1>3. ASSUME NEW u \in Vehicles, Works(r, u)' PROVE u = v /\ label # "done"
  <2>1. label # "done" /\ j.vehicle = u
    BY <1>1, <1>3 DEF Works, Running
  <2> QED BY <2>1 DEF Acts
<1>4. label # "done" => Works(r, v)'
  <2>1. \A k \in VehicleJob : k.op \in VehicleOps
    BY DEF VehicleJob
  <2> QED BY <1>1, <2>1 DEF Acts, Works, Running, IsVehicleJob
<1>5. ASSUME NEW q \in Requests \ {r} PROVE HalfDone(q)' <=> HalfDone(q)
  BY <1>1, Workers, WorkersNext
<1>6. ASSUME NEW u \in Vehicles \ {v}
      PROVE  /\ \A q \in Requests : Works(q, u)' <=> Works(q, u)
             /\ Settled(u)' <=> Settled(u)
  <2>1. ~Works(r, u) /\ ~Works(r, u)'
    BY <1>3, <1>6 DEF Acts
  <2>2. \A q \in Requests : Works(q, u)' <=> Works(q, u)
    BY <1>2, <2>1
  <2>3. \A q \in Requests : Works(q, u) => (HalfDone(q)' <=> HalfDone(q))
    BY <1>5, <2>1
  <2>4. Settled(u) <=> \A q \in Requests : Works(q, u) => ~HalfDone(q)
    BY Workers
  <2>5. Settled(u)' <=> \A q \in Requests : Works(q, u)' => ~HalfDone(q)'
    BY WorkersNext
  <2> QED BY <2>2, <2>3, <2>4, <2>5
<1>7. HalfDone(r)' <=> Half(label, j)
  BY <1>1, WorkersNext
<1> QED BY <1>1, <1>2, <1>3, <1>4, <1>5, <1>6, <1>7

\* The vehicles a step for v is not about.
LEMMA OthersFair ==
  ASSUME DInv, TInv', NEW r \in Requests, NEW v \in Vehicles, NEW label, NEW j,
         Acts(r, v, label, j), Frame(v), NEW u \in Vehicles, u # v
  PROVE  Fair(u)'
<1> SUFFICES ASSUME u \notin amiss'
             PROVE  /\ Settled(u)' => Agree(u)'
                    /\ \A q \in Requests : Works(q, u)' /\ (Settled(u)' \/ HalfDone(q)') => Stage(pc[q], job[q])'
                    /\ \A p, q \in Requests : Works(p, u)' /\ HalfDone(p)' /\ Works(q, u)' /\ HalfDone(q)' => p = q
  BY DEF Fair
<1>0. TInv /\ rows'[u] = rows[u] /\ u \notin amiss /\ Fair(u)
  BY DEF DInv, Frame
<1>1. \A q \in Requests : ~Works(r, u) /\ (Works(q, u)' <=> Works(q, u))
  BY ActsFacts DEF Acts
<1>2. /\ Settled(u)' <=> Settled(u)
      /\ \A q \in Requests : Works(q, u) => /\ pc'[q] = pc[q] /\ job'[q] = job[q]
                                            /\ HalfDone(q)' <=> HalfDone(q)
  BY <1>1, ActsFacts
<1>3. \A row \in Row \cup {NoRow} : Sound(row) /\ (row.device # 0 => Holds(u, row.device)) => Sound(row)'
  BY OtherKept
<1>4. (\A d : d \in Keys(u) => Holds(u, d)) => Keys(u)' = Keys(u)
  BY OtherKept
<1>5. ASSUME Settled(u) PROVE Agree(u)' /\ Keys(u)' = Keys(u)
  <2>1. Keys(u) = {rows[u].device} \ {0} /\ Sound(rows[u])
    BY <1>0, <1>5 DEF Fair, Agree
  <2>2. Keys(u)' = Keys(u)
    BY <1>4, <2>1 DEF Holds
  <2>3. PICK row \in Row \cup {NoRow} : row = rows[u]
    BY <1>0, RowTyped
  <2>4. Sound(row)'
    BY <1>3, <2>1, <2>3 DEF Holds
  <2>5. Sound(rows[u])'
    BY <1>0, <2>3, <2>4 DEF Sound
  <2> QED BY <1>0, <2>1, <2>2, <2>5 DEF Agree
<1>6. ASSUME NEW q \in Requests, Works(q, u), Settled(u) \/ HalfDone(q) PROVE Stage(pc[q], job[q])'
  <2>1. PICK k, l : k \in VehicleJob /\ k = job[q] /\ l = pc[q]
    BY <1>0, <1>6, RowTyped
  <2>2. Stage(l, k)
    BY <1>0, <1>6, <2>1 DEF Fair
  <2>3. /\ k.old \in Row \cup {NoRow} /\ k.new \in Row /\ k.vehicle = u
        /\ Holds(u, k.old.device) /\ Holds(u, k.new.device)
    BY <1>0, <1>6, <2>1, RowTyped DEF Holds, Works
  <2>4. Keys(u)' = Keys(u)
    <3>1. \A d : d \in Keys(u) => d = k.old.device
      BY <2>2, <2>3 DEF Stage, Effect
    <3> QED BY <1>4, <2>3, <3>1
  <2>5. Keys(k.vehicle)' = Keys(k.vehicle)
    BY <2>3, <2>4
  <2>6. (Sound(k.old) => Sound(k.old)') /\ (Sound(k.new) => Sound(k.new)')
    BY <1>3, <2>3
  <2>7. Stage(l, k)'
    BY <1>0, <2>2, <2>3, <2>5, <2>6 DEF Stage, Ties, Effect
  <2>8. l = pc'[q] /\ k = job'[q]
    BY <1>2, <1>6, <2>1
  <2> QED BY <2>7, <2>8 DEF Stage, Ties, Effect
<1> QED BY <1>0, <1>1, <1>2, <1>5, <1>6 DEF Fair

\* A step for one vehicle keeps the invariant if it does so for that vehicle.
LEMMA OneVehicle ==
  ASSUME DInv, TInv', NEW r \in Requests, NEW v \in Vehicles, NEW label, NEW j,
         Acts(r, v, label, j), Frame(v), RowSound(v)', Fair(v)',
         \A d \in Ids : Holds(v, d)' => (Holds(v, d) \/ d > lastId) /\ d <= lastId',
         label # "done" => Shape(label, j)
  PROVE  DInv'
<1>0. /\ TInv /\ Unshared /\ Given /\ lastId \in Nat /\ lastId' \in Nat /\ MaxIds \in Nat
      /\ VehicleTypeOK
  BY ApiAssumptions DEF DInv, TInv, TypeOK, ApiTypeOK
<1>1. /\ \A q \in Requests \ {r}, u \in Vehicles :
           pc'[q] = pc[q] /\ job'[q] = job[q] /\ (Works(q, u)' <=> Works(q, u))
      /\ \A u \in Vehicles : Works(r, u)' => u = v /\ label # "done"
      /\ pc'[r] = label /\ job'[r] = j
      /\ \A u \in Vehicles \ {v} : \A q \in Requests : Works(q, u)' <=> Works(q, u)
  BY ActsFacts
<1>4. ASSUME NEW u \in Vehicles \ {v}, NEW d PROVE Holds(u, d)' <=> Holds(u, d)
  <2>1. rows'[u] = rows[u]
    BY DEF Frame
  <2>2. \A q \in Requests : Works(q, u) => q # r
    BY DEF Acts
  <2>3. \A q \in Requests : Works(q, u)' => job'[q] = job[q]
    BY <1>1, <2>2
  <2> QED BY <1>1, <2>1, <2>3 DEF Holds
<1>5. Given'
  <2> SUFFICES ASSUME NEW u \in Vehicles, NEW d \in Ids, Holds(u, d)' PROVE d <= lastId'
    BY DEF Given
  <2>1. CASE u # v
    <3>1. d <= lastId
      BY <1>0, <1>4, <2>1 DEF Given
    <3> QED BY <1>0, <3>1 DEF Frame, Ids
  <2> QED BY <2>1
<1>6. Unshared'
  <2>1. ASSUME NEW u \in Vehicles, NEW d \in Ids, Holds(u, d)', Holds(v, d)' PROVE u = v
    <3>1. SUFFICES ASSUME u # v PROVE FALSE
      OBVIOUS
    <3>2. Holds(u, d) /\ d <= lastId
      BY <1>0, <1>4, <2>1, <3>1 DEF Given
    <3>3. ~Holds(v, d)
      BY <1>0, <3>1, <3>2 DEF Unshared
    <3> QED BY <1>0, <2>1, <3>2, <3>3 DEF Ids
  <2> SUFFICES ASSUME NEW u \in Vehicles, NEW w \in Vehicles, NEW d \in Ids, Holds(u, d)', Holds(w, d)'
               PROVE  u = w
    BY DEF Unshared
  <2>2. CASE u = v \/ w = v
    BY <2>1, <2>2
  <2>3. CASE u # v /\ w # v
    BY <1>0, <1>4, <2>3 DEF Unshared
  <2> QED BY <2>2, <2>3
<1>7. ASSUME NEW u \in Vehicles PROVE RowSound(u)' /\ Fair(u)'
  <2>1. CASE u # v
    <3>1. rows'[u] = rows[u]
      BY <2>1 DEF Frame
    <3>2. RowSound(u)'
      BY <3>1 DEF RowSound, DInv
    <3> QED BY <2>1, <3>2, OthersFair
  <2> QED BY <2>1
<1>8. ASSUME NEW q \in Requests, NEW u \in Vehicles, Works(q, u)' PROVE Shape(pc'[q], job'[q])
  <2>1. CASE q = r
    BY <1>1, <1>8, <2>1
  <2>2. CASE q # r
    BY <1>1, <1>8, <2>2 DEF DInv
  <2> QED BY <2>1, <2>2
<1> QED BY <1>5, <1>6, <1>7, <1>8 DEF DInv, Shape

\* A step that leaves the vehicles, their devices and their requests alone.
LEMMA Untouched ==
  ASSUME DInv, TInv', UNCHANGED <<devices, rows, routing, amiss>>, lastId <= lastId',
         \A q \in Requests, u \in Vehicles :
           /\ Works(q, u)' <=> Works(q, u)
           /\ Works(q, u) => pc'[q] = pc[q] /\ job'[q] = job[q]
  PROVE  DInv'
<1>0. /\ TInv /\ Unshared /\ Given /\ lastId \in Nat /\ lastId' \in Nat /\ MaxIds \in Nat
  BY ApiAssumptions DEF DInv, TInv, TypeOK, ApiTypeOK
<1>2. ASSUME NEW u \in Vehicles, NEW d PROVE Holds(u, d)' <=> Holds(u, d)
  BY DEF Holds
<1>3. Unshared'
  BY <1>0, <1>2 DEF Unshared
<1>4. Given'
  <2> SUFFICES ASSUME NEW u \in Vehicles, NEW d \in Ids, Holds(u, d) PROVE d <= lastId'
    BY <1>2 DEF Given
  <2> QED BY <1>0 DEF Given, Ids
<1>5. ASSUME NEW v \in Vehicles PROVE RowSound(v)' /\ Fair(v)'
  <2>1. \A q \in Requests : Works(q, v) => (HalfDone(q)' <=> HalfDone(q))
    BY Workers, WorkersNext
  <2>2. Settled(v)' <=> Settled(v)
    <3>1. Settled(v) <=> \A q \in Requests : Works(q, v) => ~HalfDone(q)
      BY Workers
    <3>2. Settled(v)' <=> \A q \in Requests : Works(q, v)' => ~HalfDone(q)'
      BY WorkersNext
    <3> QED BY <2>1, <3>1, <3>2
  <2>3. Agree(v)' <=> Agree(v)
    BY DEF Agree, Keys, Sound, There, Live
  <2>4. ASSUME NEW q \in Requests, Works(q, v), Stage(pc[q], job[q]) PROVE Stage(pc[q], job[q])'
    <3>1. PICK l, k : l = pc[q] /\ k = job[q]
      OBVIOUS
    <3>2. Stage(l, k) /\ pc'[q] = l /\ job'[q] = k
      BY <2>4, <3>1
    <3>3. Stage(l, k)'
      BY <3>2 DEF Stage, Ties, Effect, Keys, Sound, There, Live
    <3> QED BY <3>2, <3>3 DEF Stage, Ties, Effect
  <2>5. RowSound(v)'
    BY DEF DInv, RowSound
  <2>6. Fair(v)
    BY DEF DInv
  <2> QED BY <2>1, <2>2, <2>3, <2>4, <2>5, <2>6 DEF Fair
<1>6. ASSUME NEW q \in Requests, NEW v \in Vehicles, Works(q, v)' PROVE Shape(pc'[q], job'[q])
  BY <1>6 DEF DInv
<1> QED BY <1>0, <1>3, <1>4, <1>5, <1>6 DEF DInv, Shape

LEMMA DRoute ==
  ASSUME DInv, TInv', NEW r \in Requests, BeginRoute(r) \/ RouteStep(r), UNCHANGED vehicleVars
  PROVE  DInv'
<1>0. TInv /\ JobsTyped /\ ApiTypeOK /\ lastId \in Nat
  BY ApiAssumptions DEF DInv, TInv, TypeOK, ApiTypeOK
<1>1. UNCHANGED <<rows, routing, amiss>>
  BY DEF vehicleVars
<1>2. ASSUME NEW label, NEW j, Moves(r, label, j), label = "done" \/ j.op \in RouteOps,
             pc[r] = "idle" \/ IsRouteJob(r)
      PROVE  \A q \in Requests, u \in Vehicles :
               /\ Works(q, u)' <=> Works(q, u)
               /\ Works(q, u) => pc'[q] = pc[q] /\ job'[q] = job[q]
  <2>1. \A op \in RouteOps : op \notin VehicleOps
    BY DEF RouteOps, VehicleOps
  <2>2. ASSUME NEW u \in Vehicles PROVE ~Works(r, u) /\ ~Works(r, u)'
    <3>1. ~Works(r, u)
      BY <1>2, <2>1 DEF Works, Running, IsRouteJob, IsVehicleJob
    <3>2. ~Works(r, u)'
      BY <1>2, <2>1 DEF Works, Running, IsVehicleJob, Moves
    <3> QED BY <3>1, <3>2
  <2>3. ASSUME NEW q \in Requests, q # r, NEW u \in Vehicles
        PROVE  pc'[q] = pc[q] /\ job'[q] = job[q] /\ (Works(q, u)' <=> Works(q, u))
    BY <1>2, <2>3 DEF Moves, Works, Running, IsVehicleJob
  <2> QED BY <2>2, <2>3
<1>3. CASE BeginRoute(r)
  <2>1. UNCHANGED traccar /\ pc[r] = "idle"
    BY <1>0, <1>3, RouteBegins
  <2>2. PICK j \in RouteWork : RouteStart(r, j)
    BY <1>0, <1>3, RouteBegins
  <2>3. PICK label : Moves(r, label, j)
    BY <2>2 DEF RouteStart
  <2>4. j.op \in RouteOps
    BY <2>2 DEF RouteWork
  <2>5. UNCHANGED <<devices, lastId>>
    BY <2>1 DEF traccar
  <2>6. \A q \in Requests, u \in Vehicles :
               /\ Works(q, u)' <=> Works(q, u)
               /\ Works(q, u) => pc'[q] = pc[q] /\ job'[q] = job[q]
    BY <1>2, <2>1, <2>3, <2>4
  <2>7. lastId <= lastId'
    BY <1>0, <2>5
  <2> QED BY <1>1, <2>5, <2>6, <2>7, Untouched
<1>4. CASE RouteStep(r)
  <2>1. Call /\ Counted /\ UNCHANGED devices /\ RouteGoes(r)
    BY <1>0, <1>4, RouteSteps DEF RouteStep
  <2>2. lastId <= lastId'
    BY <1>0, <2>1, CallTyped
  <2>3. PICK label, j : Moves(r, label, j) /\ (label = "done" \/ j.op \in RouteOps)
    BY <2>1 DEF RouteGoes, RouteWork
  <2>4. IsRouteJob(r)
    BY <1>4 DEF RouteStep
  <2>5. \A q \in Requests, u \in Vehicles :
               /\ Works(q, u)' <=> Works(q, u)
               /\ Works(q, u) => pc'[q] = pc[q] /\ job'[q] = job[q]
    BY <1>2, <2>3, <2>4
  <2> QED BY <1>1, <2>1, <2>2, <2>5, Untouched
<1> QED BY <1>3, <1>4

-----------------------------------------------------------------------------
\* A row that keeps the device of the one before it.
LEMMA KeptSound ==
  ASSUME NEW j, Sound(j.old), j.new.device = KeptDevice(j),
         j.new.status = "BAJA" /\ ~Retires(j) /\ j.new.imei # NoImei => j.new.imei = j.old.imei
  PROVE  Sound(j.new)
<1> SUFFICES ASSUME j.new.device # 0
             PROVE  There(j.new.device) /\ (j.new.status = "BAJA" => Live(j.new.device, j.new.imei))
  BY DEF Sound
<1>1. ~Retires(j) /\ j.new.imei # NoImei /\ j.new.device = j.old.device
  BY DEF KeptDevice
<1>2. There(j.old.device) /\ (j.old.status = "BAJA" => Live(j.old.device, j.old.imei))
  BY <1>1 DEF Sound
<1> QED BY <1>1, <1>2 DEF Retires

\* What a new request wants, by the row it has read.
LEMMA AskedShape ==
  ASSUME NEW k \in VehicleJob, Asked(k), RowSound(k.vehicle)
  PROVE  /\ Shape(First(k), k) /\ ~Half(First(k), k)
         /\ Agree(k.vehicle) => Stage(First(k), k)
<1>0. /\ k.old = rows[k.vehicle] /\ k.new.device = KeptDevice(k)
      /\ k.op = "CREATE" <=> k.old = NoRow
      /\ k.op = "STATUS" => k.new.imei = IF Retires(k) THEN NoImei ELSE k.old.imei
      /\ k.op = "DELETE" => k.new.status = "BAJA" /\ k.new.imei = NoImei
  BY DEF Asked
<1>1. First(k) \in {"check", "save", "uncache"}
  BY DEF First
<1>2. First(k) = "uncache" <=> DeviceGone(k)
  BY DEF First
<1>3. First(k) = "check" => /\ k.new.imei # NoImei
                            /\ k.new.imei # k.old.imei \/ Reactivates(k)
                            /\ ~(k.op = "UPDATE" /\ Retires(k))
  BY DEF First
<1>4. First(k) = "save" /\ k.new.imei # NoImei =>
        \/ k.new.imei = k.old.imei /\ ~Reactivates(k)
        \/ k.op = "UPDATE" /\ Retires(k)
  BY DEF First, DeviceGone
<1>5. k.old.imei = NoImei => k.old.device = 0
  BY <1>0 DEF RowSound
<1>6. /\ k.new.imei = NoImei => k.new.device = 0
      /\ DeviceGone(k) => k.new.device = 0
  BY <1>0 DEF KeptDevice, DeviceGone
<1>7. Shape(First(k), k)
  BY <1>0, <1>1, <1>2, <1>3, <1>5, <1>6 DEF Shape
<1>8. ~Half(First(k), k)
  BY <1>1, <1>2 DEF Half, DeviceGone
<1>9. ASSUME Agree(k.vehicle) PROVE Stage(First(k), k)
  <2>1. Ties(First(k), k)
    BY <1>0, <1>1, <1>2 DEF Ties, DeviceGone
  <2>2. Keys(k.vehicle) = {k.old.device} \ {0} /\ Sound(k.old)
    BY <1>0, <1>9 DEF Agree
  <2>3. First(k) = "save" => Sound(k.new)
    BY <1>0, <1>4, <2>2, KeptSound DEF Retires
  <2>4. k.op = "STATUS" /\ ~DeviceGone(k) => k.old.device \in {0, k.new.device}
    BY <1>0, <1>5 DEF KeptDevice, DeviceGone
  <2>5. Effect(First(k), k)
    BY <1>1, <1>2, <2>2, <2>3, <2>4 DEF Effect
  <2> QED BY <2>1, <2>5 DEF Stage
<1> QED BY <1>7, <1>8, <1>9

LEMMA SoundGrows ==
  ASSUME devices \subseteq devices', NEW row, Sound(row)
  PROVE  Sound(row)'
BY DEF Sound, There, Live

\* A stage outlasts a step that leaves the row and its keys and deletes no device.
LEMMA StageGrows ==
  ASSUME devices \subseteq devices', UNCHANGED <<rows, routing>>
  PROVE  /\ \A v : Agree(v) => Agree(v)'
         /\ \A label, k : Stage(label, k) => Stage(label, k)'
<1>1. ASSUME NEW v, Agree(v) PROVE Agree(v)'
  <2>1. PICK row : row = rows[v]
    OBVIOUS
  <2>2. Sound(row)'
    BY <1>1, <2>1, SoundGrows DEF Agree
  <2> QED BY <1>1, <2>1, <2>2 DEF Agree, Keys, Sound
<1>2. ASSUME NEW label, NEW k, Stage(label, k) PROVE Stage(label, k)'
  <2>1. (Sound(k.old) => Sound(k.old)') /\ (Sound(k.new) => Sound(k.new)')
    BY SoundGrows
  <2>2. Keys(k.vehicle)' = Keys(k.vehicle)
    BY DEF Keys
  <2>3. Ties(label, k)' /\ Effect(label, k)'
    BY <1>2, <2>1, <2>2 DEF Stage, Ties, Effect
  <2> QED BY <2>3 DEF Stage
<1> QED BY <1>1, <1>2

-----------------------------------------------------------------------------
\* A step of request r that changes nothing of its vehicle, whatever others are under
\* way for it.
LEMMA Looking ==
  ASSUME DInv, TInv', NEW r \in Requests, NEW v \in Vehicles, NEW label, NEW j,
         Acts(r, v, label, j),
         devices \subseteq devices', lastId <= lastId', UNCHANGED <<rows, routing>>,
         amiss' = amiss \/ amiss' = amiss \cup {v},
         v \notin amiss' => ~(Works(r, v) /\ HalfDone(r)),
         \A d \in Ids : Holds(v, d)' => (Holds(v, d) \/ d > lastId) /\ d <= lastId',
         label # "done" => /\ Shape(label, j) /\ ~Half(label, j)
                           /\ v \notin amiss /\ Settled(v) => Stage(label, j)'
  PROVE  DInv'
<1>1. Frame(v)
  BY DEF Frame
<1>2. RowSound(v)'
  BY DEF RowSound, DInv
<1>3. ASSUME v \notin amiss'
      PROVE  /\ Settled(v)' => Agree(v)'
             /\ \A q \in Requests : Works(q, v)' /\ (Settled(v)' \/ HalfDone(q)') => Stage(pc[q], job[q])'
             /\ \A p, q \in Requests : Works(p, v)' /\ HalfDone(p)' /\ Works(q, v)' /\ HalfDone(q)' => p = q
  <2>0. v \notin amiss /\ Fair(v)
    BY <1>3 DEF DInv
  <2>1. /\ \A q \in Requests \ {r} : /\ pc'[q] = pc[q] /\ job'[q] = job[q]
                                     /\ Works(q, v)' <=> Works(q, v)
                                     /\ HalfDone(q)' <=> HalfDone(q)
        /\ pc'[r] = label /\ job'[r] = j
        /\ Works(r, v)' => label # "done" /\ ~HalfDone(r)'
    BY ActsFacts
  <2>2. Settled(v)' <=> Settled(v)
    <3>1. Settled(v) <=> \A q \in Requests : Works(q, v) => ~HalfDone(q)
      BY Workers
    <3>2. Settled(v)' <=> \A q \in Requests : Works(q, v)' => ~HalfDone(q)'
      BY WorkersNext
    <3> QED BY <1>3, <2>1, <3>1, <3>2
  <2>3. Settled(v) => Agree(v)'
    BY <2>0, StageGrows DEF Fair
  <2>4. ASSUME NEW q \in Requests, Works(q, v)', Settled(v)' \/ HalfDone(q)'
        PROVE  Stage(pc[q], job[q])'
    <3>1. CASE q = r
      <4>1. label # "done" /\ Settled(v)
        BY <2>1, <2>2, <2>4, <3>1
      <4>2. Stage(label, j)'
        BY <2>0, <4>1
      <4> QED BY <2>1, <3>1, <4>2 DEF Stage, Ties, Effect
    <3>2. CASE q # r
      <4>1. PICK l, k : l = pc[q] /\ k = job[q]
        OBVIOUS
      <4>2. Stage(l, k)
        BY <2>0, <2>1, <2>2, <2>4, <3>2, <4>1 DEF Fair
      <4>3. Stage(l, k)' /\ pc'[q] = l /\ job'[q] = k
        BY <2>1, <3>2, <4>1, <4>2, StageGrows
      <4> QED BY <4>3 DEF Stage, Ties, Effect
    <3> QED BY <3>1, <3>2
  <2>5. ASSUME NEW p \in Requests, NEW q \in Requests,
               Works(p, v)', HalfDone(p)', Works(q, v)', HalfDone(q)'
        PROVE  p = q
    <3>1. p # r /\ q # r
      BY <2>1, <2>5
    <3> QED BY <2>0, <2>1, <2>5, <3>1 DEF Fair
  <2> QED BY <2>2, <2>3, <2>4, <2>5
<1>4. Fair(v)'
  BY <1>3 DEF Fair
<1> QED BY <1>1, <1>2, <1>4, OneVehicle

\* A request at work for a vehicle that goes on or ends.
LEMMA WorkActs ==
  ASSUME DInv, NEW r \in Requests, NEW v \in Vehicles, Works(r, v)
  PROVE  /\ Finish(r) => Acts(r, v, "done", NoJob)
         /\ \A label, k : /\ label \notin {"idle", "done"} /\ k \in VehicleJob /\ k.vehicle = v
                          /\ Goto(r, label)
                          /\ job' = [job EXCEPT ![r] = k] \/ (UNCHANGED job /\ k = job[r])
                          => Acts(r, v, label, k)
<1>0. JobsTyped
  BY DEF DInv, TInv
<1>1. \A u \in Vehicles : Works(r, u) => u = v
  BY DEF Works
<1>2. Finish(r) => Acts(r, v, "done", NoJob)
  BY <1>0, <1>1, FinishMoves DEF Acts
<1>3. ASSUME NEW label, NEW k, label \notin {"idle", "done"}, k \in VehicleJob, k.vehicle = v,
             Goto(r, label), job' = [job EXCEPT ![r] = k] \/ (UNCHANGED job /\ k = job[r])
      PROVE  Acts(r, v, label, k)
  <2>1. Moves(r, label, k)
    BY <1>0, <1>3, GotoMoves
  <2> QED BY <1>1, <1>3, <2>1 DEF Acts
<1> QED BY <1>2, <1>3

\* The step of a request at work, if the row it may write is what it wants and the
\* device it may take is new.
LEMMA HoldsGrow ==
  ASSUME DInv, TInv', NEW r \in Requests, NEW v \in Vehicles, Works(r, v),
         NEW label, NEW k, Acts(r, v, label, k), lastId <= lastId',
         rows'[v] = rows[v] \/ rows'[v] = job[r].new,
         label # "done" => /\ k.old.device = job[r].old.device
                           /\ \/ k.new.device = job[r].new.device
                              \/ lastId < k.new.device /\ k.new.device <= lastId'
  PROVE  /\ \A d \in Ids : Holds(v, d)' => (Holds(v, d) \/ d > lastId) /\ d <= lastId'
         /\ RowSound(v)'
<1>0. TInv /\ Given /\ lastId \in Nat /\ lastId' \in Nat /\ MaxIds \in Nat
  BY ApiAssumptions DEF DInv, TInv, TypeOK, ApiTypeOK
<1>1. Shape(pc[r], job[r])
  BY DEF DInv
<1>2. RowSound(v)'
  BY <1>1 DEF Shape, RowSound, DInv
<1>3. ASSUME NEW d \in Ids, Holds(v, d)' PROVE (Holds(v, d) \/ d > lastId) /\ d <= lastId'
  <2>1. \/ rows'[v].device = d
        \/ \E q \in Requests : Works(q, v)' /\ (job'[q].old.device = d \/ job'[q].new.device = d)
    BY <1>3 DEF Holds
  <2>2. ASSUME NEW q \in Requests, q # r, Works(q, v)', job'[q].old.device = d \/ job'[q].new.device = d
        PROVE  Holds(v, d)
    BY <2>2, ActsFacts DEF Holds
  <2>3. ASSUME Works(r, v)', job'[r].old.device = d \/ job'[r].new.device = d
        PROVE  Holds(v, d) \/ (lastId < d /\ d <= lastId')
    <3>1. label # "done" /\ job'[r] = k
      BY <2>3, ActsFacts
    <3> QED BY <2>3, <3>1 DEF Holds
  <2>4. rows'[v].device = d => Holds(v, d)
    BY DEF Holds
  <2>5. Holds(v, d) \/ (lastId < d /\ d <= lastId')
    BY <2>1, <2>2, <2>3, <2>4
  <2>6. Holds(v, d) => d <= lastId
    BY <1>0 DEF Given
  <2> QED BY <1>0, <2>5, <2>6 DEF Ids
<1> QED BY <1>2, <1>3

\* A request that ends with the vehicle as it found it.
LEMMA Ending ==
  ASSUME DInv, TInv', NEW r \in Requests, NEW v \in Vehicles, Works(r, v), Finish(r),
         devices \subseteq devices', lastId <= lastId', UNCHANGED <<rows, routing>>,
         amiss' = amiss \/ amiss' = amiss \cup {v},
         v \notin amiss' => ~HalfDone(r)
  PROVE  DInv'
<1>1. Acts(r, v, "done", NoJob)
  BY WorkActs
<1>2. \A d \in Ids : Holds(v, d)' => (Holds(v, d) \/ d > lastId) /\ d <= lastId'
  BY <1>1, HoldsGrow
<1> QED BY <1>1, <1>2, Looking

\* A request that goes on with its vehicle as it was.
LEMMA GoingOn ==
  ASSUME DInv, TInv', NEW r \in Requests, NEW v \in Vehicles, Works(r, v), ~HalfDone(r),
         NEW label, label \notin {"idle", "done"}, Goto(r, label), UNCHANGED job,
         devices \subseteq devices', lastId <= lastId', UNCHANGED <<rows, routing, amiss>>,
         Shape(label, job[r]), ~Half(label, job[r]),
         Stage(pc[r], job[r]) => Stage(label, job[r])
  PROVE  DInv'
<1>1. PICK k \in VehicleJob : k = job[r]
  BY RowTyped DEF DInv
<1>2. Acts(r, v, label, k)
  BY <1>1, WorkActs DEF Works
<1>3. \A d \in Ids : Holds(v, d)' => (Holds(v, d) \/ d > lastId) /\ d <= lastId'
  BY <1>1, <1>2, HoldsGrow
<1>4. ASSUME v \notin amiss, Settled(v) PROVE Stage(label, k)'
  <2>1. Stage(label, k)
    BY <1>1, <1>4 DEF DInv, Fair
  <2> QED BY <2>1, StageGrows
<1>5. Shape(label, k) /\ ~Half(label, k)
  BY <1>1
<1> QED BY <1>2, <1>3, <1>4, <1>5, Looking

\* A step of request r that changes its vehicle: it is amiss, or r is the only one for it.
LEMMA Changing ==
  ASSUME DInv, TInv', NEW r \in Requests, NEW v \in Vehicles, Works(r, v), Changes(r),
         NEW label, NEW k, Acts(r, v, label, k), Frame(v), label # "done" => k = job[r],
         rows'[v] = rows[v] \/ rows'[v] = job[r].new, lastId' = lastId,
         label # "done" => Shape(label, k),
         v \notin amiss' /\ Stage(pc[r], job[r]) =>
           IF label = "done" THEN Agree(v)'
           ELSE Stage(label, k)' /\ (Half(label, k) \/ Agree(v)')
  PROVE  DInv'
<1>0. lastId \in Nat
  BY DEF DInv, TInv, TypeOK, ApiTypeOK
<1>1. RowSound(v)' /\ \A d \in Ids : Holds(v, d)' => (Holds(v, d) \/ d > lastId) /\ d <= lastId'
  BY <1>0, HoldsGrow
<1>2. ASSUME v \notin amiss'
      PROVE  /\ Settled(v)' => Agree(v)'
             /\ \A q \in Requests : Works(q, v)' /\ (Settled(v)' \/ HalfDone(q)') => Stage(pc[q], job[q])'
             /\ \A p, q \in Requests : Works(p, v)' /\ HalfDone(p)' /\ Works(q, v)' /\ HalfDone(q)' => p = q
  <2>1. v \notin amiss /\ WorkOn(v) = {r}
    BY <1>2 DEF Changes, Works
  <2>2. \A q \in Requests : Works(q, v) => q = r
    BY <2>1, Workers
  <2>3. Settled(v) <=> ~HalfDone(r)
    BY <2>2, Workers
  <2>4. Stage(pc[r], job[r])
    BY <2>1, <2>3 DEF DInv, Fair
  <2>5. /\ \A q \in Requests : Works(q, v)' => q = r /\ label # "done"
        /\ label # "done" => Works(r, v)'
        /\ pc'[r] = label /\ job'[r] = k /\ (HalfDone(r)' <=> Half(label, k))
    BY <2>2, ActsFacts
  <2>6. label = "done" => Agree(v)'
    BY <1>2, <2>4
  <2>7. label # "done" => Stage(label, k)' /\ (Half(label, k) \/ Agree(v)')
    BY <1>2, <2>4
  <2>8. Settled(v)' => Agree(v)'
    <3>1. Settled(v)' /\ label # "done" => ~Half(label, k)
      BY <2>5, WorkersNext
    <3> QED BY <2>6, <2>7, <3>1
  <2>9. ASSUME NEW q \in Requests, Works(q, v)' PROVE Stage(pc[q], job[q])'
    <3>1. q = r /\ Stage(label, k)'
      BY <2>5, <2>7, <2>9
    <3> QED BY <2>5, <3>1 DEF Stage, Ties, Effect
  <2> QED BY <2>5, <2>8, <2>9
<1>3. Fair(v)'
  BY <1>2 DEF Fair
<1> QED BY <1>1, <1>3, OneVehicle

-----------------------------------------------------------------------------
(* The steps of the requests.                                               *)

LEMMA DBegin ==
  ASSUME DInv, TInv', NEW r \in Requests, BeginVehicle(r)
  PROVE  DInv'
<1>0. TInv /\ ApiTypeOK /\ lastId \in Nat /\ Given /\ MaxIds \in Nat
  BY ApiAssumptions DEF DInv, TInv, TypeOK, ApiTypeOK
<1>1. UNCHANGED <<traccar, vehicleVars>> /\ pc[r] = "idle"
  BY <1>0, VehicleBegins
<1>2. UNCHANGED <<devices, lastId, rows, routing, amiss>>
  BY <1>1 DEF traccar, vehicleVars
<1>3. PICK k \in VehicleJob : Asked(k) /\ Moves(r, First(k), k)
  BY <1>0, VehicleBegins
<1>4. k.vehicle \in Vehicles /\ First(k) \in {"check", "save", "uncache"}
  BY DEF VehicleJob, First
<1>5. PICK v \in Vehicles, label \in {"check", "save", "uncache"} : v = k.vehicle /\ label = First(k)
  BY <1>4
<1>6. Acts(r, v, label, k) /\ ~Works(r, v)
  <2>1. \A u \in Vehicles : ~Works(r, u)
    BY <1>1 DEF Works, Running
  <2> QED BY <1>3, <1>5, <2>1 DEF Acts
<1>7. ASSUME NEW d \in Ids, Holds(v, d)' PROVE Holds(v, d) /\ d <= lastId'
  <2>1. k.old.device = rows[v].device /\ k.new.device \in {0, k.old.device} /\ d # 0
    BY <1>0, <1>3, <1>5 DEF Asked, KeptDevice, Ids
  <2>2. \/ rows[v].device = d
        \/ \E q \in Requests : Works(q, v)' /\ (job'[q].old.device = d \/ job'[q].new.device = d)
    BY <1>2, <1>7 DEF Holds
  <2>3. ASSUME NEW q \in Requests, Works(q, v)', job'[q].old.device = d \/ job'[q].new.device = d
        PROVE  Holds(v, d)
    <3>1. CASE q = r
      <4>1. job'[q] = k
        BY <1>6, <3>1, ActsFacts
      <4> QED BY <2>1, <2>3, <4>1 DEF Holds
    <3>2. CASE q # r
      <4>1. Works(q, v) /\ job'[q] = job[q]
        BY <1>6, <2>3, <3>2, ActsFacts
      <4> QED BY <2>3, <4>1 DEF Holds
    <3> QED BY <3>1, <3>2
  <2>4. Holds(v, d)
    BY <2>2, <2>3 DEF Holds
  <2> QED BY <1>0, <1>2, <2>4 DEF Given
<1>8. Shape(label, k) /\ ~Half(label, k) /\ (Agree(v) => Stage(label, k))
  BY <1>3, <1>5, AskedShape DEF DInv
<1>9. ASSUME v \notin amiss, Settled(v) PROVE Stage(label, k)'
  <2>1. Stage(label, k)
    BY <1>8, <1>9 DEF DInv, Fair
  <2> QED BY <1>2, <2>1, StageGrows
<1>10. devices \subseteq devices' /\ lastId <= lastId'
  BY <1>0, <1>2
<1> QED BY <1>2, <1>6, <1>7, <1>8, <1>9, <1>10, Looking

\* The identifier is taken: the row is saved with the device it had.
LEMMA TakenOver ==
  ASSUME NEW label \in {"check", "create"}, NEW j, Shape(label, j),
         j.op = "STATUS" \/ Reactivates(j)
  PROVE  /\ Shape("save", j) /\ Reactivates(j) /\ ~Half("save", j)
         /\ j.op = "STATUS" => j.new.imei = j.old.imei
         /\ Stage(label, j) => Stage("save", j)
<1>1. j.op = "STATUS" => ~Retires(j) /\ j.new.imei = j.old.imei
  BY DEF Shape
<1>2. Reactivates(j) /\ ~Retires(j) /\ j.new.imei # NoImei /\ j.new.device = KeptDevice(j)
      /\ j.op # "DELETE" /\ ~DeviceGone(j)
  BY <1>1 DEF Shape, Reactivates, Retires
<1>3. Shape("save", j) /\ ~Half("save", j)
  BY <1>2 DEF Shape, Half
<1>4. ASSUME Stage(label, j) PROVE Stage("save", j)
  <2>1. Ties("save", j)
    BY <1>2, <1>4 DEF Stage, Ties
  <2>2. Sound(j.old) /\ Keys(j.vehicle) = {j.old.device} \ {0}
    BY <1>4 DEF Stage, Effect
  <2>3. Sound(j.new)
    BY <1>2, <2>2, KeptSound DEF Reactivates
  <2>4. j.old.device = j.new.device
    BY <1>2 DEF KeptDevice
  <2>5. Effect("save", j)
    BY <1>2, <2>2, <2>3, <2>4 DEF Effect
  <2> QED BY <2>1, <2>5 DEF Stage
<1> QED BY <1>1, <1>2, <1>3, <1>4

LEMMA DCheck ==
  ASSUME DInv, TInv', NEW r \in Requests, NEW v \in Vehicles, Works(r, v), CheckDevice(r)
  PROVE  DInv'
<1> DEFINE j == job[r]
<1>0. TInv /\ pc[r] = "check"
  BY DEF DInv, CheckDevice
<1>1. Shape("check", j) /\ j.op # "DELETE" /\ ~DeviceGone(j) /\ ~HalfDone(r)
  BY <1>0 DEF DInv, Shape, HalfDone
<1>2. devices \subseteq devices' /\ lastId' = lastId /\ UNCHANGED vehicleVars
  BY DEF CheckDevice, Same, traccar
<1>3. lastId <= lastId' /\ UNCHANGED <<rows, routing, amiss>>
  BY <1>0, <1>2, ApiAssumptions DEF TInv, TypeOK, ApiTypeOK, vehicleVars
<1>4. CASE ~HasDevice(j.new.imei) /\ Goto(r, "create") /\ UNCHANGED job
  <2>1. Shape("create", j) /\ ~Half("create", j)
    BY <1>1 DEF Shape, Half
  <2>2. ASSUME Stage("check", j) PROVE Stage("create", j)
    <3>1. Effect("check", j) /\ Ties("create", j)
      BY <1>1, <2>2 DEF Stage, Ties
    <3>2. j.op = "STATUS" => j.old.device = 0
      <4>1. SUFFICES ASSUME j.op = "STATUS", j.old.device # 0 PROVE FALSE
        OBVIOUS
      <4>2. Reactivates(j) /\ j.new.imei = j.old.imei
        BY <1>1, <4>1, TakenOver
      <4>3. Live(j.old.device, j.old.imei)
        BY <3>1, <4>1, <4>2 DEF Effect, Sound, Reactivates
      <4> QED BY <1>4, <4>2, <4>3 DEF Live, HasDevice
    <3>3. Effect("create", j)
      BY <3>1, <3>2 DEF Effect
    <3> QED BY <3>1, <3>3 DEF Stage
  <2> QED BY <1>0, <1>1, <1>2, <1>3, <1>4, <2>1, <2>2, GoingOn
<1>5. CASE j.op = "STATUS" \/ Reactivates(j)
  <2>1. Shape("save", j) /\ ~Half("save", j) /\ (Stage("check", j) => Stage("save", j))
    BY <1>1, <1>5, TakenOver
  <2>2. Goto(r, "save") /\ UNCHANGED job => DInv'
    BY <1>0, <1>1, <1>2, <1>3, <2>1, GoingOn
  <2>3. Finish(r) => DInv'
    BY <1>1, <1>2, <1>3, Ending
  <2> QED BY <1>4, <2>2, <2>3 DEF CheckDevice, Refused
<1>6. CASE Finish(r)
  BY <1>1, <1>2, <1>3, <1>6, Ending
<1> QED BY <1>4, <1>5, <1>6 DEF CheckDevice, Refused

LEMMA DRegister ==
  ASSUME DInv, TInv', NEW r \in Requests, NEW v \in Vehicles, Works(r, v), Register(r)
  PROVE  DInv'
<1> DEFINE j == job[r]
<1>0. TInv /\ j.vehicle = v /\ pc[r] = "create" /\ lastId \in Nat
  BY ApiAssumptions DEF DInv, Works, Register, TInv, TypeOK, ApiTypeOK
<1>1. Shape("create", j) /\ j.op # "DELETE" /\ ~DeviceGone(j) /\ ~HalfDone(r)
  BY <1>0 DEF DInv, Shape, HalfDone
<1>2. Same \/ CreateDevice(j.new.imei)
  BY DEF Register, Lost
<1>3. devices \subseteq devices' /\ lastId <= lastId' /\ UNCHANGED <<rows, routing, amiss>>
  BY <1>0, <1>2 DEF Register, Same, traccar, CreateDevice, Draw, Fresh, vehicleVars
<1>4. CASE Refused(r)
  <2>1. CASE j.op = "STATUS"
    <3>1. Shape("save", j) /\ ~Half("save", j) /\ (Stage("create", j) => Stage("save", j))
      BY <1>1, <2>1, TakenOver
    <3>2. Goto(r, "save") /\ UNCHANGED job
      BY <1>4, <2>1 DEF Refused
    <3> QED BY <1>0, <1>1, <1>3, <3>1, <3>2, GoingOn
  <2>2. CASE j.op # "STATUS"
    <3>1. Finish(r)
      BY <1>4, <2>2 DEF Refused
    <3> QED BY <1>1, <1>3, <3>1, Ending
  <2> QED BY <2>1, <2>2
<1>5. CASE /\ CreateDevice(j.new.imei)
           /\ job' = [job EXCEPT ![r].new.device = Fresh]
           /\ Goto(r, "save")
  <2>0. PICK i : i = j.new.imei
    OBVIOUS
  <2>1. Fresh \in 0 .. MaxIds /\ Fresh # 0 /\ lastId < Fresh /\ Fresh <= lastId'
        /\ [id |-> Fresh, imei |-> i] \in devices'
    BY <1>0, <1>5, <2>0 DEF CreateDevice, Draw, Fresh, TInv, TypeOK, ApiTypeOK
  <2>2. PICK d \in 0 .. MaxIds : d = Fresh
    BY <2>1
  <2>3. j \in VehicleJob /\ j.new \in Row
    BY <1>0, RowTyped
  <2>4. PICK k \in VehicleJob : /\ k = [j EXCEPT !.new.device = d]
                                /\ k.op = j.op /\ k.vehicle = v /\ k.old = j.old
                                /\ k.new.imei = i /\ k.new.status = j.new.status /\ k.new.device = d
    <3> DEFINE row == [status |-> j.new.status, imei |-> i, device |-> d]
               k == [op |-> j.op, vehicle |-> j.vehicle, old |-> j.old, new |-> row]
    <3>1. row \in Row
      BY <2>0, <2>3 DEF Row
    <3>2. k \in VehicleJob
      BY <2>3, <3>1 DEF VehicleJob
    <3>3. [j.new EXCEPT !.device = d] = row
      BY <2>0, <2>3 DEF Row
    <3>4. [j EXCEPT !.new = row] = k
      BY <2>3 DEF VehicleJob
    <3>5. [j EXCEPT !.new.device = d] = [j EXCEPT !.new = [j.new EXCEPT !.device = d]]
      OBVIOUS
    <3> QED BY <1>0, <3>2, <3>3, <3>4, <3>5
  <2>5. /\ Retires(k) <=> Retires(j)
        /\ Reactivates(k) <=> Reactivates(j)
        /\ DeviceGone(k) <=> DeviceGone(j)
    BY <2>4 DEF Retires, Reactivates, DeviceGone
  <2>6. job' = [job EXCEPT ![r] = k]
    BY <1>5, <2>2, <2>4
  <2>7. Acts(r, v, "save", k)
    <3>1. k \in VehicleJob /\ k.vehicle = v /\ Goto(r, "save")
      BY <1>5, <2>4
    <3> QED BY <2>6, <3>1, WorkActs
  <2>9. j.op = "STATUS" => k.new.status # "BAJA"
    BY <1>1, <2>4, TakenOver DEF Reactivates
  <2>10. Shape("save", k)
    <3>1. /\ i # NoImei /\ (j.op = "CREATE" => j.old = NoRow)
          /\ j.op = "STATUS" => i = IF Retires(j) THEN NoImei ELSE j.old.imei
          /\ j.old.imei = NoImei => j.old.device = 0
      BY <1>1, <2>0 DEF Shape
    <3> HIDE DEF j
    <3> QED BY <1>1, <2>4, <2>5, <2>9, <3>1 DEF Shape
  <2>11. ~Half("save", k)
    BY <1>1, <2>5 DEF Half
  <2>12. ASSUME v \notin amiss, Settled(v) PROVE Stage("save", k)'
    <3>1. Stage("create", j)
      BY <1>0, <2>12 DEF DInv, Fair
    <3>2. rows[v] = k.old /\ k.op # "DELETE"
      BY <1>0, <1>1, <2>4, <3>1 DEF Stage, Ties
    <3>3. Ties("save", k)'
      BY <1>3, <2>4, <3>2 DEF Ties
    <3>4. Keys(v) = {k.old.device} \ {0} /\ Sound(k.old) /\ (k.op = "STATUS" => k.old.device = 0)
      BY <1>0, <2>4, <3>1 DEF Stage, Effect
    <3>5. Sound(k.old)'
      BY <1>3, <3>4, SoundGrows
    <3>6. Sound(k.new)'
      <4>1. There(d)' /\ Live(d, i)'
        BY <2>1, <2>2 DEF There, Live
      <4> QED BY <2>4, <4>1 DEF Sound
    <3>7. Keys(k.vehicle)' = {k.old.device} \ {0}
      BY <1>3, <2>4, <3>4 DEF Keys
    <3>8. Effect("save", k)'
      BY <1>1, <2>5, <3>4, <3>5, <3>6, <3>7 DEF Effect
    <3> QED BY <3>3, <3>8 DEF Stage
  <2>13. \A x \in Ids : Holds(v, x)' => (Holds(v, x) \/ x > lastId) /\ x <= lastId'
    <3>1. k.old.device = j.old.device /\ lastId < k.new.device /\ k.new.device <= lastId'
      BY <2>1, <2>2, <2>4
    <3> QED BY <1>3, <2>7, <3>1, HoldsGrow
  <2> QED BY <1>1, <1>3, <2>7, <2>10, <2>11, <2>12, <2>13, Looking
<1> QED BY <1>4, <1>5 DEF Register

LEMMA DUncache ==
  ASSUME DInv, TInv', NEW r \in Requests, NEW v \in Vehicles, Works(r, v), Uncache(r)
  PROVE  DInv'
<1>0. TInv /\ pc[r] = "uncache" /\ lastId \in Nat /\ VehicleTypeOK
      /\ VehicleTypeOK'
  BY ApiAssumptions DEF DInv, Uncache, TInv, TypeOK, ApiTypeOK
<1>1. PICK k \in VehicleJob : k = job[r] /\ k.vehicle = v
  BY <1>0, RowTyped DEF Works
<1>2. Shape("uncache", k)
  BY <1>0, <1>1 DEF DInv
<1>3. /\ routing' = {l \in routing : l[1] # k.old.device} /\ Goto(r, "drop") /\ UNCHANGED job
      /\ UNCHANGED <<devices, lastId, rows>>
  BY <1>1 DEF Uncache, RemoveState, traccar
<1>4. Acts(r, v, "drop", k)
  BY <1>1, <1>3, WorkActs
<1>5. Holds(v, k.old.device)
  BY <1>1 DEF Holds
<1>6. Frame(v)
  <2>1. lastId <= lastId'
    BY <1>0, <1>3
  <2>2. ASSUME NEW u \in Vehicles \ {v}, NEW d \in Ids, <<d, u>> \in routing
        PROVE  <<d, u>> \in routing' \/ Holds(v, d)
    <3>1. <<d, u>>[1] = d
      OBVIOUS
    <3> QED BY <1>3, <1>5, <2>2, <3>1
  <2>3. Changes(r)
    BY DEF Uncache
  <2> QED BY <1>1, <1>3, <2>1, <2>2, <2>3 DEF Frame, Changes
<1>7. Shape("drop", k)
  BY <1>2 DEF Shape
<1>8. ASSUME Stage("uncache", k) PROVE Stage("drop", k)' /\ (Half("drop", k) \/ Agree(v)')
  <2>1. Keys(v) = {k.old.device} \ {0} /\ Ties("drop", k)'
    BY <1>1, <1>3, <1>8 DEF Stage, Effect, Ties
  <2>2. ASSUME NEW l \in routing, l[2] = v PROVE l[1] = k.old.device
    BY <2>1, <2>2 DEF Keys
  <2>3. Keys(v)' = {}
    BY <1>3, <2>2 DEF Keys
  <2>4. Keys(k.vehicle)' = {}
    BY <1>1, <2>3
  <2>5. Effect("drop", k)'
    BY <2>4 DEF Effect
  <2>6. ASSUME k.op = "DELETE" PROVE Agree(v)'
    <3>1. rows'[v] = k.new /\ k.new.device = 0
      BY <1>1, <1>2, <1>3, <1>8, <2>6 DEF Stage, Ties, Shape
    <3> QED BY <2>3, <3>1 DEF Agree, Sound
  <2> QED BY <2>1, <2>5, <2>6 DEF Stage, Half
<1>9. Changes(r)
  BY DEF Uncache
<1> QED BY <1>0, <1>1, <1>3, <1>4, <1>6, <1>7, <1>8, <1>9, Changing

LEMMA DDrop ==
  ASSUME DInv, TInv', NEW r \in Requests, NEW v \in Vehicles, Works(r, v), Drop(r)
  PROVE  DInv'
<1>0. TInv /\ pc[r] = "drop" /\ lastId \in Nat
  BY ApiAssumptions DEF DInv, Drop, TInv, TypeOK, ApiTypeOK
<1>1. PICK k \in VehicleJob : k = job[r] /\ k.vehicle = v
  BY <1>0, RowTyped DEF Works
<1>2. Shape("drop", k) /\ k.new.device = 0
  BY <1>0, <1>1 DEF DInv, Shape
<1>3. /\ Changes(r) /\ UNCHANGED <<rows, routing>> /\ lastId' = lastId
      /\ \A x \in devices : x \in devices' \/ x.id = k.old.device
  BY <1>1 DEF Drop, Lost, DeleteDevice, Same, traccar, vehicleVars
<1>4. Frame(v)
  <2>1. Holds(v, k.old.device)
    BY <1>1 DEF Holds
  <2> QED BY <1>0, <1>1, <1>3, <2>1 DEF Frame, Changes
<1>5. ASSUME Stage("drop", k) PROVE Keys(v)' = {}
  BY <1>1, <1>3, <1>5 DEF Stage, Effect, Keys
<1>6. CASE k.op = "DELETE"
  <2>1. Acts(r, v, "done", NoJob)
    BY <1>1, <1>6, WorkActs DEF Drop
  <2>2. ASSUME Stage("drop", k) PROVE Agree(v)'
    <3>1. rows'[v].device = 0
      BY <1>1, <1>2, <1>3, <1>6, <2>2 DEF Stage, Ties
    <3> QED BY <1>5, <2>2, <3>1 DEF Agree, Sound
  <2> QED BY <1>0, <1>1, <1>3, <1>4, <2>1, <2>2, Changing
<1>7. CASE k.op # "DELETE"
  <2>1. Goto(r, "save") /\ UNCHANGED job
    BY <1>1, <1>7 DEF Drop
  <2>2. Acts(r, v, "save", k)
    BY <1>1, <2>1, WorkActs
  <2>3. DeviceGone(k) /\ Shape("save", k) /\ Half("save", k)
    BY <1>2, <1>7 DEF Shape, Half
  <2>4. ASSUME Stage("drop", k) PROVE Stage("save", k)'
    <3>1. Ties("save", k)'
      BY <1>3, <1>7, <2>4 DEF Stage, Ties
    <3>2. Keys(k.vehicle)' = {}
      BY <1>1, <1>5, <2>4
    <3>3. Sound(k.new)'
      BY <1>2 DEF Sound
    <3>4. Effect("save", k)'
      BY <2>3, <3>2, <3>3 DEF Effect
    <3> QED BY <3>1, <3>4 DEF Stage
  <2> QED BY <1>0, <1>1, <1>3, <1>4, <2>2, <2>3, <2>4, Changing
<1> QED BY <1>6, <1>7

LEMMA DSave ==
  ASSUME DInv, TInv', NEW r \in Requests, NEW v \in Vehicles, Works(r, v), SaveVehicle(r)
  PROVE  DInv'
<1>0. TInv /\ pc[r] = "save" /\ lastId \in Nat /\ VehicleTypeOK
  BY ApiAssumptions DEF DInv, SaveVehicle, TInv, TypeOK, ApiTypeOK
<1>1. PICK k \in VehicleJob : k = job[r] /\ k.vehicle = v
  BY <1>0, RowTyped DEF Works
<1>2. Shape("save", k)
  BY <1>0, <1>1 DEF DInv
<1>3. UNCHANGED <<devices, lastId, routing>> /\ lastId <= lastId'
  BY <1>0 DEF SaveVehicle, traccar, Same
<1>4. CASE /\ rows' = [rows EXCEPT ![v] = k.new]
           /\ IF Saved(k) = "done" THEN Finish(r) ELSE Goto(r, Saved(k)) /\ UNCHANGED job
           /\ Changes(r)
  <2>1. rows'[v] = k.new /\ \A u \in Vehicles \ {v} : rows'[u] = rows[u]
    BY <1>0, <1>4 DEF VehicleTypeOK
  <2>2. Frame(v)
    BY <1>1, <1>3, <1>4, <2>1 DEF Frame, Changes
  <2>3. CASE k.op = "DELETE" /\ k.old.device = 0
    <3>1. Acts(r, v, "done", NoJob)
      BY <1>1, <1>4, <2>3, WorkActs DEF Saved
    <3>2. ASSUME Stage("save", k) PROVE Agree(v)'
      <4>1. rows'[v].device = 0
        BY <1>2, <2>1, <2>3 DEF Shape
      <4>2. Keys(v)' = {}
        BY <1>1, <1>3, <2>3, <3>2 DEF Stage, Effect, Keys
      <4> QED BY <4>1, <4>2 DEF Agree, Sound
    <3> QED BY <1>0, <1>1, <1>3, <1>4, <2>1, <2>2, <3>1, <3>2, Changing
  <2>4. CASE k.op = "DELETE" /\ k.old.device # 0
    <3>1. Goto(r, "uncache") /\ UNCHANGED job
      BY <1>4, <2>4 DEF Saved
    <3>2. Acts(r, v, "uncache", k)
      BY <1>1, <3>1, WorkActs
    <3>3. Shape("uncache", k) /\ ~DeviceGone(k) /\ Half("uncache", k)
      BY <1>2, <2>4 DEF Shape, DeviceGone, Half
    <3>4. ASSUME Stage("save", k) PROVE Stage("uncache", k)'
      <4>1. Ties("uncache", k)'
        BY <1>1, <2>1, <2>4 DEF Ties
      <4>2. Keys(k.vehicle)' = {k.old.device} \ {0}
        BY <1>3, <3>3, <3>4 DEF Stage, Effect, Keys
      <4>3. Effect("uncache", k)'
        BY <3>3, <4>2 DEF Effect
      <4> QED BY <4>1, <4>3 DEF Stage
    <3> QED BY <1>0, <1>1, <1>3, <1>4, <2>1, <2>2, <3>2, <3>3, <3>4, Changing
  <2>5. CASE k.op # "DELETE"
    <3>1. Goto(r, "cache") /\ UNCHANGED job
      BY <1>4, <2>5 DEF Saved
    <3>2. Acts(r, v, "cache", k)
      BY <1>1, <3>1, WorkActs
    <3>3. Shape("cache", k) /\ Half("cache", k)
      BY <1>2, <2>5 DEF Shape, Half
    <3>4. ASSUME Stage("save", k) PROVE Stage("cache", k)'
      <4>1. Ties("cache", k)'
        BY <1>1, <2>1, <2>5 DEF Ties
      <4>2. Keys(k.vehicle)' = Keys(k.vehicle) /\ (Sound(k.new) => Sound(k.new)')
        BY <1>3 DEF Keys, Sound, There, Live
      <4>3. Effect("cache", k)'
        BY <3>4, <4>2 DEF Stage, Effect
      <4> QED BY <4>1, <4>3 DEF Stage
    <3> QED BY <1>0, <1>1, <1>3, <1>4, <2>1, <2>2, <3>2, <3>3, <3>4, Changing
  <2> QED BY <2>3, <2>4, <2>5
<1>5. CASE Finish(r) /\ UNCHANGED rows /\ amiss' = IF DeviceGone(k) THEN amiss \cup {v} ELSE amiss
  <2>1. v \notin amiss' => ~HalfDone(r)
    BY <1>0, <1>1, <1>5 DEF HalfDone
  <2>2. devices \subseteq devices'
    BY <1>3
  <2> QED BY <1>3, <1>5, <2>1, <2>2, Ending
<1> QED BY <1>1, <1>4, <1>5 DEF SaveVehicle

\* Which keys the cache holds after the last step of a request.
LEMMA DCache ==
  ASSUME DInv, TInv', NEW r \in Requests, NEW v \in Vehicles, Works(r, v), Cache(r)
  PROVE  DInv'
<1>0. /\ TInv /\ pc[r] = "cache" /\ lastId \in Nat
      /\ routing \subseteq (1 .. MaxIds) \X Vehicles /\ routing' \subseteq (1 .. MaxIds) \X Vehicles
  BY ApiAssumptions DEF DInv, Cache, TInv, TypeOK, ApiTypeOK, VehicleTypeOK
<1>1. PICK k \in VehicleJob : k = job[r] /\ k.vehicle = v
  BY <1>0, RowTyped DEF Works
<1>2. Shape("cache", k)
  BY <1>0, <1>1 DEF DInv
<1>3. UNCHANGED <<devices, lastId, rows>> /\ lastId <= lastId' /\ Finish(r) /\ Changes(r)
  BY <1>0 DEF Cache, traccar
<1> DEFINE old == k.old.device
           new == k.new.device
<1>4. ASSUME NEW d, NEW u
      PROVE  <<d, u>> \in routing' <=>
               \/ Shows(k) /\ d = new /\ u = v
               \/ <<d, u>> \in routing /\ d \notin Stale(k) /\ (Shows(k) => d # new)
  <2>1. routing' = IF Shows(k) THEN SetState({l \in routing : l[1] \notin Stale(k)}, new, v)
                   ELSE {l \in routing : l[1] \notin Stale(k)}
    BY <1>1 DEF Cache
  <2>2. <<d, u>>[1] = d
    OBVIOUS
  <2>3. <<d, u>> = <<new, v>> <=> d = new /\ u = v
    OBVIOUS
  <2> HIDE DEF new
  <2> QED BY <2>1, <2>2, <2>3 DEF SetState
<1>5. Stale(k) \subseteq {old} /\ (k.op = "UPDATE" => Stale(k) = {old} \ {new})
      /\ (k.op # "UPDATE" => Stale(k) = {})
  BY DEF Stale
<1>6. Holds(v, old) /\ Holds(v, new)
  BY <1>1 DEF Holds
<1>7. Frame(v)
  <2> HIDE DEF old, new
  <2>1. ASSUME NEW u \in Vehicles \ {v}, NEW d \in Ids
        PROVE  /\ <<d, u>> \in routing' => <<d, u>> \in routing
               /\ <<d, u>> \in routing => <<d, u>> \in routing' \/ Holds(v, d)
    BY <1>4, <1>5, <1>6
  <2> QED BY <1>1, <1>3, <2>1 DEF Frame, Changes
<1>8. Acts(r, v, "done", NoJob)
  BY <1>3, WorkActs
<1>9. ASSUME Stage("cache", k) PROVE Keys(v)' = {new} \ {0} /\ Sound(k.new)' /\ rows[v] = k.new
  <2>1. Effect("cache", k) /\ rows[v] = k.new
    BY <1>1, <1>9 DEF Stage, Ties
  <2>2. /\ Keys(v) = IF DeviceGone(k) THEN {} ELSE {old} \ {0}
        /\ Sound(k.new)
        /\ k.op = "STATUS" /\ ~DeviceGone(k) => old \in {0, new}
    BY <1>1, <2>1 DEF Effect
  <2>3. \A d : <<d, v>> \in routing <=> d \in Keys(v)
    BY <1>0, KeyFacts
  <2>4. k.op \in {"CREATE", "UPDATE", "STATUS"}
    BY <1>2 DEF Shape, VehicleJob, VehicleOps
  <2>5. k.op = "CREATE" => old = 0 /\ ~DeviceGone(k) /\ (Shows(k) <=> new # 0)
    BY <1>2 DEF Shape, NoRow, DeviceGone, Shows
  <2>6. DeviceGone(k) => new = 0 /\ ~Shows(k)
    BY <1>2 DEF Shape, Shows
  <2>7. k.op = "UPDATE" => (Shows(k) <=> new # 0)
    BY DEF Shows
  <2>8. k.op = "STATUS" /\ ~DeviceGone(k) =>
           old \in {0, new} /\ (Shows(k) <=> new # 0 /\ k.new.status # "BAJA")
           /\ (k.new.status = "BAJA" => new = old)
    <3>1. SUFFICES ASSUME k.op = "STATUS", ~DeviceGone(k), k.new.status = "BAJA" PROVE new = old
      BY <2>2 DEF Shows
    <3>2. new = KeptDevice(k) /\ (k.new.imei = IF Retires(k) THEN NoImei ELSE k.old.imei)
          /\ (k.old.imei = NoImei => old = 0)
      BY <1>2, <3>1 DEF Shape
    <3>3. Retires(k) => old = 0
      BY <3>1 DEF DeviceGone
    <3> QED BY <3>2, <3>3 DEF KeptDevice
  <2>9. \A d : <<d, v>> \in routing' <=> d = new /\ d # 0
    <3> HIDE DEF old, new
    <3>1. CASE k.op = "CREATE"
      BY <1>4, <1>5, <2>2, <2>3, <2>5, <3>1
    <3>2. CASE DeviceGone(k)
      BY <1>4, <2>2, <2>3, <2>6, <3>2
    <3>3. CASE k.op = "UPDATE" /\ ~DeviceGone(k)
      BY <1>4, <1>5, <2>2, <2>3, <2>7, <3>3
    <3>4. CASE k.op = "STATUS" /\ ~DeviceGone(k)
      BY <1>4, <1>5, <2>2, <2>3, <2>8, <3>4
    <3> QED BY <2>4, <3>1, <3>2, <3>3, <3>4
  <2>10. \A l \in routing' : l = <<l[1], l[2]>>
    BY <1>0
  <2>11. Keys(v)' = {new} \ {0}
    <3> HIDE DEF new
    <3>1. ASSUME NEW d, d \in Keys(v)' PROVE d = new /\ d # 0
      <4>1. PICK l \in routing' : l[1] = d /\ l[2] = v
        BY <3>1 DEF Keys
      <4> QED BY <2>9, <2>10, <4>1
    <3>2. ASSUME new # 0 PROVE new \in Keys(v)'
      <4>1. <<new, v>> \in routing' /\ <<new, v>>[1] = new /\ <<new, v>>[2] = v
        BY <2>9, <3>2
      <4> QED BY <4>1 DEF Keys
    <3> QED BY <3>1, <3>2
  <2>12. Sound(k.new)'
    BY <1>3, <2>2 DEF Sound, There, Live
  <2> QED BY <2>1, <2>11, <2>12
<1>10. Stage("cache", k) => Agree(v)'
  BY <1>3, <1>9 DEF Agree, Sound
<1> QED BY <1>0, <1>1, <1>3, <1>7, <1>8, <1>10, Changing

LEMMA DCutOff ==
  ASSUME DInv, TInv', NEW r \in Requests, NEW v \in Vehicles, Works(r, v), CutOffVehicle(r)
  PROVE  DInv'
<1>1. lastId \in Nat /\ job[r].vehicle = v
  BY DEF DInv, TInv, TypeOK, ApiTypeOK, Works
<1>2. /\ UNCHANGED <<devices, lastId, rows, routing>> /\ Finish(r)
      /\ amiss' = IF HalfDone(r) THEN amiss \cup {v} ELSE amiss
  BY <1>1 DEF CutOffVehicle, traccar
<1>3. devices \subseteq devices' /\ lastId <= lastId'
  BY <1>1, <1>2
<1> QED BY <1>2, <1>3, Ending

-----------------------------------------------------------------------------
LEMMA DInit == Init => DInv
<1> SUFFICES ASSUME Init PROVE DInv
  OBVIOUS
<1>1. TInv /\ lastId = 0 /\ routing = {} /\ \A r \in Requests : pc[r] = "idle"
  BY TypeInit DEF Init, ApiInit, VehicleInit
<1>2. \A v \in Vehicles : rows[v] = NoRow
  BY DEF Init, VehicleInit
<1>3. \A r, v : ~Works(r, v)
  BY <1>1 DEF Works, Running
<1>4. \A v \in Vehicles, d \in Ids : ~Holds(v, d)
  BY <1>1, <1>2, <1>3 DEF Holds, NoRow, Ids
<1>5. ASSUME NEW v \in Vehicles PROVE RowSound(v) /\ Fair(v)
  <2>1. Agree(v) /\ RowSound(v)
    BY <1>1, <1>2 DEF Agree, RowSound, Keys, Sound, NoRow
  <2> QED BY <1>3, <2>1 DEF Fair
<1> QED BY <1>1, <1>3, <1>4, <1>5 DEF DInv, Unshared, Given

LEMMA DNext == DInv /\ [Next]_vars => DInv'
<1> SUFFICES ASSUME DInv, [Next]_vars PROVE DInv'
  OBVIOUS
<1>0. TInv /\ JobsTyped /\ TInv' /\ lastId \in Nat
  BY TypeNext, ApiAssumptions DEF DInv, TInv, TypeOK, ApiTypeOK
<1>1. CASE UNCHANGED vars
  <2>1. UNCHANGED <<devices, lastId, rows, routing, amiss, pc, job>>
    BY <1>1 DEF vars, apiVars, traccar, vehicleVars
  <2>2. lastId <= lastId'
    BY <1>0, <2>1
  <2>3. \A q \in Requests, u \in Vehicles : Works(q, u)' <=> Works(q, u)
    BY <2>1 DEF Works, Running, IsVehicleJob
  <2> QED BY <1>0, <2>1, <2>2, <2>3, Untouched
<1>2. ASSUME NEW r \in Requests, VehicleStep(r) PROVE DInv'
  <2>1. job[r] \in VehicleJob
    BY <1>0, <1>2, WorkTyped DEF VehicleStep
  <2>2. PICK v \in Vehicles : Works(r, v)
    BY <1>2, <2>1 DEF VehicleStep, Works, Running, VehicleJob
  <2> QED BY <1>0, <1>2, <2>2, DCheck, DRegister, DUncache, DDrop, DSave, DCache, DCutOff
          DEF VehicleStep
<1> QED BY <1>0, <1>1, <1>2, DBegin, DRoute, Steps

\* A vehicle no request is half way through has a device that Traccar knows, or none,
\* however many requests are under way, for it too, and whichever calls and saves fail
\* (the unshared device is the reason: deleteDevice hits one's own); but for a vehicle
\* whose retirement failed before its save, or that one request changed while another
\* was under way.
THEOREM DevicesAreLive == Spec => []DevicesLive
<1>1. DInv => DevicesLive
  BY DEF DInv, DevicesLive, Fair, Agree, Sound, There
<1> QED BY <1>1, DInit, DNext, PTL DEF Spec

\* The cache routes to such a vehicle exactly the device its row names
\* (setVehicleState and removeVehicleState at the end of each handler).
THEOREM RoutingIsTrue == Spec => []RoutingFollowsRows
<1>1. DInv => RoutingFollowsRows
  BY DEF DInv, RoutingFollowsRows, Fair, Agree, Keys
<1> QED BY <1>1, DInit, DNext, PTL DEF Spec
=============================================================================
