------------------------------ MODULE Vehicle ------------------------------
(***************************************************************************)
(* The path of the engine data: the fuel ECU of the RTOS guest             *)
(* (guests/rtos/rtos.c) reports to the hypervisor with HVC_FUEL_UPDATE, the*)
(* hypervisor (guest/hypercall/hvc_drivers.c) keeps the state, answers     *)
(* HVC_OBD_READ_ALL and HVC_OBD_READ_PID and copies it to a page that the  *)
(* diagnosis application of the Linux guest (guests/linux_app/obd_app.c)   *)
(* reads field by field.                                                   *)
(*                                                                         *)
(* A hypercall is one step; the application may be preempted between any   *)
(* two reads.  A register is the sequence of its lanes, lowest first.      *)
(***************************************************************************)
EXTENDS Integers, Sequences, Bitwise

CONSTANTS InjWidth,     \* bits left for the injection count in x2 (24)
          MaxUpdates,   \* bound on the number of updates
          MaxRestarts   \* bound on failovers of the RTOS

VARIABLES ecu,     \* the globals of rtos.c
          fuel,    \* g_fuel
          page,    \* the page at OBD_SHMEM_PA
          obd,     \* the application: next read, seq, last_seq
          sent,    \* ghost: what the ECU meant by its last update
          count,   \* ghost: number of updates
          failed   \* ghost: number of failovers

vehvars == <<ecu, fuel, page, obd, sent, count, failed>>

EcuBoot == [rpm |-> 800, target |-> 800, coolant |-> 20, throttle |-> 5, inj |-> 0, seq |-> 0,
            cyl3 |-> TRUE, drive |-> "IDLE", tick |-> 0, iter |-> 0]

\* The phase that follows, and its target and throttle.
NextPhase == [IDLE   |-> [drive |-> "ACCEL", target |-> 3200, throttle |-> 45],
              ACCEL  |-> [drive |-> "CRUISE", target |-> 2800, throttle |-> 30],
              CRUISE |-> [drive |-> "DECEL", target |-> 1200, throttle |-> 10],
              DECEL  |-> [drive |-> "IDLE", target |-> 800, throttle |-> 5]]

update_drive_cycle(e) ==
    IF e.tick + 1 < 5 THEN [e EXCEPT !.tick = @ + 1]
    ELSE LET n == NextPhase[e.drive]
         IN  [e EXCEPT !.tick = 0, !.drive = n.drive, !.target = n.target, !.throttle = n.throttle]

\* The revolutions move towards the target by at most 200.
Ramp(rpm, target) ==
    IF rpm < target THEN (IF rpm + 200 > target THEN target ELSE rpm + 200)
    ELSE IF rpm > target THEN (IF rpm - 200 < target THEN target ELSE rpm - 200)
    ELSE rpm

Warm(c) == IF c < 95 THEN c + 2 ELSE c

update_engine(e) ==
    LET r == Ramp(e.rpm, e.target)
        c == Warm(e.coolant)
    IN  [e EXCEPT !.rpm = r, !.coolant = c, !.inj = @ + (r * 8) \div 600,
                  !.cyl3 = ~(c < 40 /\ r > 2000)]

calc_injection_us(e) ==
    LET base == 800 + e.throttle * 68
    IN  IF e.coolant < 60 THEN (base * 120) \div 100 ELSE base

\* vals[1] | vals[2] << width[1] | ...: what does not fit in a lane is or-ed
\* into the next one.
Lanes(vals, width) ==
    [i \in 1 .. Len(vals) |->
        (IF i = 1 THEN vals[1] ELSE vals[i] | (vals[i - 1] \div 2 ^ width[i - 1])) % 2 ^ width[i]]

CylBits(e) == IF e.cyl3 THEN 15 ELSE 11
FaultCode(e) == IF e.cyl3 THEN 0 ELSE 768
MapKpa(e) == 35 + (e.throttle * 65) \div 100

NextSeq(e) == [e EXCEPT !.seq = @ + 1]

\* The registers fuel_hvc_update loads, with g_seq already incremented.
FuelRegs(e) ==
    [x1 |-> Lanes(<<e.rpm, calc_injection_us(e), e.coolant, e.throttle>>, <<16, 16, 16, 16>>),
     x2 |-> Lanes(<<CylBits(e), e.inj, FaultCode(e)>>, <<8, InjWidth, 16>>),
     x3 |-> <<e.seq, 98 + (e.rpm % 6)>>,
     x4 |-> MapKpa(e)]

\* Mutant: the fault code is taken from the lane of the injection count.
Decoded_low_lane(x) ==
    [rpm |-> x.x1[1], injection_us |-> x.x1[2], coolant_c |-> x.x1[3], throttle_pct |-> x.x1[4],
     cyl_status |-> x.x2[1] % 16, inj_count |-> x.x2[2], fault_code |-> x.x2[2],
     seq |-> x.x3[1], lambda |-> x.x3[2], map_kpa |-> x.x4, valid |-> TRUE]

Decoded(x) ==
    [rpm |-> x.x1[1], injection_us |-> x.x1[2], coolant_c |-> x.x1[3], throttle_pct |-> x.x1[4],
     cyl_status |-> x.x2[1] % 16, inj_count |-> x.x2[2], fault_code |-> x.x2[3],
     seq |-> x.x3[1], lambda |-> x.x3[2], map_kpa |-> x.x4, valid |-> TRUE]

Dtc(g) == IF g.fault_code # 0 THEN 1 ELSE 0

\* hvc_fuel_update: the state, and the page for Linux.
hvc_fuel_update(x) ==
    LET g == Decoded(x)
    IN  /\ fuel' = g
        /\ page' = [magic |-> TRUE, rpm |-> g.rpm, speed_kmh |-> g.rpm \div 37,
                    coolant_c |-> g.coolant_c, throttle_pct |-> g.throttle_pct,
                    map_kpa |-> g.map_kpa, dtc_count |-> Dtc(g), dtc_code |-> g.fault_code,
                    seq |-> g.seq, cyl_status |-> g.cyl_status, inj_count |-> g.inj_count]

---------------------------------------------------------------------------
ZeroFuel == [rpm |-> 0, injection_us |-> 0, coolant_c |-> 0, throttle_pct |-> 0, cyl_status |-> 0,
             inj_count |-> 0, fault_code |-> 0, seq |-> 0, lambda |-> 0, map_kpa |-> 0,
             valid |-> FALSE]

\* What HVC_OBD_READ_ALL and HVC_FUEL_GET_STATE put in x1 to x3.
hvc_obd_read_all ==
    LET speed == fuel.rpm \div 37
        o2 == IF fuel.lambda >= 100 THEN 450 + (fuel.lambda - 100) * 3
              ELSE 450 - (100 - fuel.lambda) * 5
    IN  IF ~fuel.valid THEN [x1 |-> <<0, 0, 0, 0>>, x2 |-> <<0, 0, 0, 0>>, x3 |-> 0]
        ELSE [x1 |-> Lanes(<<fuel.rpm, IF speed > 250 THEN 250 ELSE speed, fuel.coolant_c,
                             fuel.throttle_pct>>, <<16, 16, 16, 16>>),
              x2 |-> Lanes(<<fuel.map_kpa, o2, Dtc(fuel), fuel.fault_code>>, <<16, 16, 16, 16>>),
              x3 |-> fuel.seq]

NotSupported == -1

hvc_obd_read_pid(pid) ==
    IF ~fuel.valid THEN NotSupported
    ELSE CASE pid = "rpm" -> fuel.rpm          [] pid = "speed" -> fuel.rpm \div 37
           [] pid = "coolant" -> fuel.coolant_c [] pid = "throttle" -> fuel.throttle_pct
           [] pid = "map" -> fuel.map_kpa       [] pid = "dtc" -> Dtc(fuel)
           [] OTHER -> NotSupported
---------------------------------------------------------------------------
VehicleInit ==
    /\ ecu = EcuBoot /\ fuel = ZeroFuel
    /\ page = [magic |-> FALSE, rpm |-> 0, speed_kmh |-> 0, coolant_c |-> 0, throttle_pct |-> 0,
               map_kpa |-> 0, dtc_count |-> 0, dtc_code |-> 0, seq |-> 0, cyl_status |-> 0,
               inj_count |-> 0]
    /\ obd = [next |-> "magic", seq |-> 0, last |-> 0, at |-> 0, lastAt |-> 0]
    /\ sent = EcuBoot /\ count = 0 /\ failed = 0

\* One turn of the loop in rtos_main; every fifth reports and waits.
EcuStep ==
    LET e == update_engine([ecu EXCEPT !.iter = (@ + 1) % 5])
    IN  /\ count < MaxUpdates
        /\ IF e.iter # 0
           THEN ecu' = e /\ UNCHANGED <<fuel, page, sent, count>>
           ELSE LET d == NextSeq(update_drive_cycle(e))
                IN  /\ ecu' = d /\ sent' = d /\ count' = count + 1
                    /\ hvc_fuel_update(FuelRegs(d))
        /\ UNCHANGED <<obd, failed>>

\* A failover restores the image of the RTOS and starts it again; the
\* hypervisor's copy and the page stay.
EcuRestart ==
    /\ failed < MaxRestarts
    /\ failed' = failed + 1 /\ ecu' = EcuBoot
    /\ UNCHANGED <<fuel, page, obd, sent, count>>

\* The application's loop: the magic, seq, the other fields one by one (a
\* single step stands for any of them), and the verdict on seq.
ObdMagic ==
    /\ obd.next = "magic" /\ page.magic
    /\ obd' = [obd EXCEPT !.next = "seq"]
    /\ UNCHANGED <<ecu, fuel, page, sent, count, failed>>

ObdSeq ==
    /\ obd.next = "seq"
    /\ obd' = [obd EXCEPT !.next = "data", !.seq = page.seq, !.at = count]
    /\ UNCHANGED <<ecu, fuel, page, sent, count, failed>>

ObdVerdict ==
    /\ obd.next = "data"
    /\ obd' = [obd EXCEPT !.next = "magic", !.last = obd.seq, !.lastAt = obd.at]
    /\ UNCHANGED <<ecu, fuel, page, sent, count, failed>>

\* The bound on updates ends the model, not the program.
VehicleDone == count = MaxUpdates /\ UNCHANGED vehvars

VehicleNext == EcuStep \/ EcuRestart \/ ObdMagic \/ ObdSeq \/ ObdVerdict \/ VehicleDone

VehicleSpec == VehicleInit /\ [][VehicleNext]_vehvars
---------------------------------------------------------------------------
Pids == {"rpm", "speed", "coolant", "throttle", "map", "dtc"}

\* The ranges of the simulation; its misfire branch needs a cold engine at high
\* speed, which the drive cycle never reaches (update_engine).
VehicleTypeOK ==
    /\ ecu.rpm \in 800 .. 3200 /\ ecu.coolant \in 20 .. 96 /\ ecu.throttle \in 5 .. 45
    /\ ecu.cyl3 /\ ecu.tick \in 0 .. 4 /\ ecu.iter \in 0 .. 4
    /\ fuel.valid = page.magic
    /\ fuel.valid => fuel.seq \in 1 .. MaxUpdates

\* The shared page, HVC_OBD_READ_ALL and HVC_OBD_READ_PID against the last update.
SeesLastUpdate ==
    LET a == hvc_obd_read_all
        one(pid) == hvc_obd_read_pid(pid)
    IN  IF ~fuel.valid THEN a.x3 = 0 /\ \A pid \in Pids : one(pid) = NotSupported
        ELSE /\ fuel.rpm = sent.rpm /\ fuel.injection_us = calc_injection_us(sent)
             /\ fuel.coolant_c = sent.coolant /\ fuel.throttle_pct = sent.throttle
             /\ fuel.map_kpa = MapKpa(sent) /\ fuel.seq = sent.seq
             /\ fuel.cyl_status = CylBits(sent)
             /\ sent.inj < 2 ^ InjWidth => fuel.fault_code = FaultCode(sent)
             /\ <<one("rpm"), one("speed"), one("coolant"), one("throttle")>> = a.x1
             /\ <<one("map"), one("dtc")>> = <<a.x2[1], a.x2[3]>>
             /\ <<page.rpm, page.speed_kmh, page.coolant_c, page.throttle_pct>> = a.x1
             /\ page.map_kpa = a.x2[1] /\ page.dtc_count = a.x2[3] /\ page.dtc_code = a.x2[4]
             /\ page.seq = a.x3

\* A round that calls the data stale read seq twice with no update in between,
\* unless the ECU was restarted and counts again from one.
VerdictIsTruthful ==
    (obd.next = "data" /\ obd.seq = obd.last /\ failed = 0) => obd.at = obd.lastAt

\* What Linux sees is what the ECU meant by its last update, along all three ways
\* it has: no lane of the registers disturbs another in any phase of the drive
\* cycle or after a failover, and as long as the injection count fits in its lane
\* a trouble code is shown exactly when the ECU reported one (fuel_hvc_update,
\* hvc_fuel_update, hvc_obd_read_all, hvc_obd_read_pid).  When the application
\* calls the data stale, the ECU really sent nothing meanwhile (obd_app.c).
LinuxSeesLastUpdate == SeesLastUpdate /\ VerdictIsTruthful
============================================================================
