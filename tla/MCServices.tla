---------------------------- MODULE MCServices ----------------------------
(***************************************************************************)
(* The components that share no state with one another, in one model for   *)
(* TLC.  Steps of components without common variables commute, so that it  *)
(* is enough to run each of them alone: "active" says which one.           *)
(***************************************************************************)
EXTENDS AuditLog, Ipc, VIrq, Stage2, SchedStats, Pmu, Boot, Seal, Vehicle,
        Audio, Calls, Devices, Context, Hmac, Dtb

VARIABLE active

\* The virtio interrupts platform_init routes to Linux.
LinuxRoutes == [p \in {34} |-> [vm_id |-> 1, virq |-> p]]

Region(ipa, n, pa, flags) == [ipa |-> ipa, n |-> n, pa |-> pa, flags |-> flags]

\* Two VMs with RAM at 0, which for the first runs into the next table and under
\* its device page, and a device page of the same physical address.
ProfileRegions == << <<Region(0, 4, 10, {"X"}), Region(2, 1, 90, {"IO"})>>,
                     <<Region(0, 2, 20, {"X"}), Region(5, 1, 90, {"IO"})>> >>
\* Who shares with whom: the two VMs, and each with itself.
SharePairs == {<<1, 2>>, <<1, 1>>, <<2, 2>>}

LinuxPage == << <<Region(1, 1, 11, {"X"})>>, << >> >>

\* VM 2 has two vCPUs.
StatSlots == <<1, 2, 2>>
StatSlices == <<4, 2>>

ipcvars == <<queues, got>>

Parts == {"log", "ipc", "virq", "space", "stats", "pmu", "boot", "seal",
          "vehicle", "audio", "calls", "devices", "context", "hmac", "dtb"}

\* Choices in the initial states are only made for the active component.
ServicesInit ==
    /\ active \in Parts
    /\ ids_init /\ ipc_init /\ Stage2Init /\ VehicleInit /\ AudioInit /\ CallsInit
    /\ ContextInit /\ (active # "context" => running = 1)
    /\ HmacModuleInit /\ DtbInit
    /\ VIrqInit /\ (active # "virq" => core = Linux)
    /\ StatsInit /\ (active # "stats" => onCore = CHOOSE v \in StatVms : TRUE)
    /\ PmuInit /\ (active # "pmu" => /\ pmucur = CHOOSE v \in PmuVcpus : TRUE
                                     /\ hw.cnten = {} /\ hw.type = 0)
    /\ BootInit /\ (active # "boot" => image = CHOOSE i \in Images : TRUE)
    /\ SealModuleInit /\ (active # "seal" => plat = CHOOSE p \in [config : Configs, key : {"fuse"}] : TRUE)
    /\ DevicesInit /\ (active # "devices" => smmuHw = [base |-> 0, acks |-> 0])

\* Every component but the active one stays as it is.
Frame ==
    /\ UNCHANGED active
    /\ IF active = "log" THEN TRUE ELSE UNCHANGED lvars
    /\ IF active = "ipc" THEN TRUE ELSE UNCHANGED ipcvars
    /\ IF active = "virq" THEN TRUE ELSE UNCHANGED virqvars
    /\ IF active = "space" THEN TRUE ELSE UNCHANGED s2vars
    /\ IF active = "stats" THEN TRUE ELSE UNCHANGED statvars
    /\ IF active = "pmu" THEN TRUE ELSE UNCHANGED pmuvars
    /\ IF active = "boot" THEN TRUE ELSE UNCHANGED bootvars
    /\ IF active = "seal" THEN TRUE ELSE UNCHANGED sealvars
    /\ IF active = "vehicle" THEN TRUE ELSE UNCHANGED vehvars
    /\ IF active = "audio" THEN TRUE ELSE UNCHANGED audiovars
    /\ IF active = "calls" THEN TRUE ELSE UNCHANGED callvars
    /\ IF active = "devices" THEN TRUE ELSE UNCHANGED devvars
    /\ IF active = "context" THEN TRUE ELSE UNCHANGED cvars
    /\ IF active = "hmac" THEN TRUE ELSE UNCHANGED mac
    /\ IF active = "dtb" THEN TRUE ELSE UNCHANGED dtbvars

Alone(c) == active = c /\ Frame

ServicesNext ==
    \/ Alone("log") /\ LogNext
    \/ Alone("ipc") /\ IpcNext
    \/ Alone("virq") /\ VIrqNext
    \/ Alone("space") /\ Stage2Next
    \/ Alone("stats") /\ StatsNext
    \/ Alone("pmu") /\ PmuNext
    \/ Alone("boot") /\ BootNext
    \/ Alone("seal") /\ SealNext
    \/ Alone("vehicle") /\ VehicleNext
    \/ Alone("audio") /\ AudioNext
    \/ Alone("calls") /\ CallsNext
    \/ Alone("devices") /\ DevicesNext
    \/ Alone("context") /\ ContextNext
    \/ Alone("hmac") /\ HmacNext
    \/ Alone("dtb") /\ DtbNext

allvars == <<active, lvars, ipcvars, virqvars, s2vars, statvars, pmuvars, bootvars,
             sealvars, vehvars, audiovars, callvars, devvars, cvars, mac, dtbvars>>

ServicesSpec == ServicesInit /\ [][ServicesNext]_allvars
---------------------------------------------------------------------------
\* The state of every component is well formed: indices within their buffers,
\* page tables that are trees, counters within their fields.  A component that is
\* not active is in an initial state.
ServicesTypeOK ==
    CASE active = "log" -> LogTypeOK
      [] active = "ipc" -> IpcTypeOK
      [] active = "virq" -> VIrqTypeOK
      [] active = "space" -> Stage2TypeOK
      [] active = "stats" -> StatsTypeOK
      [] active = "pmu" -> PmuTypeOK
      [] active = "boot" -> BootTypeOK
      [] active = "seal" -> SealTypeOK
      [] active = "vehicle" -> VehicleTypeOK
      [] active = "audio" -> AudioTypeOK
      [] active = "calls" -> CallsTypeOK
      [] active = "devices" -> DevicesTypeOK
      [] active = "context" -> ContextTypeOK
      [] active = "hmac" -> HmacTypeOK
      [] active = "dtb" -> DtbTypeOK
===========================================================================
