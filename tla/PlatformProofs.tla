--------------------------- MODULE PlatformProofs ---------------------------
(***************************************************************************)
(* Proofs about what the hypervisor does before and around its guests: the *)
(* order of the boot, sealed data, device faults and the audio reports,    *)
(* for any number of VMs, components, attempts, regions and slices.        *)
(***************************************************************************)
EXTENDS Boot, Seal, Devices, Audio, NatLemmas, FiniteSetTheorems, SequenceTheorems, TLAPS

\* The phases of hyp_main in their order, and those before and after a check.
BeforeVms == {"pal", "config", "component", "gic", "vms"}
AfterVms == {"ipc", "stats", "trust", "seal", "fault", "ids", "failover", "totp", "login",
             "sched", "run"}
AfterComponents == {"gic", "vms"} \union AfterVms
AfterConfig == {"component"} \union AfterComponents

\* The services a phase comes after.
Before(p) ==
    CASE p = "ipc" -> {"gic", "pmu"}
      [] p = "stats" -> {"gic", "pmu", "ipc"}
      [] p = "trust" -> {"gic", "pmu", "ipc", "stats"}
      [] p \in {"seal", "fault"} -> {"gic", "pmu", "ipc", "stats", "trust"}
      [] p = "ids" -> {"gic", "pmu", "ipc", "stats", "trust", "fault"}
      [] p = "failover" -> {"gic", "pmu", "ipc", "stats", "trust", "fault", "ids"}
      [] p \in {"totp", "login", "sched", "run"} ->
           {"gic", "pmu", "ipc", "stats", "trust", "fault", "ids", "failover"}
      [] OTHER -> IF p = "vms" THEN {"gic", "pmu"} ELSE {}

ConfigVerified == image.config = "golden" /\ keys["config"] = "fuse"

ComponentsVerified ==
    \A c \in Components :
        image.provisioned[c] => image.comp[c] = "golden" /\ keys["component"] = "fuse"

\* What each check has established is kept until the phases that rely on it.
BootInv ==
    /\ BootTypeOK /\ NoVmUnlessVerified
    /\ pc \in BeforeVms => \A v \in BootVms : guests[v] = "NONE"
    /\ pc \in AfterVms => \A v \in BootVms : guests[v] = "RUNNING"
    /\ pc \in AfterConfig => ConfigVerified
    /\ pc \in AfterComponents => ComponentsVerified
    /\ Before(pc) \subseteq ready
    /\ pc # "panic" => tries < MaxTries
    /\ pc \in {"sched", "run"} => entered.pw /\ entered.step - entered.at \in {-1, 0, 1}

\* The hypervisor's checks come before the VMs, and what they established is
\* kept: each call of hyp_main finds what the calls before it left (main.c).
THEOREM BootInvHolds == BootSpec => []BootInv
<1>1. BootInit => BootInv
  <2> SUFFICES ASSUME BootInit PROVE BootInv
    OBVIOUS
  <2>1. secret \in BOOLEAN
    BY ZenonT(40) DEF BootInit
  <2>2. BootTypeOK
    BY <2>1, BootAssumption DEF BootInit, BootTypeOK, Phases, FuseRead
  <2>3. Before(pc) \subseteq ready
    BY SMTT(40) DEF BootInit, Before
  <2> QED
    BY <2>2, <2>3, BootAssumption DEF BootInit, BootInv, NoVmUnlessVerified, BeforeVms, AfterVms,
       AfterConfig, AfterComponents
<1>2. ASSUME BootInv, [BootNext]_bootvars PROVE BootInv'
  <2> USE <1>2, BootAssumption DEF BootInv
  <2> USE DEF BeforeVms, AfterVms, AfterConfig, AfterComponents, ConfigVerified, ComponentsVerified
  <2>1. CASE PalInit
    BY <2>1 DEF PalInit, BootTypeOK, NoVmUnlessVerified, Before, Phases
  <2>2. ASSUME NEW k \in FuseRead, config_check_init(k) PROVE BootInv'
    BY <2>2 DEF config_check_init, BootTypeOK, NoVmUnlessVerified, Before, Phases, Hmac, Golden,
        Checked, FuseRead
  <2>3. ASSUME NEW k \in FuseRead, component_check_init(k) PROVE BootInv'
    BY <2>3, Zenon DEF component_check_init, ComponentOk, BootTypeOK, NoVmUnlessVerified, Before, Phases,
        Hmac, Golden, Checked, FuseRead
  <2>4. ASSUME NEW k \in FuseRead, SealInit(k) PROVE BootInv'
    BY <2>4 DEF SealInit, BootTypeOK, NoVmUnlessVerified, Before, Phases, Checked, FuseRead
  <2>5. ASSUME NEW k \in FuseRead, TotpInit(k) PROVE BootInv'
    BY <2>5 DEF TotpInit, BootTypeOK, NoVmUnlessVerified, Before, Phases
  <2>6. CASE GicAndPmu
    BY <2>6 DEF GicAndPmu, BootTypeOK, NoVmUnlessVerified, Before, Phases
  <2>7. ASSUME NEW n \in 0 .. Cardinality(BootVms), vm_subsys_init(n) PROVE BootInv'
    BY <2>7, FS_CardinalityType DEF vm_subsys_init, BootTypeOK, NoVmUnlessVerified, Before, Phases
  <2>8. CASE StartService
    BY <2>8 DEF StartService, After, BootTypeOK, NoVmUnlessVerified, Before, Phases
  <2>9. CASE trust_init
    BY <2>9, Zenon DEF trust_init, guest_measure_vm, BootTypeOK, NoVmUnlessVerified, Before, Phases, Images
  <2>10. CASE ClockStep
    BY <2>10 DEF ClockStep, BootTypeOK, NoVmUnlessVerified, Before, Phases
  <2>11. ASSUME NEW typed \in BOOLEAN, NEW pepper \in BOOLEAN, NEW code \in 0 .. LastStep + 2,
                NEW steps \in Computed(clock), LoginAttempt(typed, pepper, code, steps)
         PROVE  BootInv'
    <3>1. steps \subseteq {clock - 1, clock, clock + 1}
      BY DEF Computed, Window
    <3> QED
      BY <2>11, <3>1, SMTT(40) DEF LoginAttempt, LastTry, BootTypeOK, NoVmUnlessVerified, Before, Phases
  <2>12. CASE SchedRun
    BY <2>12 DEF SchedRun, BootTypeOK, NoVmUnlessVerified, Before, Phases
  <2>13. CASE UNCHANGED bootvars
    BY <2>13 DEF bootvars, BootTypeOK, NoVmUnlessVerified, Before
  <2> QED
    BY <2>1, <2>2, <2>3, <2>4, <2>5, <2>6, <2>7, <2>8, <2>9, <2>10, <2>11, <2>12, <2>13, SMTT(40)
    DEF BootNext, Ended
<1> QED BY <1>1, <1>2, PTL DEF BootSpec

\* No VM is made before the configuration and every provisioned component were
\* found golden under the fused key (main.c:94, config_check_init,
\* component_check_init), for any set of VMs and components.
THEOREM VmsComeVerified == BootSpec => []NoVmUnlessVerified
<1>1. BootInv => NoVmUnlessVerified
  BY DEF BootInv
<1> QED BY <1>1, BootInvHolds, PTL

\* A guest executes only after a login granted within LOGIN_MAX_TRIES attempts
\* by the password and a fresh code, with every VM started and every service in
\* place (hyp_main, login_authenticate), for any length of the clock.
THEOREM GuestsComeLast == BootSpec => []GuestsRunLast
<1>1. BootInv => GuestsRunLast
  BY DEF BootInv, GuestsRunLast, Before, AfterVms
<1> QED BY <1>1, BootInvHolds, PTL
---------------------------------------------------------------------------
Platforms == [config : Configs, key : {"fuse", "blank"}]

\* The blob vse_seal makes of n bytes of d on the platform p.
Sealed(p, d, n) ==
    [magic |-> "VSES", len |-> n, tag |-> _platform_bind_tag(p), payload |-> Padded(d, n),
     mac |-> <<_derive_seal_key(p, _platform_bind_tag(p)),
               <<"VSES", n, _platform_bind_tag(p), Padded(d, n)>>>>]

\* The medium may have changed every field of the blob but not into another MAC
\* under a key of the part: that is the one of what was sealed.
SealedFrom(d, n) ==
    /\ sealedBy = [plat |-> sealedBy.plat, data |-> SubSeq(d, 1, n), intact |-> sealedBy.intact]
    /\ sealedBy.plat \in Platforms
    /\ blob = [magic |-> blob.magic, len |-> blob.len, tag |-> blob.tag,
               payload |-> blob.payload, mac |-> Sealed(sealedBy.plat, d, n).mac]
    /\ sealedBy.intact => blob = Sealed(sealedBy.plat, d, n)

SealInv ==
    /\ plat \in Platforms
    /\ blob # NoBlob => \E d \in Payloads, n \in Lengths : SealedFrom(d, n)

\* The n bytes vse_unseal copies out of the padded payload are the n bytes that
\* vse_seal copied in.
LEMMA CopiedBytes ==
    ASSUME NEW d \in Payloads, NEW n \in Lengths
    PROVE  /\ SubSeq(Padded(d, n), 1, n) = SubSeq(d, 1, n)
           /\ Len(SubSeq(d, 1, n)) = n
<1> USE SealAssumption
<1> DEFINE p == Padded(d, n)
<1>1. d \in Seq(SealBytes) /\ Len(d) = MaxPayload
  BY SeqDef DEF Payloads
<1>2. p \in [1 .. MaxPayload -> SealBytes] /\ \A i \in 1 .. n : p[i] = d[i]
  BY DEF Padded, Payloads, Lengths
<1>3. p \in Seq(SealBytes) /\ Len(p) = MaxPayload
  BY <1>2, SeqDef
<1> HIDE DEF p
<1>4. n \in Nat /\ n <= MaxPayload
  BY DEF Lengths
<1>5. SubSeq(p, 1, n) \in Seq(SealBytes) /\ Len(SubSeq(p, 1, n)) = n
      /\ \A i \in 1 .. n : SubSeq(p, 1, n)[i] = p[i]
  BY <1>3, <1>4, SubSeqProperties
<1>6. SubSeq(d, 1, n) \in Seq(SealBytes) /\ Len(SubSeq(d, 1, n)) = n
      /\ \A i \in 1 .. n : SubSeq(d, 1, n)[i] = d[i]
  BY <1>1, <1>4, SubSeqProperties
<1>7. SubSeq(p, 1, n) = SubSeq(d, 1, n)
  BY <1>2, <1>5, <1>6, SeqEqual
<1> QED BY <1>6, <1>7 DEF p

\* Whatever the medium changes in a blob, its MAC stays the one vse_seal computed,
\* with the key of the platform that sealed and over what was sealed.
THEOREM SealInvHolds == SealSpec => []SealInv
<1>1. SealModuleInit => SealInv
  BY DEF SealModuleInit, SealInv, Platforms
<1>2. ASSUME SealInv, [SealNext]_sealvars PROVE SealInv'
  <2> USE <1>2
  <2>1. ASSUME NEW d \in Payloads, NEW n \in Lengths, vse_seal(d, n) PROVE SealInv'
    <3>1. blob' = Sealed(plat, d, n)
      BY <2>1 DEF vse_seal, Sealed, KeyFor, _blob_mac, SealMac
    <3>2. sealedBy' = [plat |-> plat, data |-> SubSeq(d, 1, n), intact |-> TRUE] /\ plat' = plat
      BY <2>1 DEF vse_seal
    <3>3. SealedFrom(d, n)'
      BY <3>1, <3>2 DEF SealedFrom, Sealed, SealInv
    <3> QED BY <3>2, <3>3 DEF SealInv
  <2>2. CASE Corrupt
    <3>1. PICK d \in Payloads, n \in Lengths : SealedFrom(d, n)
      BY <2>2 DEF Corrupt, SealInv
    <3>2. \E magic, len, tag, payload :
             blob' = [magic |-> magic, len |-> len, tag |-> tag, payload |-> payload, mac |-> blob.mac]
      BY <2>2, <3>1 DEF Corrupt, SealedFrom
    <3>3. /\ sealedBy' = [sealedBy EXCEPT !.intact = @ /\ blob' = blob]
          /\ plat' = plat
      BY <2>2 DEF Corrupt
    <3>4. /\ sealedBy'.plat = sealedBy.plat /\ sealedBy'.data = sealedBy.data
          /\ sealedBy' = [plat |-> sealedBy'.plat, data |-> sealedBy'.data, intact |-> sealedBy'.intact]
          /\ sealedBy'.intact => sealedBy.intact /\ blob' = blob
      BY <3>1, <3>3, Zenon DEF SealedFrom
    <3>5. SealedFrom(d, n)'
      BY <3>1, <3>2, <3>4 DEF SealedFrom, Sealed
    <3> QED BY <3>3, <3>5 DEF SealInv
  <2>3. ASSUME UNCHANGED <<blob, sealedBy>>, plat' \in Platforms PROVE SealInv'
    BY <2>3 DEF SealInv, SealedFrom, Sealed
  <2>4. CASE seal_init
    BY <2>3, <2>4 DEF seal_init, SealInv
  <2>5. ASSUME NEW cap \in Lengths, vse_unseal(cap) PROVE SealInv'
    BY <2>3, <2>5 DEF vse_unseal, SealInv
  <2>6. CASE Reboot
    BY <2>3, <2>6 DEF Reboot, Platforms
  <2>7. CASE UNCHANGED sealvars
    BY <2>3, <2>7 DEF sealvars, SealInv
  <2> QED
    BY <2>1, <2>2, <2>4, <2>5, <2>6, <2>7, SMTT(40) DEF SealNext
<1> QED BY <1>1, <1>2, PTL DEF SealSpec

\* vse_unseal returns the very bytes vse_seal was given and only on a platform with
\* the same configuration and key, and always opens an intact blob there
\* (seal.c:148), for any payload size, configurations and changes of the medium.
THEOREM UnsealingIsExact == SealSpec => UnsealsExactlySealed
<1>1. ASSUME SealInv, NEW cap \in Lengths, vse_unseal(cap)
      PROVE  /\ out'.ok => out'.data = sealedBy.data /\ sealedBy.plat = plat
             /\ (/\ inited /\ sealedBy.intact /\ sealedBy.plat = plat
                 /\ cap >= Len(sealedBy.data)) => out'.ok
  <2> USE SealAssumption
  <2>1. PICK d \in Payloads, n \in Lengths : SealedFrom(d, n)
    BY <1>1 DEF vse_unseal, SealInv
  <2>2. sealedBy.data = SubSeq(d, 1, n) /\ Len(SubSeq(d, 1, n)) = n
        /\ SubSeq(Padded(d, n), 1, n) = SubSeq(d, 1, n)
    <3>1. sealedBy.data = SubSeq(d, 1, n)
      BY <2>1 DEF SealedFrom
    <3> QED BY <3>1, CopiedBytes, Zenon
  <2>3. ASSUME out'.ok PROVE out'.data = sealedBy.data /\ sealedBy.plat = plat
    <3>1. /\ blob.mac = _blob_mac(KeyFor(plat, blob), blob)
          /\ out'.data = SubSeq(blob.payload, 1, blob.len)
      BY <1>1, <2>3, Zenon DEF vse_unseal, Denied
    <3>2. blob.mac = Sealed(sealedBy.plat, d, n).mac
      BY <2>1 DEF SealedFrom
    <3>3. blob.len = n /\ blob.payload = Padded(d, n)
          /\ KeyFor(plat, blob) = KeyFor(sealedBy.plat, blob)
      BY <3>1, <3>2 DEF Sealed, _blob_mac, SealMac, KeyFor
    <3>4. plat.key = sealedBy.plat.key /\ plat.config = sealedBy.plat.config
      BY <3>3 DEF KeyFor, _derive_seal_key, _platform_bind_tag, SealMac
    <3>5. sealedBy.plat = plat
      BY <3>4, <2>1, <1>1 DEF SealedFrom, SealInv, Platforms
    <3> QED BY <2>2, <3>1, <3>3, <3>5, Zenon
  <2>4. ASSUME inited, sealedBy.intact, sealedBy.plat = plat, cap >= Len(sealedBy.data)
        PROVE  out'.ok
    <3>1. blob = Sealed(plat, d, n)
      BY <2>1, <2>4 DEF SealedFrom
    <3>2. blob.mac = _blob_mac(KeyFor(plat, blob), blob) /\ blob.magic = "VSES" /\ blob.len = n
      BY <3>1 DEF Sealed, _blob_mac, SealMac, KeyFor
    <3> QED BY <1>1, <2>2, <2>4, <3>2 DEF vse_unseal, Lengths
  <2> QED BY <2>3, <2>4
<1>2. SealInv /\ [SealNext]_sealvars
      => [\A cap \in Lengths : vse_unseal(cap) =>
            /\ out'.ok => out'.data = sealedBy.data /\ sealedBy.plat = plat
            /\ (/\ inited /\ sealedBy.intact /\ sealedBy.plat = plat
                /\ cap >= Len(sealedBy.data)) => out'.ok]_sealvars
  BY <1>1
<1> QED BY <1>2, SealInvHolds, PTL DEF SealSpec, UnsealsExactlySealed
---------------------------------------------------------------------------
\* The last abort was charged to the VM on the core, unless the MMIO engine has
\* answered it, which it is asked for the pages of the interrupt controller only.
DevicesInv ==
    /\ abort.page \notin {"gicd", "gicr"} => abort.charged = abort.vm /\ abort.answer = "none"
    /\ DOMAIN ste = Streams /\ StreamsOwned

\* The steps of platform_init, the aborts, the dispatches and the restarts keep the
\* charge of the last abort and the owner of every stream.
THEOREM DevicesInvHolds == DevicesSpec => []DevicesInv
<1>1. DevicesInit => DevicesInv
  BY DEF DevicesInit, DevicesInv, NoAbort, NoSte, StreamsOwned
<1>2. ASSUME DevicesInv, [DevicesNext]_devvars PROVE DevicesInv'
  <2> USE <1>2 DEF DevicesInv
  <2>1. ASSUME NEW v \in DevVms, StartVm(v) PROVE DevicesInv'
    <3>1. ste' = smmu_assign_stream(StreamOf(v), v) /\ abort' = abort
      BY <2>1 DEF StartVm
    <3>2. StreamOf(v) \in Nat /\ v = StreamOf(v) + 1
      BY DEF StreamOf, DevVms
    <3>3. DOMAIN ste' = Streams /\ StreamsOwned'
      BY <3>1, <3>2, SMTT(40) DEF smmu_assign_stream, StreamsOwned
    <3> QED BY <3>1, <3>3
  <2>2. ASSUME NEW page \in Pages, NEW t \in BOOLEAN, Dabt(page, t) PROVE DevicesInv'
    BY <2>2 DEF Dabt, fault_dabt, StreamsOwned
  <2>3. ASSUME UNCHANGED <<ste, abort>> PROVE DevicesInv'
    BY <2>3 DEF StreamsOwned
  <2>4. ASSUME NEW v \in DevVms, Dispatch(v) \/ StopOrRestart(v) PROVE DevicesInv'
    BY <2>3, <2>4 DEF Dispatch, StopOrRestart
  <2>5. CASE SmmuInit \/ PcieInit \/ device_profile_init
    BY <2>3, <2>5, SMTT(40) DEF SmmuInit, PcieInit, device_profile_init
  <2>6. CASE UNCHANGED devvars
    BY <2>3, <2>6, SMTT(40) DEF devvars
  <2> QED BY <2>1, <2>2, <2>4, <2>5, <2>6 DEF DevicesNext
<1> QED BY <1>1, <1>2, PTL DEF DevicesSpec

\* A VM that touches another VM's own device is charged and gets no answer from
\* the device's region (fault_dabt, mmio_handle), whatever the table of regions
\* holds and whichever VMs are stopped, restarted and dispatched.
THEOREM ForeignAccessIsCharged == DevicesSpec => []ForeignAccessCharged
<1>1. DevicesInv => ForeignAccessCharged
  BY DEF DevicesInv, ForeignAccessCharged, Exclusive
<1> QED BY <1>1, DevicesInvHolds, PTL

\* Every valid stream translates through the tables of the VM it was given to
\* (smmu_assign_stream), for any number of streams.
THEOREM StreamsAreOwned == DevicesSpec => []StreamsOwned
<1>1. DevicesInv => StreamsOwned
  BY DEF DevicesInv
<1> QED BY <1>1, DevicesInvHolds, PTL
---------------------------------------------------------------------------
Players == [track : Nat, slice : 0 .. SlicesPerTrack, at : {"gap", "render", "report", "wfi", "stop"},
            played : Nat, dropped : Nat]
Reports == [frames_played : Nat, frames_dropped : Nat, latency_ms : {0, 10, 12, 18},
            playing : BOOLEAN, valid : BOOLEAN]

\* The hypervisor has been told of all but the last k slices.
Lags(k) == k <= player.played /\ g_audio.frames_played = (player.played - k) % Modulus

DropsTold == g_audio.frames_dropped = player.dropped % Modulus

\* How far the report is behind at each place of the loop of android_main.
AudioInv ==
    /\ player \in Players /\ g_audio \in Reports
    /\ player.at = "gap" => Lags(0) /\ DropsTold /\ (player.track = 0 <=> ~g_audio.valid)
    /\ player.at = "gap" /\ g_audio.valid => ~g_audio.playing
    /\ player.at # "gap" => g_audio.valid /\ g_audio.playing /\ player.slice > 0
    /\ player.at = "render" => Lags((player.slice - 1) % ReportEvery)
    /\ player.at = "report" => Lags(ReportEvery) /\ Reported(player.slice)
    /\ player.at = "wfi" => Lags(player.slice % ReportEvery) /\ (Reported(player.slice) => DropsTold)
    /\ player.at = "stop" => Lags(0) /\ DropsTold

\* The slices of a track go round the reporting interval: the remainder of the
\* next slice.
LEMMA SliceRemainders ==
    ASSUME NEW s \in Nat \ {0}
    PROVE  /\ (s - 1) % ReportEvery \in 0 .. ReportEvery - 1 /\ s % ReportEvery \in 0 .. ReportEvery - 1
           /\ Reported(s) => ((s - 1) % ReportEvery) + 1 = ReportEvery
           /\ ~Reported(s) => ((s - 1) % ReportEvery) + 1 = s % ReportEvery
<1>1. PICK a \in Nat : a + 1 = s /\ s - 1 = a
  OBVIOUS
<1>2. ReportEvery \in Nat \ {0}
  BY AudioAssumption
<1>3. (a + 1) % ReportEvery = IF (a % ReportEvery) + 1 = ReportEvery THEN 0 ELSE (a % ReportEvery) + 1
  BY <1>2, NextRemainder, ZenonT(40)
<1>4. a % ReportEvery \in 0 .. ReportEvery - 1
  BY <1>2
<1> QED BY <1>1, <1>2, <1>3, <1>4 DEF Reported

\* How far the hypervisor's copy of the counters is behind at every hypercall and
\* WFI of android_main's loop.
THEOREM AudioInvHolds == AudioSpec => []AudioInv
<1> USE AudioAssumption
<1>1. AudioInit => AudioInv
  <2> SUFFICES ASSUME AudioInit PROVE AudioInv
    OBVIOUS
  <2>1. 0 % Modulus = 0
    OBVIOUS
  <2>2. player \in Players /\ g_audio \in Reports
    BY DEF AudioInit, Players, Reports
  <2> QED BY <2>1, <2>2 DEF AudioInit, AudioInv, Lags, DropsTold
<1>2. ASSUME AudioInv, [AudioNext]_audiovars PROVE AudioInv'
  <2> USE <1>2
  <2>0. player \in Players /\ g_audio \in Reports
    BY DEF AudioInv
  <2>1. CASE Play
    <3>1. /\ player' = [track |-> player.track, slice |-> 1, at |-> "render",
                        played |-> player.played, dropped |-> player.dropped]
          /\ g_audio' = [frames_played |-> g_audio.frames_played, frames_dropped |-> g_audio.frames_dropped,
                         latency_ms |-> g_audio.latency_ms, playing |-> TRUE, valid |-> TRUE]
      BY <2>0, <2>1, Zenon DEF Play, hvc_audio_play, Players, Reports
    <3>2. (1 - 1) % ReportEvery = 0
      OBVIOUS
    <3>3. player.at = "gap" /\ Lags(0)
      BY <2>1 DEF Play, AudioInv
    <3>4. player' \in Players /\ g_audio' \in Reports
      BY <2>0, <3>1 DEF Players, Reports
    <3> QED BY <2>0, <3>1, <3>2, <3>3, <3>4 DEF AudioInv, Lags
  <2>2. CASE Render
    <3>1. PICK d \in Nat : player' = [track |-> player.track, slice |-> player.slice,
                                      at |-> IF Reported(player.slice) THEN "report" ELSE "wfi",
                                      played |-> player.played + 1, dropped |-> d]
      <4>1. PICK d \in Nat : d = IF Underrun(player.slice) THEN player.dropped + 1 ELSE player.dropped
        BY <2>0 DEF Players
      <4> QED BY <2>0, <2>2, <4>1, Zenon DEF Render, Players
    <3>2. g_audio' = g_audio /\ player.at = "render" /\ player.slice \in Nat \ {0}
          /\ Lags((player.slice - 1) % ReportEvery) /\ g_audio.valid /\ g_audio.playing
      BY <2>0, <2>2 DEF Render, AudioInv, Players
    <3>3. player' \in Players
      BY <2>0, <3>1 DEF Players
    <3>4. PICK k \in Nat : k = (player.slice - 1) % ReportEvery
      BY <3>2, SliceRemainders
    <3>5. Reported(player.slice) => k + 1 = ReportEvery
      BY <3>2, <3>4, SliceRemainders
    <3>6. ~Reported(player.slice) => k + 1 = player.slice % ReportEvery
      BY <3>2, <3>4, SliceRemainders, SMTT(40)
    <3>7. k + 1 <= player'.played /\ g_audio'.frames_played = (player'.played - (k + 1)) % Modulus
      BY <2>0, <3>1, <3>2, <3>4, SMTT(40) DEF Lags, Players
    <3>8. CASE Reported(player.slice)
      BY <2>0, <3>1, <3>2, <3>3, <3>5, <3>7, <3>8, SMTT(40) DEF AudioInv, Lags, Reported
    <3>9. CASE ~Reported(player.slice)
      BY <2>0, <3>1, <3>2, <3>3, <3>6, <3>7, <3>9, SMTT(40) DEF AudioInv, Lags, Reported
    <3> QED BY <3>8, <3>9
  <2>3. CASE Report
    <3>1. /\ player' = [track |-> player.track, slice |-> player.slice, at |-> "wfi",
                        played |-> player.played, dropped |-> player.dropped]
          /\ g_audio' = hvc_audio_status(player.played, player.dropped, Latency(player.slice))
      BY <2>0, <2>3 DEF Report, Players
    <3>2. player.at = "report" /\ Reported(player.slice) /\ player.slice > 0
      BY <2>3, SMTT(40) DEF Report, AudioInv
    <3>3. player' \in Players /\ g_audio' \in Reports
      <4>1. Latency(player.slice) \in {0, 10, 12, 18}
        BY DEF Latency
      <4>2. player.played % Modulus \in Nat /\ player.dropped % Modulus \in Nat
        BY <2>0 DEF Players
      <4> QED BY <2>0, <3>1, <4>1, <4>2 DEF Players, Reports, hvc_audio_status
    <3>4. player.played - 0 = player.played /\ player.played >= 0
      BY <2>0 DEF Players
    <3> QED BY <3>1, <3>2, <3>3, <3>4 DEF AudioInv, Lags, DropsTold, Reported, hvc_audio_status
  <2>4. CASE AudioWfi
    <3>1. /\ player.at = "wfi" /\ g_audio' = g_audio /\ player.slice > 0 /\ g_audio.valid /\ g_audio.playing
          /\ Lags(player.slice % ReportEvery) /\ (Reported(player.slice) => DropsTold)
      BY <2>4 DEF AudioWfi, AudioInv
    <3>2. CASE player.slice < SlicesPerTrack
      <4>1. player' = [track |-> player.track, slice |-> player.slice + 1, at |-> "render",
                       played |-> player.played, dropped |-> player.dropped]
        BY <2>0, <2>4, <3>2, ZenonT(40) DEF AudioWfi, Players
      <4>2. player' \in Players /\ (player.slice + 1) - 1 = player.slice /\ player.slice + 1 > 0
        BY <2>0, <3>2, <4>1 DEF Players
      <4> QED BY <2>0, <3>1, <4>1, <4>2 DEF AudioInv, Lags
    <3>3. CASE ~ (player.slice < SlicesPerTrack)
      <4>1. player' = [track |-> player.track, slice |-> player.slice, at |-> "stop",
                       played |-> player.played, dropped |-> player.dropped]
        BY <2>0, <2>4, <3>3, SMTT(40) DEF AudioWfi, Players
      <4>2. player' \in Players /\ player.slice = SlicesPerTrack
        BY <2>0, <3>3, <4>1 DEF Players
      <4>3. player.slice % ReportEvery = 0 /\ Reported(player.slice)
        BY <4>2, SMTT(40) DEF Reported
      <4> QED BY <2>0, <3>1, <4>1, <4>2, <4>3 DEF AudioInv, Lags, DropsTold
    <3> QED BY <3>2, <3>3
  <2>5. CASE Stop
    <3>1. /\ player' = [track |-> player.track + 1, slice |-> 0, at |-> "gap",
                        played |-> player.played, dropped |-> player.dropped]
          /\ g_audio' = [frames_played |-> g_audio.frames_played, frames_dropped |-> g_audio.frames_dropped,
                         latency_ms |-> g_audio.latency_ms, playing |-> FALSE, valid |-> g_audio.valid]
      BY <2>0, <2>5, Zenon DEF Stop, hvc_audio_stop, Players, Reports
    <3>2. player.at = "stop" /\ Lags(0) /\ DropsTold /\ g_audio.valid
      BY <2>5 DEF Stop, AudioInv
    <3>3. player' \in Players /\ g_audio' \in Reports /\ player.track + 1 # 0
      BY <2>0, <3>1, SMTT(40) DEF Players, Reports
    <3> QED BY <3>1, <3>2, <3>3 DEF AudioInv, Lags, DropsTold
  <2>6. CASE UNCHANGED audiovars
    BY <2>6 DEF audiovars, AudioInv, Lags, DropsTold
  <2> QED BY <2>1, <2>2, <2>3, <2>4, <2>5, <2>6 DEF AudioNext, AudioDone
<1> QED BY <1>1, <1>2, PTL DEF AudioSpec

\* Wherever Android is preempted, the line of the context switch says "playing"
\* exactly between PLAY and STOP, and its counters are behind by at most the
\* reporting interval, also when they wrapped (hvc_audio_status,
\* sched_on_driver_ctx): for any interval that divides a track and any width.
THEOREM ReportsKeepUp == AudioSpec => []ReportKeepsUp
<1>1. ASSUME AudioInv, NEW k \in Nat, Lags(k)
      PROVE  Behind(player.played % Modulus, g_audio.frames_played) <= k
  <2>1. PICK a \in Nat : player.played - k = a /\ player.played = a + k
    BY <1>1 DEF AudioInv, Players, Lags
  <2>2. Modulus \in Nat \ {0}
    BY AudioAssumption
  <2>3. (((a + k) % Modulus) + Modulus - (a % Modulus)) % Modulus <= k
    BY <2>2, WrappedDifference, SMTT(40)
  <2> QED BY <1>1, <2>1, <2>3, SMTT(40) DEF Behind, Lags
<1>2. ASSUME AudioInv PROVE ReportKeepsUp
  <2>1. sched_on_driver_ctx =
           IF player.at # "gap" THEN "playing" ELSE IF player.track = 0 THEN "none" ELSE "stopped"
    BY <1>2 DEF AudioInv, sched_on_driver_ctx
  <2>2. player.at = "gap" => g_audio.frames_dropped = player.dropped % Modulus
    BY <1>2 DEF AudioInv, DropsTold
  <2>3. PICK b \in Int : b = Behind(player.played % Modulus, g_audio.frames_played)
    BY <1>2, AudioAssumption, SMTT(40) DEF Behind, AudioInv, Players, Reports
  <2>4. player.at \in {"gap", "stop"} => b <= 0
    BY <1>1, <1>2, <2>3, SMTT(40) DEF AudioInv
  <2>5. player.at = "report" => b <= ReportEvery
    BY <1>1, <1>2, <2>3, AudioAssumption DEF AudioInv
  <2>6. ASSUME player.at \in {"render", "wfi"} PROVE b <= ReportEvery - 1
    <3>1. player.slice \in Nat \ {0}
      BY <1>2, <2>6 DEF AudioInv, Players
    <3>2. PICK k \in 0 .. ReportEvery - 1 : Lags(k)
      BY <1>2, <2>6, <3>1, SliceRemainders DEF AudioInv
    <3>3. k \in Nat
      BY AudioAssumption
    <3>4. b <= k
      BY <1>1, <1>2, <2>3, <3>2, <3>3
    <3> QED BY <3>2, <3>4, AudioAssumption
  <2>7. player.at \in {"gap", "render", "report", "wfi", "stop"}
    BY <1>2 DEF AudioInv, Players
  <2>8. b <= IF player.at = "gap" THEN 0 ELSE IF player.at = "report" THEN ReportEvery ELSE ReportEvery - 1
    BY <2>4, <2>5, <2>6, <2>7, AudioAssumption
  <2> QED BY <2>1, <2>2, <2>3, <2>8, SMTT(40) DEF ReportKeepsUp
<1>3. AudioInv => ReportKeepsUp
  BY <1>2
<1> QED BY <1>3, AudioInvHolds, PTL
=============================================================================
