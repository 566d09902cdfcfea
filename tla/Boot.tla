------------------------------- MODULE Boot -------------------------------
(***************************************************************************)
(* hyp_main (boot/main.c): the order in which the hypervisor checks itself,*)
(* makes the VMs, starts its services, lets the operator in and enters the *)
(* first guest; the integrity checks (vse/config_check.c,                  *)
(* vse/component_check.c, vse/guest_measure.c), the master key             *)
(* (vse/keystore.c, boot/pal) and the login (vse/login.c, vse/totp.c,      *)
(* vse/hotp.c).                                                            *)
(*                                                                         *)
(* An HMAC is the pair of its key and its message, so that it agrees with  *)
(* a golden value only when both do.  Learn mode of config_check and       *)
(* guest_measure is off, as in the headers.                                *)
(***************************************************************************)
EXTENDS Integers, FiniteSets

CONSTANTS BootVms,     \* ids 1 .. n, in the order platform_init makes them
          Components,  \* _components[]
          MaxTries,    \* LOGIN_MAX_TRIES
          BootStep,    \* RTC_PROVISIONED_EPOCH \div TOTP_STEP_S
          LastStep     \* bound on the clock, in steps of TOTP_STEP_S

ASSUME BootAssumption ==
    /\ MaxTries \in Nat \ {0} /\ LastStep \in Nat /\ BootStep \in 0 .. LastStep
    /\ IsFiniteSet(BootVms) /\ BootVms = 1 .. Cardinality(BootVms)

VARIABLES
    pc,      \* the call of hyp_main that comes next
    image,   \* what is measured: configuration, components, guest images
    keys,    \* _master_key of config_check.c, component_check.c and seal.c
    guests,  \* state of each VM
    level,   \* trust level of each VM
    ready,   \* services initialised so far
    clock,   \* rtc_unix_now() \div TOTP_STEP_S
    secret,  \* _secret_ready of hotp.c
    tries,   \* failed attempts at the login
    entered  \* ghost: the attempt that was granted

bootvars == <<pc, image, keys, guests, level, ready, clock, secret, tries, entered>>

Checked == {"config", "component", "seal"}
Phases == {"pal", "config", "component", "gic", "vms", "ipc", "stats", "trust", "seal", "fault",
           "ids", "failover", "totp", "login", "sched", "run", "panic", "halt"}
Images == [config : {"golden", "other"},
           comp : [Components -> {"golden", "other", "no range"}],
           provisioned : [Components -> BOOLEAN],
           guest : [BootVms -> {"golden", "other", "not provisioned", "not listed"}]]
Nobody == [pw |-> FALSE, step |-> 0, at |-> 0]

BootInit ==
    /\ pc = "pal" /\ image \in Images
    /\ keys = [m \in Checked |-> "blank"]
    /\ guests = [v \in BootVms |-> "NONE"] /\ level = [v \in BootVms |-> "UNKNOWN"]
    /\ ready = {} /\ clock = BootStep /\ secret = FALSE /\ tries = 0 /\ entered = Nobody

\* plat_read_fuse_key fails when the part does not answer or is not programmed,
\* and then leaves no key; the development key is always there.
FuseRead == {"fuse", "blank"}

Hmac(key, message) == <<key, message>>
Golden == Hmac("fuse", "golden")

PalInit ==
    /\ pc = "pal"
    /\ pc' \in {"config", "halt"}
    /\ UNCHANGED <<image, keys, guests, level, ready, clock, secret, tries, entered>>

\* Mutant: a mismatch is logged and the boot goes on.
config_check_init_warns(k) ==
    /\ pc = "config"
    /\ keys' = [keys EXCEPT !["config"] = k]
    /\ pc' = "component"
    /\ UNCHANGED <<image, guests, level, ready, clock, secret, tries, entered>>

\* The result of reading the key is not looked at.
config_check_init(k) ==
    /\ pc = "config"
    /\ keys' = [keys EXCEPT !["config"] = k]
    /\ pc' = IF Hmac(k, image.config) = Golden THEN "component" ELSE "panic"
    /\ UNCHANGED <<image, guests, level, ready, clock, secret, tries, entered>>

\* A component whose golden value is blank is measured and not compared.
ComponentOk(c, k) ==
    /\ image.comp[c] # "no range"
    /\ image.provisioned[c] => Hmac(k, image.comp[c]) = Golden

component_check_init(k) ==
    /\ pc = "component"
    /\ keys' = [keys EXCEPT !["component"] = k]
    /\ pc' = IF \A c \in Components : ComponentOk(c, k) THEN "gic" ELSE "panic"
    /\ UNCHANGED <<image, guests, level, ready, clock, secret, tries, entered>>

\* gic_init has no failing path; pmu_init comes before its result is tested.
GicAndPmu ==
    /\ pc = "gic"
    /\ ready' = ready \union {"gic", "pmu"} /\ pc' = "vms"
    /\ UNCHANGED <<image, keys, guests, level, clock, secret, tries, entered>>

\* All VMs are created, then finalized and started one after the other.  The
\* first "n" succeed; a failure of the next one leaves them RUNNING.
vm_subsys_init(n) ==
    /\ pc = "vms"
    /\ guests' = [v \in BootVms |-> IF v <= n THEN "RUNNING" ELSE "CREATED"]
    /\ pc' = IF n = Cardinality(BootVms) THEN "ipc" ELSE "panic"
    /\ UNCHANGED <<image, keys, level, ready, clock, secret, tries, entered>>

\* The services that cannot fail, in the order of hyp_main.
After == [ipc |-> "stats", stats |-> "trust", fault |-> "ids", ids |-> "failover",
          failover |-> "totp"]

StartService ==
    /\ pc \in DOMAIN After
    /\ ready' = ready \union {pc} /\ pc' = After[pc]
    /\ UNCHANGED <<image, keys, guests, level, clock, secret, tries, entered>>

guest_measure_vm(v) ==
    CASE image.guest[v] = "not listed" -> "SKIP"
      [] image.guest[v] = "not provisioned" -> "LEARN"
      [] image.guest[v] = "golden" -> "MATCH"
      [] image.guest[v] = "other" -> "MISMATCH"

trust_init ==
    /\ pc = "trust"
    /\ level' = [v \in BootVms |-> CASE guest_measure_vm(v) = "MISMATCH" -> "QUARANTINE"
                                     [] guest_measure_vm(v) \in {"MATCH", "LEARN", "SKIP"} -> "TRUSTED"
                                     [] OTHER -> "UNKNOWN"]
    /\ ready' = ready \union {"trust"} /\ pc' = "seal"
    /\ UNCHANGED <<image, keys, guests, clock, secret, tries, entered>>

\* Again the result of reading the key is dropped.
SealInit(k) ==
    /\ pc = "seal"
    /\ keys' = [keys EXCEPT !["seal"] = k]
    /\ ready' = ready \union {"seal"} /\ pc' = "fault"
    /\ UNCHANGED <<image, guests, level, clock, secret, tries, entered>>

\* rtc_init; the self-test derives the secret of the codes if it can.
TotpInit(k) ==
    /\ pc = "totp"
    /\ secret' = (k = "fuse")
    /\ ready' = ready \union {"totp"} /\ pc' = "login"
    /\ UNCHANGED <<image, keys, guests, level, clock, tries, entered>>

\* The generic timer advances while the operator types.
ClockStep ==
    /\ pc = "login" /\ clock < LastStep
    /\ clock' = clock + 1
    /\ UNCHANGED <<pc, image, keys, guests, level, ready, secret, tries, entered>>

\* Mutant: the previous step is subtracted without a test for zero, and an
\* older one is let through.
Window_wide(t) == (t - 2) .. (t + 1)

\* steps[]: T - 1 only when T > 0.
Window(t) == {s \in {t - 1, t, t + 1} : s >= 0}

\* The steps for which hotp_compute yields a code.  It derives the secret when it
\* is first needed and tries again at every step until that works.
Computed(t) ==
    IF secret THEN {Window(t)}
    ELSE {{s \in Window(t) : s >= first} : first \in (t - 1) .. (t + 2)}

\* ++attempt <= LOGIN_MAX_TRIES fails after this attempt.
LastTry == tries + 1 >= MaxTries

\* One round of login_authenticate.  "typed" says whether the password is the
\* right one, "code" is the step for which the operator's device made the code;
\* _check_password fails as well when its pepper cannot be derived (~pepper).
LoginAttempt(typed, pepper, code, steps) ==
    LET pw == typed /\ pepper
        otp == code \in steps
    IN  /\ pc = "login"
        /\ secret' = (secret \/ steps # {})
        /\ IF pw /\ otp
           THEN /\ pc' = "sched" /\ UNCHANGED tries
                /\ entered' = [pw |-> typed, step |-> code, at |-> clock]
           ELSE /\ tries' = tries + 1 /\ UNCHANGED entered
                /\ pc' = IF LastTry THEN "panic" ELSE "login"
        /\ UNCHANGED <<image, keys, guests, level, ready, clock>>

\* sched_init, then sched_run enters the first guest.
SchedRun ==
    /\ pc = "sched"
    /\ pc' = "run" /\ ready' = ready \union {"sched"}
    /\ UNCHANGED <<image, keys, guests, level, clock, secret, tries, entered>>

\* hyp_panic, the loop after pal_init, and the running system.
Ended == pc \in {"run", "panic", "halt"} /\ UNCHANGED bootvars

BootNext ==
    \/ PalInit
    \/ \E k \in FuseRead : config_check_init(k) \/ component_check_init(k) \/ SealInit(k) \/ TotpInit(k)
    \/ GicAndPmu
    \/ \E n \in 0 .. Cardinality(BootVms) : vm_subsys_init(n)
    \/ StartService
    \/ trust_init
    \/ ClockStep
    \/ \E typed, pepper \in BOOLEAN, code \in 0 .. LastStep + 2, steps \in Computed(clock) :
          LoginAttempt(typed, pepper, code, steps)
    \/ SchedRun
    \/ Ended

BootSpec == BootInit /\ [][BootNext]_bootvars
---------------------------------------------------------------------------
\* The data of the boot, and a level for every VM once trust_init has run:
\* faults are reported for VMs in one of the known levels only.
BootTypeOK ==
    /\ pc \in Phases /\ image \in Images
    /\ keys \in [Checked -> FuseRead]
    /\ guests \in [BootVms -> {"NONE", "CREATED", "RUNNING"}]
    /\ level \in [BootVms -> {"UNKNOWN", "TRUSTED", "QUARANTINE"}]
    /\ "trust" \in ready => \A v \in BootVms : level[v] # "UNKNOWN"
    /\ clock \in 0 .. LastStep /\ secret \in BOOLEAN /\ tries \in Nat

\* No VM is made by a hypervisor whose configuration or code is not the golden
\* one, or whose key could not be read (main.c:94, "so no VM is ever created on
\* a hypervisor whose configuration has been tampered with").
NoVmUnlessVerified ==
    (\E v \in BootVms : guests[v] # "NONE") =>
        /\ image.config = "golden" /\ keys["config"] = "fuse"
        /\ \A c \in Components :
              image.provisioned[c] => image.comp[c] = "golden" /\ keys["component"] = "fuse"

\* A guest executes only after an operator gave, within LOGIN_MAX_TRIES attempts,
\* the password and a code made at most one step before or after the attempt,
\* with every VM started and every service that its traps will use in place,
\* whatever the clock and the key did in between (login_authenticate, hyp_main).
GuestsRunLast ==
    pc = "run" =>
        /\ entered.pw /\ entered.step - entered.at \in {-1, 0, 1} /\ tries < MaxTries
        /\ \A v \in BootVms : guests[v] = "RUNNING"
        /\ {"gic", "pmu", "ipc", "stats", "trust", "fault", "ids", "failover"} \subseteq ready
===========================================================================
