------------------------------- MODULE Calls -------------------------------
(***************************************************************************)
(* How a trapped HVC or SMC is answered: the dispatch of boot/main.c, the  *)
(* routing of guest/hypercall/hvc_handler.c and the PSCI and SMCCC         *)
(* functions of arch/arm64/psci.c.  What the hypervisor's own calls do is  *)
(* the matter of other modules: here they are served or unknown.           *)
(*                                                                         *)
(* A function identifier is a record: "fast" is bit 31, "owner" bits 24 to *)
(* 29, "high" says that the upper half of the 64-bit register is not zero, *)
(* and "name" stands for the remaining bits.                               *)
(***************************************************************************)
EXTENDS Naturals

CONSTANTS HvcNames,     \* hypercalls that hvc_dispatch has a case for
          Unserved      \* hypercalls of hvc_abi.h that it has none for

VARIABLES power,        \* "on", "waiting" (a WFI at EL2) or "halted"
          call          \* the last call: [via, func, x1, ret]

callvars == <<power, call>>

Psci32 == {"VERSION", "CPU_SUSPEND_32", "CPU_OFF", "CPU_ON_32", "AFFINITY_INFO_32",
           "MIGRATE_INFO_TYPE", "SYSTEM_OFF", "SYSTEM_RESET", "FEATURES"}
Psci64 == {"CPU_SUSPEND_64", "CPU_ON_64", "AFFINITY_INFO_64"}
Smccc == {"SMCCC_VERSION", "SMCCC_ARCH_FEATURES"}
PsciUnserved == {"MIGRATE_32", "MEM_PROTECT"}

ASSUME CallsAssumption ==
    (HvcNames \union Unserved) \intersect (Psci32 \union Psci64 \union Smccc \union PsciUnserved) = {}

Fn(fast, owner, name) == [fast |-> fast, owner |-> owner, high |-> FALSE, name |-> name]

\* Functions of every kind: PSCI and its unserved neighbours, SMCCC, other
\* owners up to and past the last routed one, hypercalls, and two identifiers
\* whose upper half is not zero.
Funcs ==
    LET plain == {Fn(TRUE, 4, n) : n \in Psci32 \union Psci64 \union PsciUnserved}
                 \union {Fn(TRUE, 0, n) : n \in Smccc}
                 \union {Fn(TRUE, o, "other") : o \in {6, 7}}
                 \union {Fn(FALSE, 0, n) : n \in HvcNames \union Unserved}
    IN  plain \union {[f EXCEPT !.high = TRUE] : f \in {g \in plain : g.name \in {"VERSION"} \union HvcNames}}

Mpidrs == {0, 1}

Answers == {"version 1.1", "SUCCESS", "NOT_SUPPORTED", "E_UNSUPPORTED", "TOS_MP",
            "LEVEL_ON", "LEVEL_OFF", "served", "never"}
---------------------------------------------------------------------------
\* The comparisons of PSCI_FEATURES, made on the whole register.
Supported(f) == ~f.high /\ f.name \in Psci32 \union Psci64 \union Smccc

\* The switch is on the whole register.  x1 is the function FEATURES asks about
\* or the CPU of AFFINITY_INFO.  SYSTEM_OFF and SYSTEM_RESET do not return.
psci_handler(f, x1) ==
    IF f.high THEN "NOT_SUPPORTED"
    ELSE CASE f.name \in {"VERSION", "SMCCC_VERSION"} -> "version 1.1"
           [] f.name = "FEATURES" -> IF Supported(x1) THEN "SUCCESS" ELSE "NOT_SUPPORTED"
           [] f.name = "MIGRATE_INFO_TYPE" -> "TOS_MP"
           [] f.name \in {"CPU_OFF", "CPU_SUSPEND_32", "CPU_SUSPEND_64"} -> "SUCCESS"
           [] f.name \in {"AFFINITY_INFO_32", "AFFINITY_INFO_64"} ->
                  IF x1 = 0 THEN "LEVEL_ON" ELSE "LEVEL_OFF"
           [] f.name \in {"SYSTEM_OFF", "SYSTEM_RESET"} -> "never"
           [] OTHER -> "NOT_SUPPORTED"

\* The calls hvc_dispatch hands to psci_handler.
Routed(f) == f.fast /\ f.owner <= 6

\* The hypervisor's own calls are told apart by the lower half alone.
hvc_dispatch(f, x1) ==
    IF Routed(f) THEN psci_handler(f, x1)
    ELSE IF f.name \in HvcNames THEN "served" ELSE "E_UNSUPPORTED"

\* EC_HVC64 and EC_SMC64.
hyp_sync_handler(via, f, x1) ==
    IF via = "hvc" THEN hvc_dispatch(f, x1) ELSE psci_handler(f, x1)

Waits(f, ret) == ret = "SUCCESS" /\ f.name \in {"CPU_OFF", "CPU_SUSPEND_32", "CPU_SUSPEND_64"}
---------------------------------------------------------------------------
\* The second argument only matters to FEATURES and AFFINITY_INFO.
Arguments(f) == IF f.name = "FEATURES" THEN Funcs
                ELSE IF f.name \in {"AFFINITY_INFO_32", "AFFINITY_INFO_64"} THEN Mpidrs ELSE {0}

CallsInit ==
    /\ power = "on"
    /\ call = [via |-> "hvc", func |-> Fn(TRUE, 4, "VERSION"), x1 |-> 0, ret |-> "version 1.1"]

\* A guest makes a call.  CPU_OFF and CPU_SUSPEND wait in a WFI at EL2, the
\* system calls mask everything and wait for ever.
Call(via, f, x1) ==
    LET ret == hyp_sync_handler(via, f, x1)
    IN  /\ power = "on"
        /\ call' = [via |-> via, func |-> f, x1 |-> x1, ret |-> ret]
        /\ power' = IF ret = "never" THEN "halted" ELSE IF Waits(f, ret) THEN "waiting" ELSE "on"

\* A pending interrupt ends the WFI; the call returns to the guest that made it.
WakeUp ==
    /\ power = "waiting"
    /\ power' = "on"
    /\ UNCHANGED call

Halted == power = "halted" /\ UNCHANGED callvars

CallsNext ==
    \/ \E via \in {"hvc", "smc"}, f \in Funcs : \E x1 \in Arguments(f) : Call(via, f, x1)
    \/ WakeUp
    \/ Halted

CallsSpec == CallsInit /\ [][CallsNext]_callvars
---------------------------------------------------------------------------
\* Every call is answered with a value of its interface: no path through the
\* two switches leaves the identifier in x0.  What PSCI_FEATURES denies is not
\* there: the list of the one and the switch of the other agree.
CallsTypeOK ==
    /\ power \in {"on", "waiting", "halted"}
    /\ call.via \in {"hvc", "smc"} /\ call.func \in Funcs /\ call.x1 \in Arguments(call.func)
    /\ call.ret \in Answers
    /\ Routed(call.func) /\ ~Supported(call.func) => call.ret = "NOT_SUPPORTED"
===========================================================================
