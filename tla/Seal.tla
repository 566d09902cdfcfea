------------------------------- MODULE Seal -------------------------------
(***************************************************************************)
(* Sealing (vse/seal.c): data bound to the configuration of the platform.  *)
(* Blobs outlive the hypervisor that made them; the medium they are kept   *)
(* on may change any of their fields.  An HMAC is the pair of its key and  *)
(* its message.                                                            *)
(***************************************************************************)
EXTENDS Integers, Sequences

CONSTANTS Configs,     \* contents of the configuration blob
          MaxPayload,  \* SEAL_MAX_PAYLOAD
          SealBytes,   \* values of a byte of payload; 0 is one of them
          NoBlob

ASSUME SealAssumption == MaxPayload \in Nat /\ 0 \in SealBytes

VARIABLES plat,      \* configuration of the running hypervisor, and its key
          inited,    \* _initialized
          blob,      \* the blob on the medium
          sealedBy,  \* ghost: what was sealed into it, and where
          out        \* what the last vse_unseal returned

sealvars == <<plat, inited, blob, sealedBy, out>>

Lengths == 0 .. MaxPayload
Payloads == [1 .. MaxPayload -> SealBytes]
Denied == [ok |-> FALSE, need |-> 0, data |-> << >>]

SealMac(key, message) == <<key, message>>

_platform_bind_tag(p) == SealMac(p.key, p.config)

_derive_seal_key(p, tag) == SealMac(p.key, <<"VSE-SEAL-v1", tag>>)

\* The header, the stored tag and the whole payload area.
_blob_mac(key, b) == SealMac(key, <<b.magic, b.len, b.tag, b.payload>>)

\* Mutant: the key is derived from the tag stored in the blob.
KeyFor_stored(p, b) == _derive_seal_key(p, b.tag)

\* The key of a blob comes from the platform as it is now, not from the blob.
KeyFor(p, b) == _derive_seal_key(p, _platform_bind_tag(p))

SealModuleInit ==
    /\ plat \in [config : Configs, key : {"fuse", "blank"}]
    /\ inited = FALSE /\ blob = NoBlob /\ sealedBy = NoBlob /\ out = Denied

\* The key was read, or not: the result is dropped.
seal_init ==
    /\ ~inited /\ inited' = TRUE
    /\ UNCHANGED <<plat, blob, sealedBy, out>>

\* memset, then memcpy of n bytes.
Padded(data, n) == [i \in 1 .. MaxPayload |-> IF i <= n THEN data[i] ELSE 0]

vse_seal(data, n) ==
    LET raw == [magic |-> "VSES", len |-> n, tag |-> _platform_bind_tag(plat),
                payload |-> Padded(data, n), mac |-> << >>]
    IN  /\ inited
        /\ blob' = [raw EXCEPT !.mac = _blob_mac(KeyFor(plat, raw), raw)]
        /\ sealedBy' = [plat |-> plat, data |-> SubSeq(data, 1, n), intact |-> TRUE]
        /\ out' = Denied
        /\ UNCHANGED <<plat, inited>>

\* cap is *io_len: the room the caller has.
vse_unseal(cap) ==
    /\ blob # NoBlob
    /\ out' = IF \/ ~inited \/ blob.magic # "VSES" \/ blob.len > MaxPayload
                 \/ blob.mac # _blob_mac(KeyFor(plat, blob), blob)
              THEN Denied
              ELSE IF cap < blob.len THEN [Denied EXCEPT !.need = blob.len]
              ELSE [ok |-> TRUE, need |-> blob.len, data |-> SubSeq(blob.payload, 1, blob.len)]
    /\ UNCHANGED <<plat, inited, blob, sealedBy>>

\* The medium changes a field.
Corrupt ==
    /\ blob # NoBlob
    /\ \/ blob' = [blob EXCEPT !.magic = "other"]
       \/ \E n \in 0 .. MaxPayload + 1 : blob' = [blob EXCEPT !.len = n]
       \/ \E c \in Configs : blob' = [blob EXCEPT !.tag = SealMac("blank", c)]
       \/ \E d \in Payloads : blob' = [blob EXCEPT !.payload = d]
    /\ sealedBy' = [sealedBy EXCEPT !.intact = @ /\ blob' = blob]
    /\ out' = Denied
    /\ UNCHANGED <<plat, inited>>

\* Another build or the same one boots, and reads the key or fails to.
Reboot ==
    /\ plat' \in [config : Configs, key : {"fuse", "blank"}]
    /\ inited' = FALSE /\ out' = Denied
    /\ UNCHANGED <<blob, sealedBy>>

SealNext ==
    \/ seal_init
    \/ \E d \in Payloads, n \in Lengths : vse_seal(d, n)
    \/ \E cap \in Lengths : vse_unseal(cap)
    \/ Corrupt
    \/ Reboot

SealSpec == SealModuleInit /\ [][SealNext]_sealvars
---------------------------------------------------------------------------
\* A blob on the medium belongs to something sealed and has the fixed size.
SealTypeOK ==
    /\ plat \in [config : Configs, key : {"fuse", "blank"}] /\ inited \in BOOLEAN
    /\ (blob = NoBlob) = (sealedBy = NoBlob)
    /\ blob # NoBlob => blob.payload \in Payloads /\ blob.len \in 0 .. MaxPayload + 1
    /\ out.need \in Lengths

\* vse_unseal opens exactly what was sealed.  What it returns is the data, byte for
\* byte, that was sealed on a platform with the same configuration and the same
\* key: a change of configuration, a failed read of the key or a changed blob
\* yields nothing (seal.c:148).  An intact blob opens again after any number of
\* reboots, once the platform that made it is back and the caller has room.
UnsealsExactlySealed ==
    [][\A cap \in Lengths : vse_unseal(cap) =>
         /\ out'.ok => out'.data = sealedBy.data /\ sealedBy.plat = plat
         /\ (/\ inited /\ sealedBy.intact /\ sealedBy.plat = plat
             /\ cap >= Len(sealedBy.data)) => out'.ok]_sealvars
===========================================================================
