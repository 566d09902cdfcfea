------------------------------- MODULE Hmac -------------------------------
(***************************************************************************)
(* SHA-256 and HMAC computed piece by piece, vse/hmac.c, against their     *)
(* definitions over the whole message (FIPS 180-4 and 198-1).              *)
(*                                                                         *)
(* The compression function is taken as a free function: the state of a    *)
(* hash is the sequence of blocks it has absorbed, and a digest is as many *)
(* symbolic bytes.  Message and key bytes are numbered by their place, so  *)
(* that a byte lost, repeated, out of place or left over in the buffer     *)
(* shows.                                                                  *)
(***************************************************************************)
EXTENDS Integers, Sequences, SequencesExt

CONSTANTS Block,      \* SHA256_BLOCK
          LenField,   \* bytes of the bit count (8)
          Digest,     \* SHA256_DIGEST
          MaxKey,     \* longest key that is explored
          MaxChunk,   \* longest argument of an update
          MaxMsg      \* longest message

VARIABLE mac          \* what is computed, its contexts and its result

ASSUME HmacAssumption ==
    /\ Block \in Nat /\ LenField \in 1 .. Block - 1 /\ Digest \in 1 .. Block
    /\ MaxKey \in Nat /\ MaxChunk \in Nat /\ MaxMsg \in Nat

Repeat(b, n) == [i \in 1 .. n |-> b]

Message(from, n) == [i \in 1 .. n |-> <<"msg", from + i>>]
Key(n) == [i \in 1 .. n |-> <<"key", i>>]

\* put_be32 of the final state.
DigestOf(blocks) == [i \in 1 .. Digest |-> <<"digest", i, blocks>>]

\* The bit count in the last bytes of a block.
LengthBytes(bits) == [i \in 1 .. LenField |-> <<"bits", i, bits>>]

XorPad(s, c) == [i \in DOMAIN s |-> <<s[i], "xor", c>>]
---------------------------------------------------------------------------
\* memcpy and memset: bytes s over the buffer, from index "at".
Copied(buf, at, s) == [i \in 1 .. Block |-> IF i - at \in DOMAIN s THEN s[i - at] ELSE buf[i]]

sha256_init == [blocks |-> << >>, bits |-> 0, buf |-> Repeat("junk", Block), len |-> 0]

sha256_compress(c, block) == [c EXCEPT !.blocks = Append(@, block)]

\* The full blocks of a sequence of bytes.
Blocks(s) == [k \in 1 .. Len(s) \div Block |-> SubSeq(s, (k - 1) * Block + 1, k * Block)]

\* Fill the partial buffer; how many bytes of the data it took.
FillPartial(c, data) ==
    LET take == IF Len(data) < Block - c.len THEN Len(data) ELSE Block - c.len
        full == [c EXCEPT !.buf = Copied(@, c.len, SubSeq(data, 1, take)), !.len = @ + take]
    IN  IF c.len = 0 THEN <<c, 0>>
        ELSE IF full.len < Block THEN <<full, take>>
        ELSE <<[sha256_compress(full, full.buf) EXCEPT !.len = 0], take>>

sha256_update(c, data) ==
    LET f == FillPartial([c EXCEPT !.bits = @ + 8 * Len(data)], data)
        rest == SubSeq(data, f[2] + 1, Len(data))
        direct == FoldLeft(sha256_compress, f[1], Blocks(rest))
        tail == SubSeq(rest, Block * (Len(rest) \div Block) + 1, Len(rest))
    IN  IF tail = << >> THEN direct ELSE [direct EXCEPT !.buf = Copied(@, 0, tail), !.len = Len(tail)]

\* Mutant: the test is >=.
NeedsSecondBlock_at_56(used) == used >= Block - LenField

\* The marker has left no room for the bit count: buf_len > 56.
NeedsSecondBlock(used) == used > Block - LenField

sha256_final(c) ==
    LET marked == Copied(c.buf, c.len, <<"0x80">>)
        used == c.len + 1
        room == Block - LenField
        spill == sha256_compress(c, Copied(marked, used, Repeat("0", Block - used)))
        last(buf, from) ==
            Copied(Copied(buf, from, Repeat("0", room - from)), room, LengthBytes(c.bits))
        end == IF NeedsSecondBlock(used) THEN sha256_compress(spill, last(marked, 0))
               ELSE sha256_compress(c, last(marked, used))
    IN  DigestOf(end.blocks)

\* A key longer than a block is replaced by its digest.
hmac_init(key) ==
    LET short == IF Len(key) > Block THEN sha256_final(sha256_update(sha256_init, key)) ELSE key
        block == short \o Repeat("0", Block - Len(short))
    IN  [inner |-> sha256_update(sha256_init, XorPad(block, "ipad")),
         outer |-> sha256_update(sha256_init, XorPad(block, "opad"))]

hmac_update(h, data) == [h EXCEPT !.inner = sha256_update(@, data)]

hmac_final(h) == sha256_final(sha256_update(h.outer, sha256_final(h.inner)))
---------------------------------------------------------------------------
Idle == [kind |-> "none", key |-> 0, n |-> 0, h |-> << >>, out |-> << >>]

HmacModuleInit == mac = Idle

\* hmac_init with a key, an empty one is refused; sha256_init alone, as
\* guest_measure_vm uses it.
StartHmac(k) ==
    /\ mac.kind = "none"
    /\ mac' = IF k = 0 THEN mac
              ELSE [Idle EXCEPT !.kind = "hmac", !.key = k, !.h = hmac_init(Key(k))]

StartSha ==
    /\ mac.kind = "none"
    /\ mac' = [Idle EXCEPT !.kind = "sha", !.h = [inner |-> sha256_init, outer |-> sha256_init]]

Feed(n) ==
    /\ mac.kind \in {"hmac", "sha"} /\ mac.out = << >>
    /\ mac.n + n <= MaxMsg
    /\ mac' = [mac EXCEPT !.n = @ + n, !.h = hmac_update(@, Message(mac.n, n))]

Finish ==
    /\ mac.kind \in {"hmac", "sha"} /\ mac.out = << >>
    /\ mac' = [mac EXCEPT !.out = IF mac.kind = "hmac" THEN hmac_final(mac.h)
                                  ELSE sha256_final(mac.h.inner)]

Again == mac.out # << >> /\ mac' = Idle

HmacNext ==
    \/ \E k \in 0 .. MaxKey : StartHmac(k)
    \/ StartSha
    \/ \E n \in 0 .. MaxChunk : Feed(n)
    \/ Finish
    \/ Again

HmacSpec == HmacModuleInit /\ [][HmacNext]_mac
---------------------------------------------------------------------------
\* The message, a marker, as few zeros as fill the last block, and the bit count.
PaddedMessage(m) ==
    LET zeros == (0 - Len(m) - 1 - LenField) % Block
    IN  m \o <<"0x80">> \o Repeat("0", zeros) \o LengthBytes(8 * Len(m))

Sha256(m) == DigestOf(Blocks(PaddedMessage(m)))

HmacSha256(key, m) ==
    LET k0 == (IF Len(key) > Block THEN Sha256(key) ELSE key)
        k == k0 \o Repeat("0", Block - Len(k0))
    IN  Sha256(XorPad(k, "opad") \o Sha256(XorPad(k, "ipad") \o m))

\* The buffer is never full between two calls.
HmacTypeOK ==
    mac.kind # "none" => \A c \in {mac.h.inner, mac.h.outer} : c.len \in 0 .. Block - 1

\* However a message is cut into updates, empty ones included, the result is the
\* hash, or the HMAC, of the whole message: at every length around a block and
\* around the room for the bit count, with keys up to, at and beyond a block, and
\* with the bytes of earlier blocks still in the buffer (sha256_update,
\* sha256_final, hmac_init).
HashesWholeMessage ==
    mac.out # << >> =>
        mac.out = IF mac.kind = "sha" THEN Sha256(Message(0, mac.n))
                  ELSE HmacSha256(Key(mac.key), Message(0, mac.n))
===========================================================================
