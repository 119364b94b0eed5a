------------------------------- MODULE Codec --------------------------------
(***************************************************************************)
(* The bytes behind the values of file_meta and hash256_to_files:          *)
(* FileMeta::encode and decode (file_meta.rs) and the packed lists of      *)
(* file ids (codec.rs).  The widths are parameters: the code has 256, 8,   *)
(* 32 and 20.  A decode that fails yields no value, {}.                    *)
(***************************************************************************)
EXTENDS Integers, Sequences, SequencesExt

CONSTANTS
  Base,      \* how many values a byte has
  WordLen,   \* bytes of a u64
  HashLen,   \* bytes of a hash
  PrefixLen  \* bytes of a SHA-1

ASSUME CodecAssumption ==
  Base \in Nat \ {0, 1} /\ {WordLen, HashLen, PrefixLen} \subseteq Nat \ {0}

ToLeBytes(n) == [i \in 1..WordLen |-> (n \div Base^(i - 1)) % Base]

FromLeBytes(bytes) == FoldRight(LAMBDA b, n : b + Base * n, bytes, 0)

(* The i-th word of a byte string, after an offset. *)
WordAt(bytes, offset) == FromLeBytes(SubSeq(bytes, offset + 1, offset + WordLen))

-----------------------------------------------------------------------------
(* FileMeta: version, flags, size, mtime, hash and, if flagged, prefix.    *)
HashAt == 2 + 2 * WordLen
PrefixAt == HashAt + HashLen

Encode(meta) ==
  <<1, IF meta.sha1prefix_4k = {} THEN 0 ELSE 1>>
    \o ToLeBytes(meta.size) \o ToLeBytes(meta.mtime_secs) \o meta.hash256
    \o (IF meta.sha1prefix_4k = {} THEN <<>> ELSE CHOOSE p \in meta.sha1prefix_4k : TRUE)

AnyPrefix(bytes) == Len(bytes) > PrefixAt  \* mutant: the length decides, not the flag

HasPrefix(bytes) == bytes[2] % 2 = 1

LongEnough(bytes) ==
  /\ Len(bytes) >= PrefixAt
  /\ HasPrefix(bytes) => Len(bytes) >= PrefixAt + PrefixLen

Decode(bytes) ==
  IF ~LongEnough(bytes) \/ bytes[1] # 1 THEN {}
  ELSE { [ size          |-> WordAt(bytes, 2),
           mtime_secs    |-> WordAt(bytes, 2 + WordLen),
           hash256       |-> SubSeq(bytes, HashAt + 1, PrefixAt),
           sha1prefix_4k |-> IF HasPrefix(bytes)
                             THEN {SubSeq(bytes, PrefixAt + 1, PrefixAt + PrefixLen)}
                             ELSE {} ] }

-----------------------------------------------------------------------------
(* u64_list_pack, u64_list_unpack (which drops an incomplete last word),   *)
(* and how write_batch_versions adds an id to a list.                      *)
Pack(ids) == FlattenSeq([i \in DOMAIN ids |-> ToLeBytes(ids[i])])

Unpack(bytes) ==
  [i \in 1..(Len(bytes) \div WordLen) |-> WordAt(bytes, (i - 1) * WordLen)]

AddId(bytes, fid) ==
  LET ids == Unpack(bytes)
  IN  IF fid \in Range(ids) THEN bytes
      ELSE Pack(SortSeq(Append(ids, fid), LAMBDA a, b : a < b))
=============================================================================
