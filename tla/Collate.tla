------------------------------ MODULE Collate ------------------------------
(***************************************************************************)
(* The comparisons of keys (ofs_collate.c).  Every tree is searched with   *)
(* one of six rules; a rule that is not an order, or an encoding that does *)
(* not survive a round trip, loses keys that are in the tree.  The rules   *)
(* are functions: the state is one triple of index entries to compare.     *)
(*                                                                         *)
(* Bytes are 0 .. Base - 1, numbers have at most Width bytes.  Character 1 *)
(* stands for a lower-case letter, 0 for the same letter in upper case; a  *)
(* char is signed.                                                         *)
(***************************************************************************)
EXTENDS Integers, Sequences

CONSTANTS
  Base, Width,   \* 256 values of a byte, 8 bytes of a uint64_t
  MaxAddr,       \* bound: addresses of extents
  MaxExtent      \* bound: lengths of extents

\* The weight of the byte at each place of a number, and of the one behind it.
Pow[n \in 0 .. Width] == IF n = 0 THEN 1 ELSE Base * Pow[n - 1]

ASSUME CollateAssumption ==
  /\ Base \in Nat /\ Base > 3 /\ Base % 2 = 0
  /\ Width \in Nat \ {0}
  /\ MaxAddr \in Nat /\ MaxExtent \in Nat \ {0}
  /\ MaxAddr + MaxExtent < Pow[Width]
  /\ 2 * Width + 1 < Pow[Width]

VARIABLE entries   \* the rule and three entries [key, value]

Byte == 0 .. Base - 1
BStr == UNION {[1 .. n -> Byte] : n \in 1 .. Width}

Compare(m, n) == IF m > n THEN 1 ELSE IF m < n THEN -1 ELSE 0
-----------------------------------------------------------------------------
(***************************************************************************)
(* Numbers as little-endian strings without leading zeros.                 *)
(***************************************************************************)
os_bstr_to_u64(b) ==
  LET sum[i \in 0 .. Len(b)] == IF i = 0 THEN 0 ELSE sum[i - 1] + b[i] * Pow[i - 1]
  IN  sum[Len(b)]

\* Bug: the highest byte is found from below.
os_u64_size_low(n) ==
  IF n = 0 THEN 1
  ELSE CHOOSE w \in 1 .. Width :
         /\ (n \div Pow[w - 1]) % Base # 0
         /\ \A v \in 1 .. w - 1 : (n \div Pow[v - 1]) % Base = 0

os_u64_size(n) ==
  IF n = 0 THEN 1 ELSE CHOOSE w \in 1 .. Width : Pow[w - 1] <= n /\ n < Pow[w]

os_u64_to_bstr(n) == [i \in 1 .. os_u64_size(n) |-> (n \div Pow[i - 1]) % Base]

\* The header byte holds the size of the address; a length of 0 is no extent.
os_extent_to_extent_pair(pa, len) ==
  IF len = 0 THEN <<>>
  ELSE <<os_u64_size(pa)>> \o os_u64_to_bstr(pa) \o os_u64_to_bstr(len)

os_extent_pair_to_extent(p) ==
  IF Len(p) <= p[1] + 1 THEN [pa |-> 0, len |-> 0]
  ELSE [pa  |-> os_bstr_to_u64(SubSeq(p, 2, p[1] + 1)),
        len |-> os_bstr_to_u64(SubSeq(p, p[1] + 2, Len(p)))]
-----------------------------------------------------------------------------
(***************************************************************************)
(* The rules.                                                              *)
(***************************************************************************)
\* The first place where the strings differ, or 0.
Differ(a, b, n) ==
  LET at == {i \in 1 .. n : a[i] # b[i]}
  IN  IF at = {} THEN 0 ELSE CHOOSE i \in at : \A j \in at : i <= j

Shorter(a, b) == IF Len(a) < Len(b) THEN Len(a) ELSE Len(b)

Lexical(a, b) ==
  LET i == Differ(a, b, Shorter(a, b))
  IN  IF i = 0 THEN Compare(Len(a), Len(b)) ELSE Compare(a[i], b[i])

Stripped(b) ==
  LET zeros == {n \in 0 .. Len(b) : \A i \in 1 .. n : b[i] = 0}
  IN  SubSeq(b, 1 + (CHOOSE n \in zeros : \A m \in zeros : m <= n), Len(b))

\* Bug: the lengths are compared with the leading zeros.
os_collate_binary_zeros(a, b) ==
  IF Len(a) # Len(b) THEN Compare(Len(a), Len(b)) ELSE Lexical(a, b)

\* Without leading zeros the longer string is the larger one.
os_collate_binary(a, b) ==
  LET s == Stripped(a)  t == Stripped(b)
  IN  IF Len(s) # Len(t) THEN Compare(Len(s), Len(t)) ELSE Lexical(s, t)

\* toupper, and the conversion of a byte to a char.
os_to_upper(c) == IF c = 1 THEN 0 ELSE c
Signed(c) == IF c < Base \div 2 THEN c ELSE c - Base

os_collate_unicode_string(a, b) ==
  LET up(s) == [i \in DOMAIN s |-> os_to_upper(s[i])] IN Lexical(up(a), up(b))

os_collate_ansi_string(a, b) ==
  LET up(s) == [i \in DOMAIN s |-> Signed(os_to_upper(s[i]))] IN Lexical(up(a), up(b))

os_collate_u64(a, b) == Compare(os_bstr_to_u64(a), os_bstr_to_u64(b))

\* The ranges m .. m + k - 1 and n .. n + l - 1: 0 when they overlap.
Ranges(m, k, n, l) ==
  IF m >= (n + l) % Pow[Width] THEN 1
  ELSE IF (m + k) % Pow[Width] <= n THEN -1 ELSE 0

\* Bug: the end of a range is taken to belong to it.
os_collate_extent_touching(x, y) ==
  LET m == os_bstr_to_u64(x.key)  k == os_bstr_to_u64(x.value)
      n == os_bstr_to_u64(y.key)  l == os_bstr_to_u64(y.value)
  IN  IF x.value = <<>> \/ y.value = <<>> THEN Compare(m, n)
      ELSE IF m > n + l THEN 1 ELSE IF m + k < n THEN -1 ELSE 0

os_collate_extent(x, y) ==
  IF x.value = <<>> \/ y.value = <<>> THEN os_collate_u64(x.key, y.key)
  ELSE Ranges(os_bstr_to_u64(x.key), os_bstr_to_u64(x.value),
              os_bstr_to_u64(y.key), os_bstr_to_u64(y.value))

os_collate_extent_map(x, y) ==
  LET p    == os_extent_pair_to_extent(x.value)
      q    == os_extent_pair_to_extent(y.value)
      virt == Ranges(os_bstr_to_u64(x.key), p.len, os_bstr_to_u64(y.key), q.len)
  IN  IF x.value = <<>> \/ y.value = <<>> THEN os_collate_u64(x.key, y.key)
      ELSE IF virt # 0 THEN virt ELSE Ranges(p.pa, p.len, q.pa, q.len)

collate_key(cr, x, y) ==
  CASE cr = "CR_BINARY"         -> os_collate_binary(x.key, y.key)
    [] cr = "CR_ANSI_STRING"    -> os_collate_ansi_string(x.key, y.key)
    [] cr = "CR_UNICODE_STRING" -> os_collate_unicode_string(x.key, y.key)
    [] cr = "CR_U64"            -> os_collate_u64(x.key, y.key)
    [] cr = "CR_EXTENT"         -> os_collate_extent(x, y)
    [] cr = "CR_EXTENT_MAP"     -> os_collate_extent_map(x, y)
-----------------------------------------------------------------------------
Plain == [key : BStr, value : {<<>>}]

\* A key alone, as a search may pass it, or with the length of the extent.
Extents ==
  {[key |-> os_u64_to_bstr(a), value |-> IF n = 0 THEN <<>> ELSE os_u64_to_bstr(n)] :
     a \in 0 .. MaxAddr, n \in 0 .. MaxExtent}

Mapped ==
  {[key |-> os_u64_to_bstr(a), value |-> os_extent_to_extent_pair(p, n)] :
     a \in 0 .. MaxAddr, p \in {0, MaxAddr}, n \in 0 .. MaxExtent}

Samples(cr) == CASE cr = "CR_EXTENT"     -> Extents
                 [] cr = "CR_EXTENT_MAP" -> Mapped
                 [] OTHER                -> Plain

Rules == {"CR_BINARY", "CR_ANSI_STRING", "CR_UNICODE_STRING", "CR_U64",
          "CR_EXTENT", "CR_EXTENT_MAP"}

Triples(cr) == [cr : {cr}, x : Samples(cr), y : Samples(cr), z : Samples(cr)]

NoEntries == [cr |-> "none"]

CollateInit == entries = NoEntries

Collating == entries # NoEntries

\* Comparisons are asked for one after the other.
CollateNext ==
  \/ ~Collating /\ \E cr \in Rules : entries' \in Triples(cr)
  \/ Collating /\ entries' = NoEntries
-----------------------------------------------------------------------------
(***************************************************************************)
(* Properties.                                                             *)
(***************************************************************************)
Num(e) == os_bstr_to_u64(e.key)
Length(e) ==
  IF e.value = <<>> THEN 0
  ELSE IF entries.cr = "CR_EXTENT_MAP" THEN os_extent_pair_to_extent(e.value).len
  ELSE os_bstr_to_u64(e.value)

Big(b) ==
  LET sum[i \in 0 .. Len(b)] == IF i = 0 THEN 0 ELSE sum[i - 1] * Base + b[i]
  IN  sum[Len(b)]

\* Extents in one tree do not overlap; a search for a range may.
Apart(e, f) ==
  /\ Length(e) > 0 /\ Length(f) > 0
  /\ Num(e) + Length(e) <= Num(f) \/ Num(f) + Length(f) <= Num(e)

Le(e, f) == collate_key(entries.cr, e, f) <= 0

\* Exchanging the entries reverses the result, and the entries a tree may
\* hold together are in one order: without this a search goes left where the
\* insertion went right.  Extents are ordered when no two overlap.
CollateOrders ==
  Collating =>
    LET x == entries.x  y == entries.y  z == entries.z
        ordered == \/ entries.cr \notin {"CR_EXTENT", "CR_EXTENT_MAP"}
                   \/ Apart(x, y) /\ Apart(y, z) /\ Apart(x, z)
    IN  /\ collate_key(entries.cr, x, y) = -collate_key(entries.cr, y, x)
        /\ ordered /\ Le(x, y) /\ Le(y, z) => Le(x, z)

\* A range finds exactly the entries it has a block in common with, which is
\* how the space manager finds what a freed range touches; a binary key is a
\* big-endian number, however many zeros it starts with.
CollateMeans ==
  Collating =>
    LET x == entries.x  y == entries.y
        r == collate_key(entries.cr, x, y)
        full == x.value # <<>> /\ y.value # <<>>
    IN  /\ entries.cr = "CR_BINARY" => r = Compare(Big(x.key), Big(y.key))
        /\ entries.cr = "CR_EXTENT" /\ full => (r = 0 <=> ~Apart(x, y))
        /\ entries.cr = "CR_EXTENT" /\ ~full => r = Compare(Num(x), Num(y))
        /\ entries.cr = "CR_EXTENT_MAP" /\ full => (Apart(x, y) => r # 0)

\* Numbers and extents come back from their stored form, which is the shortest
\* one: inode numbers, addresses and lengths are kept this way in the trees.
EncodingsExact ==
  Collating /\ entries.cr = "CR_U64" =>
    LET m == Num(entries.x)  n == Num(entries.y)
    IN  /\ os_bstr_to_u64(os_u64_to_bstr(m)) = m
        /\ Len(os_u64_to_bstr(m)) <= Len(entries.x.key)
        /\ n # 0 => os_extent_pair_to_extent(os_extent_to_extent_pair(m, n))
                    = [pa |-> m, len |-> n]
=============================================================================
