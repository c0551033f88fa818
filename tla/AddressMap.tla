----------------------------- MODULE AddressMap -----------------------------
(***************************************************************************)
(* The H3 address map (h3-components/h3_address_router.{h,cpp}): which      *)
(* memory an address belongs to, and where in it.  Without an allocation    *)
(* map that is decided by the two fixed regions, with one by the buffer the *)
(* address lies in.                                                         *)
(*                                                                         *)
(* A configuration c is H3RouterConfig:                                     *)
(*   hbm, hbf    the regions, [base, size]                                  *)
(*   mapped, map whether allocation_map is set, and the entries of its file *)
(*   toHbm       unmapped_to_hbm                                            *)
(* and the fields AddressRouter uses.  An entry of the file is              *)
(* [orig, size, region, h3, h3First]; h3First says that its line h3_addr    *)
(* comes before its line region.  A buffer that was loaded is               *)
(* [orig, size, region, local].  Addresses are words: they wrap.            *)
(***************************************************************************)
EXTENDS Integers, Sequences, FiniteSets, Functions

CONSTANT
  MaxAddr    \* 2^64 - 1

ASSUME AddressMapConstants == MaxAddr \in Nat

Word == 0 .. MaxAddr

Plus(a, b) == (a + b) % (MaxAddr + 1)

End(r) == Plus(r.base, r.size)

\* Mutant: Only a region that starts inside the other one overlaps it.
ValidOneSided(c) ==
  /\ c.hbm.size # 0 /\ c.hbf.size # 0
  /\ c.hbm.base <= MaxAddr - c.hbm.size
  /\ c.hbf.base <= MaxAddr - c.hbf.size
  /\ ~(c.hbm.base <= c.hbf.base /\ c.hbf.base < End(c.hbm))

\* validate(): no empty region, none that wraps, no overlap.
Valid(c) ==
  /\ c.hbm.size # 0 /\ c.hbf.size # 0
  /\ c.hbm.base <= MaxAddr - c.hbm.size
  /\ c.hbf.base <= MaxAddr - c.hbf.size
  /\ ~(c.hbm.base < End(c.hbf) /\ c.hbf.base < End(c.hbm))

\* The base an h3_addr is relative to is that of the region read so far.
LocalBase(c, e) ==
  LET base == IF e.region = "Hbf" /\ ~e.h3First THEN c.hbf.base ELSE c.hbm.base
  IN  IF e.h3 >= base THEN e.h3 - base ELSE 0

\* load_allocation_map(): entries without a size are dropped, the others
\* sorted by address, those that start alike in any order.
Loaded(c) ==
  LET kept == {k \in DOMAIN c.map : c.map[k].size # 0}
      places == 1 .. Cardinality(kept)
      sorted == {p \in Bijection(places, kept) :
                   \A i, j \in places : i < j => c.map[p[i]].orig <= c.map[p[j]].orig}
      Buffer(e) == [orig |-> e.orig, size |-> e.size, region |-> e.region,
                    local |-> LocalBase(c, e)]
  IN  {[i \in places |-> Buffer(c.map[p[i]])] : p \in sorted}

\* A map without entries, or with two that overlap, is refused.
Loadable(allocs) ==
  /\ allocs # <<>>
  /\ \A k \in 2 .. Len(allocs) :
       allocs[k].orig >= Plus(allocs[k - 1].orig, allocs[k - 1].size)

Holds(a, addr) == a.orig <= addr /\ addr < Plus(a.orig, a.size)

\* Mutant: The search narrows from above past the middle.
FindAllocSkips(allocs, addr) ==
  LET n == Len(allocs)
      search[range \in (0 .. n) \X (0 .. n)] ==
        LET lo == range[1]
            hi == range[2]
            mid == (lo + hi) \div 2
        IN  IF lo >= hi THEN lo
            ELSE IF allocs[mid + 1].orig <= addr
                 THEN search[<<mid + 1, hi>>]
                 ELSE search[<<lo, IF mid = lo THEN mid ELSE mid - 1>>]
      found == search[<<0, n>>]
  IN  {a \in {allocs[k] : k \in {found} \ {0}} : Holds(a, addr)}

\* find_alloc(): binary search for the last entry that does not start behind
\* addr; the buffer addr lies in, if any, as a set.
FindAlloc(allocs, addr) ==
  LET n == Len(allocs)
      search[range \in (0 .. n) \X (0 .. n)] ==
        LET lo == range[1]
            hi == range[2]
            mid == (lo + hi) \div 2
        IN  IF lo >= hi THEN lo
            ELSE IF allocs[mid + 1].orig <= addr
                 THEN search[<<mid + 1, hi>>]
                 ELSE search[<<lo, mid>>]
      found == search[<<0, n>>]
  IN  {a \in {allocs[k] : k \in {found} \ {0}} : Holds(a, addr)}

Within(r, addr) == r.base <= addr /\ addr < End(r)

\* decode()
Decode(c, allocs, addr) ==
  LET hit == FindAlloc(allocs, addr)
  IN  IF allocs # <<>>
      THEN IF hit # {} THEN (CHOOSE a \in hit : TRUE).region
           ELSE IF c.toHbm THEN "Hbm" ELSE "Unmapped"
      ELSE IF Within(c.hbm, addr) THEN "Hbm"
           ELSE IF Within(c.hbf, addr) THEN "Hbf" ELSE "Unmapped"

\* Mutant: Every buffer starts where its memory does.
LocalAddrNoBase(c, allocs, addr, region) ==
  LET hit == FindAlloc(allocs, addr)
      a == CHOOSE a \in hit : TRUE
  IN  IF allocs # <<>>
      THEN IF hit = {} THEN 0 ELSE addr - a.orig
      ELSE CASE region = "Hbm" -> addr - c.hbm.base
             [] region = "Hbf" -> addr - c.hbf.base

\* to_local_addr(); what lies in no buffer is all mapped to the base of HBM.
LocalAddr(c, allocs, addr, region) ==
  LET hit == FindAlloc(allocs, addr)
      a == CHOOSE a \in hit : TRUE
  IN  IF allocs # <<>>
      THEN IF hit = {} THEN 0 ELSE Plus(a.local, addr - a.orig)
      ELSE CASE region = "Hbm" -> addr - c.hbm.base
             [] region = "Hbf" -> addr - c.hbf.base
=============================================================================
