--------------------------- MODULE TraceClassifier --------------------------
(***************************************************************************)
(* tools/classify_trace.py, and the router that loads what it writes.  From *)
(* the pages a trace touches the tool guesses the buffers, gives each a     *)
(* place in HBM or HBF and writes the allocation map.                       *)
(*                                                                         *)
(* pages maps a touched page to the bytes [read, write] it is accessed for. *)
(* Options o are the tool's: page, gap, split, min, align, and target, the  *)
(* percentage --hbf-traffic-target or None.  A configuration of the router  *)
(* whose map was made by the tool says so in its fields pages and options.  *)
(***************************************************************************)
EXTENDS AddressRouter, SequencesExt

None == -1

Traffic(r) == r.read + r.write

\* sorted(), of a set of numbers.
Ascending(S) ==
  [i \in 1 .. Cardinality(S) |->
     CHOOSE p \in S : Cardinality({q \in S : q < p}) = i - 1]

\* Mutant: The bytes written are not added up.
MergePagesForgetsWrites(pages, o) ==
  LET Join(ranges, pg) ==
        LET page == [start |-> pg * o.page, end |-> (pg + 1) * o.page,
                     read |-> pages[pg].read, write |-> pages[pg].write]
            cur == Last(ranges)
            joinable == /\ ranges # <<>>
                        /\ page.start - cur.end <= o.gap
                        /\ ~(o.split /\ (page.write > 0 \/ cur.write > 0))
        IN  IF joinable
            THEN Append(Front(ranges), [cur EXCEPT !.end = page.end,
                                                   !.read = @ + page.read])
            ELSE Append(ranges, page)
      sorted == Ascending(DOMAIN pages)
      merged[n \in 0 .. Cardinality(DOMAIN pages)] ==
        IF n = 0 THEN <<>> ELSE Join(merged[n - 1], sorted[n])
  IN  merged[Cardinality(DOMAIN pages)]

\* merge_pages(): pages at most a gap apart are one range; --split-on-write
\* ends a range at every page written.
MergePages(pages, o) ==
  LET Join(ranges, pg) ==
        LET page == [start |-> pg * o.page, end |-> (pg + 1) * o.page,
                     read |-> pages[pg].read, write |-> pages[pg].write]
            cur == Last(ranges)
            joinable == /\ ranges # <<>>
                        /\ page.start - cur.end <= o.gap
                        /\ ~(o.split /\ (page.write > 0 \/ cur.write > 0))
        IN  IF joinable
            THEN Append(Front(ranges), [cur EXCEPT !.end = page.end,
                                                   !.read = @ + page.read,
                                                   !.write = @ + page.write])
            ELSE Append(ranges, page)
      sorted == Ascending(DOMAIN pages)
      merged[n \in 0 .. Cardinality(DOMAIN pages)] ==
        IF n = 0 THEN <<>> ELSE Join(merged[n - 1], sorted[n])
  IN  merged[Cardinality(DOMAIN pages)]

\* --hbf-traffic-target: the ranges read most, until they carry the share.
Forced(ranges, o) ==
  LET order == SetToSortSeq(DOMAIN ranges,
                 LAMBDA i, j : \/ ranges[i].read > ranges[j].read
                               \/ ranges[i].read = ranges[j].read /\ i < j)
      total == FoldLeft(LAMBDA n, r : n + Traffic(r), 0, ranges)
      before(k) == FoldLeft(LAMBDA n, i : n + Traffic(ranges[i]), 0,
                            SubSeq(order, 1, k - 1))
      want == o.target * (IF total = 0 THEN 1 ELSE total)
  IN  {order[k] : k \in {k \in DOMAIN order : 100 * before(k) < want}}

ToHbf(ranges, i, o) ==
  IF o.target # None THEN i \in Forced(ranges, o)
  ELSE ranges[i].write = 0 /\ ranges[i].end - ranges[i].start >= o.min

\* Mutant: The next offset is rounded down.
BumpRoundsDown(cur, region, size, o) ==
  LET next == ((cur[region] + size) \div o.align) * o.align
  IN  [cur EXCEPT ![region] = next]

\* bump(): the next free offset of a memory.
Bump(cur, region, size, o) ==
  [cur EXCEPT ![region] = ((@ + size + o.align - 1) \div o.align) * o.align]

\* The allocation map, bases as given by --hbm-base and --hbf-base.
Classified(pages, o, base) ==
  LET ranges == MergePages(pages, o)
      region(i) == IF ToHbf(ranges, i, o) THEN "Hbf" ELSE "Hbm"
      size(i) == ranges[i].end - ranges[i].start
      cur[n \in 0 .. Len(ranges)] ==
        IF n = 0 THEN [m \in Memories |-> 0] ELSE Bump(cur[n - 1], region(n), size(n), o)
  IN  [i \in 1 .. Len(ranges) |->
         [orig |-> ranges[i].start, size |-> size(i), region |-> region(i),
          h3First |-> FALSE, h3 |-> base[region(i)] + cur[i - 1][region(i)]]]

Bases(c) == [m \in Memories |-> IF m = "Hbm" THEN c.hbm.base ELSE c.hbf.base]

\* c with the map made from a trace, for the regions of c.
Traced(c, pages, o) ==
  [c EXCEPT !.mapped = TRUE, !.pages = pages, !.options = o,
            !.map = Classified(pages, o, Bases(c))]

\* What the tool is run on: pages and options are numbers, and both the pages of
\* the trace and the places the tool gives them end within the address space.
ASSUME TraceConstants ==
  \A c \in Configs : DOMAIN c.pages # {} =>
    /\ c.mapped /\ c.map = Classified(c.pages, c.options, Bases(c))
    /\ {c.options.page, c.options.align} \subseteq Nat \ {0}
    /\ IsFiniteSet(DOMAIN c.pages)
    /\ \A pg \in DOMAIN c.pages :
         /\ pg \in Nat /\ (pg + 1) * c.options.page <= MaxAddr
         /\ c.pages[pg].read \in Nat /\ c.pages[pg].write \in Nat
    /\ \A k \in DOMAIN c.map : c.map[k].h3 + c.map[k].size <= MaxAddr
-----------------------------------------------------------------------------
(* Properties of the tool and the router together.                          *)

Touched(pg) == pg * cfg.options.page .. (pg + 1) * cfg.options.page - 1

IsTraced == DOMAIN cfg.pages # {}

\* The map the tool writes gives every byte of the trace a place that no other
\* has: no access of the trace is "unallocated" and sent to the base of HBM, and no
\* two buffers share a place.  "A buffer goes to HBF only if the trace never stores
\* to it": by the tool's own rule no store is ever one to HBF, however pages were
\* merged into buffers.
TraceHasPlaces ==
  IsTraced =>
    /\ MapIsSound
    /\ \A pg \in DOMAIN cfg.pages : \A addr \in Touched(pg) :
         /\ FindAlloc(allocs, addr) # {}
         /\ cfg.options.target = None /\ cfg.pages[pg].write > 0 =>
              Decode(cfg, allocs, addr) = "Hbm"
=============================================================================
