--------------------------- MODULE AddressRouter ---------------------------
(***************************************************************************)
(* H3AddressRouter (h3-components/h3_address_router.{h,cpp}): every request *)
(* is decoded, checked against the write policy of HBF, offered to the      *)
(* memory it is for, and counted under what became of it.                   *)
(*                                                                         *)
(* The fields of a configuration that AddressMap does not describe:         *)
(*   hops, hopTime      d2d_hops_to_hbf and the time of one                 *)
(*   enforce, policy    enforce_hbf_read_only, hbf_write_policy             *)
(*   warn, maxWarnings  warn_on_hbf_write, max_warnings                     *)
(* and, as a bound on behaviours,                                           *)
(*   calls              calls of route() between two of reset_stats()       *)
(* A request is [addr, write, size, time].                                  *)
(***************************************************************************)
EXTENDS AddressMap

CONSTANTS
  Configs,     \* configurations to consider; those the constructor refuses
               \* do not run
  Requests     \* requests the caller may route

Memories == {"Hbm", "Hbf"}

Policies == {"Reject", "RedirectHbm", "Allow"}

Statuses == {"RoutedHbm", "RoutedHbf", "RejectedWriteToHbf", "RejectedUnmapped",
             "RejectedBackendFull"}

ASSUME AddressRouterConstants ==
  /\ \A r \in Requests :
       r.addr \in Word /\ r.write \in BOOLEAN /\ r.size \in Nat /\ r.time \in Nat
  /\ \A c \in Configs :
       /\ {c.hbm.base, c.hbm.size, c.hbf.base, c.hbf.size} \subseteq Word
       /\ {c.hops, c.hopTime, c.maxWarnings, c.calls} \subseteq Nat
       /\ {c.mapped, c.toHbm, c.enforce, c.warn} \subseteq BOOLEAN
       /\ c.policy \in Policies
       /\ c.map \in Seq([orig : Word, size : Word, region : Memories, h3 : Word,
                          h3First : BOOLEAN])

VARIABLES
  cfg,       \* m_config
  allocs,    \* m_allocs
  attached,  \* the backends that are not null
  stats,     \* m_stats
  warnings,  \* m_warnings_emitted
  told       \* for checking: what the callers of route() were told, counted
             \* since the last reset: per status and direction, [n, bytes]

vars == <<cfg, allocs, attached, stats, warnings, told>>

NoStats ==
  [total |-> 0, unmapped |-> 0, attempts |-> 0, redirected |-> 0, full |-> 0,
   hops |-> 0, unallocated |-> 0, window |-> {},
   reads |-> [m \in Memories |-> 0], writes |-> [m \in Memories |-> 0],
   requests |-> [m \in Memories |-> 0], bytes |-> [m \in Memories |-> 0]]

NoneTold == [k \in Statuses \X BOOLEAN |-> [n |-> 0, bytes |-> 0]]

Region(req) == Decode(cfg, allocs, req.addr)

-----------------------------------------------------------------------------
(* inspect(): what is to become of a request, the backend not yet asked.    *)

\* Mutant: Only the policy "Reject" keeps writes away.
KeptFromHbfRejectOnly(req) ==
  req.write /\ cfg.enforce /\ cfg.policy = "Reject"

KeptFromHbf(req) == req.write /\ cfg.enforce /\ cfg.policy # "Allow"

Redirected(req) ==
  Region(req) = "Hbf" /\ KeptFromHbf(req) /\ cfg.policy = "RedirectHbm"

Status(req) ==
  IF Region(req) = "Unmapped" THEN "RejectedUnmapped"
  ELSE IF Region(req) = "Hbm" \/ Redirected(req) THEN "RoutedHbm"
  ELSE IF KeptFromHbf(req) THEN "RejectedWriteToHbf"
  ELSE "RoutedHbf"

\* Only a route to HBF crosses the dies.
Inspect(req) ==
  LET hops == IF Status(req) = "RoutedHbf" THEN cfg.hops ELSE 0
  IN  [status |-> Status(req),
       region |-> IF Status(req) = "RoutedHbm" THEN "Hbm" ELSE Region(req),
       local |-> IF Region(req) = "Unmapped" \/ Redirected(req) THEN 0
                 ELSE LocalAddr(cfg, allocs, req.addr, Region(req)),
       hops |-> hops,
       issue |-> req.time + hops * cfg.hopTime]

-----------------------------------------------------------------------------
(* route()                                                                  *)

\* note_time(): the window is empty or holds its first and its last time.
Noted(window, time) ==
  LET times == window \cup {time}
  IN  {t \in times : (\A u \in times : t <= u) \/ (\A u \in times : t >= u)}

\* What every request changes in the statistics.
Seen(req) ==
  [stats EXCEPT !.total = @ + 1,
                !.window = Noted(@, req.time),
                !.unallocated =
                  IF allocs # <<>> /\ FindAlloc(allocs, req.addr) = {} THEN @ + 1
                  ELSE @]

\* warn(), up to max_warnings.
Warn == warnings' = IF cfg.warn /\ warnings < cfg.maxWarnings
                    THEN warnings + 1 ELSE warnings

Tell(req, status) ==
  told' = [told EXCEPT ![<<status, req.write>>] =
             [n |-> @.n + 1, bytes |-> @.bytes + req.size]]

\* A write for HBF counts as redirected on the policy alone.
CountsAsRedirected(req) ==
  req.write /\ Region(req) = "Hbf" /\ cfg.policy = "RedirectHbm"

Attempted(req) ==
  IF CountsAsRedirected(req)
  THEN [Seen(req) EXCEPT !.attempts = @ + 1, !.redirected = @ + 1]
  ELSE Seen(req)

\* Mutant: A write that is turned away is counted as redirected.
RouteReadOnlyMiscounts(req) ==
  /\ Inspect(req).status = "RejectedWriteToHbf"
  /\ stats' = [Seen(req) EXCEPT !.attempts = @ + 1, !.redirected = @ + 1]
  /\ Warn
  /\ Tell(req, "RejectedWriteToHbf")
  /\ UNCHANGED <<cfg, allocs, attached>>

RouteUnmapped(req) ==
  /\ Inspect(req).status = "RejectedUnmapped"
  /\ stats' = [Seen(req) EXCEPT !.unmapped = @ + 1]
  /\ Warn
  /\ Tell(req, "RejectedUnmapped")
  /\ UNCHANGED <<cfg, allocs, attached>>

RouteReadOnly(req) ==
  /\ Inspect(req).status = "RejectedWriteToHbf"
  /\ stats' = [Seen(req) EXCEPT !.attempts = @ + 1]
  /\ Warn
  /\ Tell(req, "RejectedWriteToHbf")
  /\ UNCHANGED <<cfg, allocs, attached>>

\* The memory a routed request is offered to.
Target(req) == IF Inspect(req).status = "RoutedHbm" THEN "Hbm" ELSE "Hbf"

Routed(req) ==
  /\ Inspect(req).status \in {"RoutedHbm", "RoutedHbf"}
  /\ IF CountsAsRedirected(req) THEN Warn ELSE UNCHANGED warnings
  /\ UNCHANGED <<cfg, allocs, attached>>

\* The backend is full or refuses.
RouteFull(req) ==
  /\ Routed(req)
  /\ Target(req) \in attached
  /\ stats' = [Attempted(req) EXCEPT !.full = @ + 1]
  /\ Tell(req, "RejectedBackendFull")

\* Mutant: The statistics go by the region of the address.
DeliveredByRegion(req) ==
  LET m == Region(req)
      s == Attempted(req)
      direction == IF req.write THEN [s EXCEPT !.writes[m] = @ + 1]
                   ELSE [s EXCEPT !.reads[m] = @ + 1]
  IN  [direction EXCEPT !.requests[m] = @ + 1, !.bytes[m] = @ + req.size,
                        !.hops = @ + Inspect(req).hops]

Delivered(req) ==
  LET m == Target(req)
      s == Attempted(req)
      direction == IF req.write THEN [s EXCEPT !.writes[m] = @ + 1]
                   ELSE [s EXCEPT !.reads[m] = @ + 1]
  IN  [direction EXCEPT !.requests[m] = @ + 1, !.bytes[m] = @ + req.size,
                        !.hops = @ + Inspect(req).hops]

\* The backend takes it, or there is none.
RouteDelivered(req) ==
  /\ Routed(req)
  /\ stats' = Delivered(req)
  /\ Tell(req, Inspect(req).status)

Route(req) ==
  /\ stats.total < cfg.calls
  /\ \/ RouteUnmapped(req) \/ RouteReadOnly(req)
     \/ RouteFull(req) \/ RouteDelivered(req)

SetBackends ==
  /\ attached' \in SUBSET Memories
  /\ UNCHANGED <<cfg, allocs, stats, warnings, told>>

\* The warnings already given are not forgotten.
ResetStats ==
  /\ stats' = NoStats
  /\ told' = NoneTold
  /\ UNCHANGED <<cfg, allocs, attached, warnings>>

-----------------------------------------------------------------------------
\* The constructor, when it does not throw.
Init ==
  /\ cfg \in {c \in Configs : Valid(c)}
  /\ allocs \in IF cfg.mapped THEN Loaded(cfg) ELSE {<<>>}
  /\ cfg.mapped => Loadable(allocs)
  /\ attached \in SUBSET Memories
  /\ stats = NoStats
  /\ warnings = 0
  /\ told = NoneTold

Next ==
  \/ \E req \in Requests : Route(req)
  \/ SetBackends
  \/ ResetStats

Spec == Init /\ [][Next]_vars
-----------------------------------------------------------------------------
(* Properties.                                                              *)

\* Every variable keeps the type its declaration gives it, and there are no
\* more warnings than the configuration allows, counted over all resets.
TypeOK ==
  /\ Valid(cfg)
  /\ attached \subseteq Memories
  /\ stats \in [total : Nat, unmapped : Nat, attempts : Nat, redirected : Nat,
                full : Nat, hops : Nat, unallocated : Nat, window : SUBSET Nat,
                reads : [Memories -> Nat], writes : [Memories -> Nat],
                requests : [Memories -> Nat], bytes : [Memories -> Nat]]
  /\ warnings \in 0 .. cfg.maxWarnings
  /\ told \in [Statuses \X BOOLEAN -> [n : Nat, bytes : Nat]]

Reads(status) == told[<<status, FALSE>>]
Writes(status) == told[<<status, TRUE>>]
Both(status) == Reads(status).n + Writes(status).n

\* The statistics tell what callers were told: each of the exits of route()
\* counts its request once and under the name the caller gets, whatever was
\* counted before the backend had its say.  While HBF is enforced to be
\* read-only, "a redirected write is an HBF-address write that policy sent to
\* HBM"; without, the writes counted as redirected are those HBF took.
StatsAgree ==
  /\ stats.total = Both("RoutedHbm") + Both("RoutedHbf") + Both("RejectedUnmapped")
                     + Both("RejectedWriteToHbf") + Both("RejectedBackendFull")
  /\ \A m \in Memories :
       LET status == IF m = "Hbm" THEN "RoutedHbm" ELSE "RoutedHbf"
       IN  /\ stats.requests[m] = Both(status)
           /\ stats.reads[m] = Reads(status).n
           /\ stats.writes[m] = Writes(status).n
           /\ stats.bytes[m] = Reads(status).bytes + Writes(status).bytes
  /\ stats.unmapped = Both("RejectedUnmapped")
  /\ stats.full = Both("RejectedBackendFull")
  /\ stats.attempts = stats.redirected + Both("RejectedWriteToHbf")
  /\ stats.hops = cfg.hops * stats.requests["Hbf"]
  /\ stats.redirected <=
       Writes(IF cfg.enforce THEN "RoutedHbm" ELSE "RoutedHbf").n
         + Writes("RejectedBackendFull").n

\* "weights/shared KV must never be written": no write gets through to HBF
\* under any route, redirection and backpressure included.
HbfStaysReadOnly ==
  cfg.enforce /\ cfg.policy # "Allow" => Writes("RoutedHbf").n = 0

Owners(addr) == {k \in DOMAIN allocs : Holds(allocs[k], addr)}

\* Does the binary search find the buffer an address lies in whenever there is
\* one, and is there never a second?
SearchFindsOwner ==
  \A addr \in Word :
    /\ Cardinality(Owners(addr)) <= 1
    /\ FindAlloc(allocs, addr) = {allocs[k] : k \in Owners(addr)}

\* Do two loaded buffers get the same place of a memory?
Shares(a, b) ==
  /\ a.region = b.region
  /\ a.local < b.local + b.size /\ b.local < a.local + a.size

MapIsSound ==
  /\ \A k \in DOMAIN allocs : allocs[k].local + allocs[k].size <= MaxAddr
  /\ \A j, k \in DOMAIN allocs : j # k => ~Shares(allocs[j], allocs[k])

\* Does the map say where the address belongs?
Known(addr) == IF allocs = <<>> THEN Decode(cfg, allocs, addr) # "Unmapped"
               ELSE FindAlloc(allocs, addr) # {}

Home(addr) ==
  LET region == Decode(cfg, allocs, addr)
  IN  <<region, LocalAddr(cfg, allocs, addr, region)>>

\* "the whole point of the router is an unambiguous decode": every address that
\* lies in a buffer is found there; two addresses are never sent to the same
\* place of a memory, when the map's buffers have places of their own and neither
\* is one the map says nothing of; and with the regions alone, every place of
\* either memory has its address.
OneHome ==
  LET known == {addr \in Word : Known(addr)}
  IN  /\ SearchFindsOwner
      /\ MapIsSound => Cardinality({Home(addr) : addr \in known}) = Cardinality(known)
      /\ allocs = <<>> =>
           {Home(addr) : addr \in known} =
             ({"Hbm"} \X (0 .. cfg.hbm.size - 1))
               \cup ({"Hbf"} \X (0 .. cfg.hbf.size - 1))
=============================================================================
