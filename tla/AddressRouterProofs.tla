------------------------- MODULE AddressRouterProofs -------------------------
(***************************************************************************)
(* Proofs about the address router, for every address space, configuration *)
(* and sequence of requests: its statistics, what it keeps away from HBF,  *)
(* and the decode, by the two regions and by a map.                        *)
(***************************************************************************)
EXTENDS AddressRouter, Induction, FiniteSetTheorems, SequenceTheorems, TLAPS

StatsType ==
  [total : Nat, unmapped : Nat, attempts : Nat, redirected : Nat,
   full : Nat, hops : Nat, unallocated : Nat, window : SUBSET Nat,
   reads : [Memories -> Nat], writes : [Memories -> Nat],
   requests : [Memories -> Nat], bytes : [Memories -> Nat]]

ToldType == [Statuses \X BOOLEAN -> [n : Nat, bytes : Nat]]

Typed == /\ cfg \in Configs
         /\ stats \in StatsType
         /\ told \in ToldType

\* The statistics in which a request that is routed changes nothing but what
\* Attempted says.
Uncounted(s, t) ==
  /\ s.unmapped = t.unmapped /\ s.full = t.full /\ s.hops = t.hops
  /\ s.reads = t.reads /\ s.writes = t.writes
  /\ s.requests = t.requests /\ s.bytes = t.bytes

-----------------------------------------------------------------------------
(* What the constants are.                                                  *)

LEMMA RequestType ==
  ASSUME NEW req \in Requests
  PROVE  req.addr \in Word /\ req.write \in BOOLEAN /\ req.size \in Nat /\ req.time \in Nat
BY AddressRouterConstants

LEMMA ConfigType ==
  ASSUME NEW c \in Configs
  PROVE  /\ c.hops \in Nat /\ c.maxWarnings \in Nat
         /\ c.hbm.base \in Word /\ c.hbm.size \in Word
         /\ c.hbf.base \in Word /\ c.hbf.size \in Word
         /\ c.enforce \in BOOLEAN /\ c.warn \in BOOLEAN
<1>1. /\ {c.hbm.base, c.hbm.size, c.hbf.base, c.hbf.size} \subseteq Word
      /\ {c.hops, c.hopTime, c.maxWarnings, c.calls} \subseteq Nat
      /\ {c.mapped, c.toHbm, c.enforce, c.warn} \subseteq BOOLEAN
  BY AddressRouterConstants
<1> QED
  BY <1>1

-----------------------------------------------------------------------------
(* The statistics, exit by exit.                                            *)

LEMMA SeenStats ==
  ASSUME Typed, NEW req \in Requests
  PROVE  /\ Seen(req) \in StatsType
         /\ Seen(req).total = stats.total + 1
         /\ Seen(req).attempts = stats.attempts
         /\ Seen(req).redirected = stats.redirected
         /\ Uncounted(Seen(req), stats)
<1> DEFINE w == Noted(stats.window, req.time)
           u == IF allocs # <<>> /\ FindAlloc(allocs, req.addr) = {}
                THEN stats.unallocated + 1 ELSE stats.unallocated
<1>1. stats \in StatsType /\ stats.window \in SUBSET Nat /\ stats.unallocated \in Nat
  BY DEF Typed, StatsType
<1>2. w \in SUBSET Nat
  BY <1>1, RequestType DEF Noted
<1>3. u \in Nat
  BY <1>1
<1>4. Seen(req) = [stats EXCEPT !.total = @ + 1, !.window = w, !.unallocated = u]
  BY DEF Seen
<1> HIDE DEF w, u
<1>5. stats.total + 1 \in Nat
  BY <1>1 DEF StatsType
<1>6. Seen(req) \in StatsType
  BY <1>1, <1>2, <1>3, <1>4, <1>5 DEF StatsType
<1>7. /\ Seen(req).total = stats.total + 1
      /\ Seen(req).attempts = stats.attempts
      /\ Seen(req).redirected = stats.redirected
  BY <1>1, <1>4 DEF StatsType
<1>8. Uncounted(Seen(req), stats)
  BY <1>1, <1>4 DEF StatsType, Uncounted
<1> QED
  BY <1>6, <1>7, <1>8

LEMMA AttemptedStats ==
  ASSUME Typed, NEW req \in Requests
  PROVE  LET extra == IF CountsAsRedirected(req) THEN 1 ELSE 0
         IN  /\ Attempted(req) \in StatsType
             /\ Attempted(req).total = stats.total + 1
             /\ Attempted(req).attempts = stats.attempts + extra
             /\ Attempted(req).redirected = stats.redirected + extra
             /\ Uncounted(Attempted(req), stats)
<1>1. stats \in StatsType /\ stats.attempts \in Nat /\ stats.redirected \in Nat
  BY DEF Typed, StatsType
<1>2. PICK s \in StatsType : s = Seen(req)
  BY SeenStats
<1>3. /\ s.total = stats.total + 1 /\ s.attempts = stats.attempts
      /\ s.redirected = stats.redirected /\ Uncounted(s, stats)
  BY <1>2, SeenStats
<1>4. CASE CountsAsRedirected(req)
  <2>1. Attempted(req) = [s EXCEPT !.attempts = @ + 1, !.redirected = @ + 1]
    BY <1>2, <1>4 DEF Attempted
  <2>2. s.attempts + 1 \in Nat /\ s.redirected + 1 \in Nat
    BY <1>1, <1>3
  <2>3. Attempted(req) \in StatsType
    BY <2>1, <2>2 DEF StatsType
  <2>4. /\ Attempted(req).total = s.total
        /\ Attempted(req).attempts = s.attempts + 1
        /\ Attempted(req).redirected = s.redirected + 1
    BY <2>1 DEF StatsType
  <2>5. Uncounted(Attempted(req), stats)
    BY <1>3, <2>1 DEF StatsType, Uncounted
  <2> QED
    BY <1>3, <1>4, <2>3, <2>4, <2>5
<1>5. CASE ~CountsAsRedirected(req)
  <2>1. Attempted(req) = s
    BY <1>2, <1>5 DEF Attempted
  <2> QED
    BY <1>1, <1>3, <1>5, <2>1
<1> QED
  BY <1>4, <1>5

LEMMA TargetType ==
  ASSUME NEW req
  PROVE  Target(req) \in Memories
BY DEF Target, Memories

LEMMA HopsType ==
  ASSUME Typed, NEW req
  PROVE  /\ Inspect(req).hops \in Nat
         /\ Inspect(req).status = Status(req)
         /\ Inspect(req).hops = IF Status(req) = "RoutedHbf" THEN cfg.hops ELSE 0
<1>1. cfg.hops \in Nat
  BY ConfigType DEF Typed
<1> QED
  BY <1>1 DEF Inspect

\* What a request adds that the backend takes.
LEMMA DeliveredStats ==
  ASSUME Typed, NEW req \in Requests
  PROVE  LET m == Target(req)
             s == Attempted(req)
             d == Delivered(req)
         IN  /\ d \in StatsType
             /\ d.total = s.total /\ d.attempts = s.attempts
             /\ d.redirected = s.redirected
             /\ d.unmapped = s.unmapped /\ d.full = s.full
             /\ d.hops = s.hops + Inspect(req).hops
             /\ d.requests[m] = s.requests[m] + 1
             /\ d.bytes[m] = s.bytes[m] + req.size
             /\ d.reads[m] = s.reads[m] + (IF req.write THEN 0 ELSE 1)
             /\ d.writes[m] = s.writes[m] + (IF req.write THEN 1 ELSE 0)
             /\ \A o \in Memories \ {m} :
                  /\ d.requests[o] = s.requests[o] /\ d.bytes[o] = s.bytes[o]
                  /\ d.reads[o] = s.reads[o] /\ d.writes[o] = s.writes[o]
<1>1. PICK m \in Memories : m = Target(req)
  BY TargetType
<1>2. PICK s \in StatsType : s = Attempted(req)
  BY AttemptedStats
<1>3. PICK h \in Nat : h = Inspect(req).hops
  BY HopsType
<1>4. req.size \in Nat /\ req.write \in BOOLEAN
  BY RequestType
<1> DEFINE direction == IF req.write THEN [s EXCEPT !.writes[m] = @ + 1]
                        ELSE [s EXCEPT !.reads[m] = @ + 1]
<1>5. /\ s.reads \in [Memories -> Nat] /\ s.writes \in [Memories -> Nat]
      /\ s.requests \in [Memories -> Nat] /\ s.bytes \in [Memories -> Nat]
      /\ s.hops \in Nat
  BY DEF StatsType
<1>6. /\ direction \in StatsType
      /\ direction.total = s.total /\ direction.attempts = s.attempts
      /\ direction.redirected = s.redirected /\ direction.unmapped = s.unmapped
      /\ direction.full = s.full /\ direction.hops = s.hops
      /\ direction.requests = s.requests /\ direction.bytes = s.bytes
      /\ direction.reads[m] = s.reads[m] + (IF req.write THEN 0 ELSE 1)
      /\ direction.writes[m] = s.writes[m] + (IF req.write THEN 1 ELSE 0)
      /\ \A o \in Memories \ {m} : /\ direction.reads[o] = s.reads[o]
                                   /\ direction.writes[o] = s.writes[o]
  <2>1. CASE req.write
    BY <1>5, <2>1 DEF StatsType
  <2>2. CASE ~req.write
    BY <1>5, <2>2 DEF StatsType
  <2> QED
    BY <1>4, <2>1, <2>2
<1>7. Delivered(req) = [direction EXCEPT !.requests[m] = @ + 1, !.bytes[m] = @ + req.size,
                                         !.hops = @ + h]
  BY <1>1, <1>2, <1>3 DEF Delivered
<1> HIDE DEF direction
<1> DEFINE requests == [direction.requests EXCEPT ![m] = @ + 1]
           bytes == [direction.bytes EXCEPT ![m] = @ + req.size]
           hops == direction.hops + h
<1>8. /\ requests \in [Memories -> Nat] /\ bytes \in [Memories -> Nat]
      /\ hops \in Nat /\ hops = direction.hops + h
      /\ requests[m] = direction.requests[m] + 1
      /\ bytes[m] = direction.bytes[m] + req.size
      /\ \A o \in Memories \ {m} : /\ requests[o] = direction.requests[o]
                                   /\ bytes[o] = direction.bytes[o]
  BY <1>4, <1>5, <1>6
<1>9. Delivered(req) = [direction EXCEPT !.requests = requests, !.bytes = bytes,
                                          !.hops = hops]
  BY <1>6, <1>7 DEF StatsType
<1> HIDE DEF requests, bytes, hops
<1>10. Delivered(req) \in StatsType
  <2>1. direction \in StatsType
    BY <1>6
  <2>2. requests \in [Memories -> Nat] /\ bytes \in [Memories -> Nat] /\ hops \in Nat
    BY <1>8
  <2> QED
    BY <1>9, <2>1, <2>2 DEF StatsType
<1>11. LET d == Delivered(req)
      IN  /\ d.total = direction.total /\ d.attempts = direction.attempts
          /\ d.redirected = direction.redirected /\ d.unmapped = direction.unmapped
          /\ d.full = direction.full /\ d.hops = direction.hops + h
          /\ d.reads = direction.reads /\ d.writes = direction.writes
          /\ d.requests[m] = direction.requests[m] + 1
          /\ d.bytes[m] = direction.bytes[m] + req.size
          /\ \A o \in Memories \ {m} : /\ d.requests[o] = direction.requests[o]
                                       /\ d.bytes[o] = direction.bytes[o]
  BY <1>6, <1>8, <1>9 DEF StatsType
<1> QED
  BY <1>1, <1>2, <1>3, <1>6, <1>10, <1>11

\* The answer a caller gets is counted once, under its status and direction.
LEMMA Told ==
  ASSUME Typed, NEW req \in Requests, NEW status \in Statuses, Tell(req, status)
  PROVE  /\ told' \in ToldType
         /\ \A s \in Statuses, w \in BOOLEAN :
              told'[<<s, w>>] =
                IF s = status /\ w = req.write
                THEN [n |-> told[<<s, w>>].n + 1, bytes |-> told[<<s, w>>].bytes + req.size]
                ELSE told[<<s, w>>]
<1>1. req.write \in BOOLEAN /\ req.size \in Nat
  BY RequestType
<1>2. told \in ToldType /\ <<status, req.write>> \in Statuses \X BOOLEAN
  BY <1>1 DEF Typed
<1>3. told[<<status, req.write>>] \in [n : Nat, bytes : Nat]
  BY <1>2 DEF ToldType
<1>4. told' = [told EXCEPT ![<<status, req.write>>] =
                 [n |-> told[<<status, req.write>>].n + 1,
                  bytes |-> told[<<status, req.write>>].bytes + req.size]]
  BY DEF Tell
<1>5. told' \in ToldType
  BY <1>1, <1>2, <1>3, <1>4 DEF ToldType
<1>6. ASSUME NEW s \in Statuses, NEW w \in BOOLEAN
      PROVE  told'[<<s, w>>] =
               IF s = status /\ w = req.write
               THEN [n |-> told[<<s, w>>].n + 1, bytes |-> told[<<s, w>>].bytes + req.size]
               ELSE told[<<s, w>>]
  BY <1>1, <1>2, <1>4 DEF ToldType
<1> QED
  BY <1>5, <1>6

LEMMA ToldCounts ==
  ASSUME Typed, NEW req \in Requests, NEW status \in Statuses, Tell(req, status)
  PROVE  \A s \in Statuses :
           /\ Both(s) \in Nat /\ Both(s)' = Both(s) + (IF s = status THEN 1 ELSE 0)
           /\ Reads(s).n \in Nat /\ Writes(s).n \in Nat
           /\ Reads(s).n' = Reads(s).n + (IF s = status /\ ~req.write THEN 1 ELSE 0)
           /\ Writes(s).n' = Writes(s).n + (IF s = status /\ req.write THEN 1 ELSE 0)
           /\ Reads(s).bytes + Writes(s).bytes \in Nat
           /\ (Reads(s).bytes + Writes(s).bytes)' =
                Reads(s).bytes + Writes(s).bytes + (IF s = status THEN req.size ELSE 0)
<1> SUFFICES ASSUME NEW s \in Statuses
             PROVE
               /\ Both(s) \in Nat /\ Both(s)' = Both(s) + (IF s = status THEN 1 ELSE 0)
               /\ Reads(s).n \in Nat /\ Writes(s).n \in Nat
               /\ Reads(s).n' = Reads(s).n + (IF s = status /\ ~req.write THEN 1 ELSE 0)
               /\ Writes(s).n' = Writes(s).n + (IF s = status /\ req.write THEN 1 ELSE 0)
               /\ Reads(s).bytes + Writes(s).bytes \in Nat
               /\ (Reads(s).bytes + Writes(s).bytes)' =
                    Reads(s).bytes + Writes(s).bytes + (IF s = status THEN req.size ELSE 0)
  OBVIOUS
<1>1. req.write \in BOOLEAN /\ req.size \in Nat
  BY RequestType
<1>2. /\ Reads(s) \in [n : Nat, bytes : Nat] /\ Writes(s) \in [n : Nat, bytes : Nat]
  BY DEF Typed, ToldType, Reads, Writes
<1>3. Reads(s)' = IF s = status /\ ~req.write
                  THEN [n |-> Reads(s).n + 1, bytes |-> Reads(s).bytes + req.size]
                  ELSE Reads(s)
  BY <1>1, Told DEF Reads
<1>4. Writes(s)' = IF s = status /\ req.write
                   THEN [n |-> Writes(s).n + 1, bytes |-> Writes(s).bytes + req.size]
                   ELSE Writes(s)
  BY <1>1, Told DEF Writes
<1>5. /\ Reads(s).n' = Reads(s).n + (IF s = status /\ ~req.write THEN 1 ELSE 0)
      /\ Reads(s).bytes' = Reads(s).bytes + (IF s = status /\ ~req.write THEN req.size ELSE 0)
  BY <1>1, <1>2, <1>3
<1>6. /\ Writes(s).n' = Writes(s).n + (IF s = status /\ req.write THEN 1 ELSE 0)
      /\ Writes(s).bytes' = Writes(s).bytes + (IF s = status /\ req.write THEN req.size ELSE 0)
  BY <1>1, <1>2, <1>4
<1>7. /\ Reads(s).n \in Nat /\ Writes(s).n \in Nat
      /\ Reads(s).bytes \in Nat /\ Writes(s).bytes \in Nat
  BY <1>2
<1> QED
  BY <1>1, <1>5, <1>6, <1>7 DEF Both

-----------------------------------------------------------------------------
(* The inductive invariant.                                                 *)

\* No more warnings than the configuration allows.
Quiet == Valid(cfg) /\ attached \subseteq Memories /\ warnings \in 0 .. cfg.maxWarnings

IInv == Typed /\ Quiet /\ StatsAgree /\ HbfStaysReadOnly

\* The statistics are numbers.
LEMMA StatsTypes ==
  ASSUME stats \in StatsType
  PROVE  /\ stats.total \in Nat /\ stats.unmapped \in Nat /\ stats.attempts \in Nat
         /\ stats.redirected \in Nat /\ stats.full \in Nat /\ stats.hops \in Nat
         /\ \A m \in Memories :
              /\ stats.reads[m] \in Nat /\ stats.writes[m] \in Nat
              /\ stats.requests[m] \in Nat /\ stats.bytes[m] \in Nat
BY DEF StatsType

LEMMA QuietKept ==
  ASSUME Typed, Quiet, UNCHANGED <<cfg, attached>>, Warn \/ UNCHANGED warnings
  PROVE  Quiet'
<1>1. cfg.maxWarnings \in Nat
  BY ConfigType DEF Typed
<1> QED
  BY <1>1 DEF Quiet, Warn

\* Each exit of route() keeps the statistics and the answers in step.
LEMMA UnmappedAgrees ==
  ASSUME IInv, NEW req \in Requests, RouteUnmapped(req)
  PROVE  IInv'
<1> DEFINE status == "RejectedUnmapped"
<1>1. PICK s \in StatsType : s = Seen(req)
  BY SeenStats DEF IInv
<1>2. /\ s.total = stats.total + 1 /\ s.attempts = stats.attempts
      /\ s.redirected = stats.redirected /\ Uncounted(s, stats)
  BY <1>1, SeenStats DEF IInv
<1>3. /\ stats' = [s EXCEPT !.unmapped = @ + 1]
      /\ Warn /\ Tell(req, status) /\ UNCHANGED <<cfg, allocs, attached>>
  BY <1>1 DEF RouteUnmapped
<1>4. stats' \in StatsType
  <2>1. s.unmapped + 1 \in Nat
    BY DEF StatsType
  <2> QED
    BY <1>3, <2>1 DEF StatsType
<1>5. /\ stats'.total = stats.total + 1 /\ stats'.unmapped = stats.unmapped + 1
      /\ stats'.attempts = stats.attempts /\ stats'.redirected = stats.redirected
      /\ stats'.full = stats.full /\ stats'.hops = stats.hops
      /\ stats'.reads = stats.reads /\ stats'.writes = stats.writes
      /\ stats'.requests = stats.requests /\ stats'.bytes = stats.bytes
  BY <1>2, <1>3 DEF StatsType, Uncounted
<1>6. Typed'
  BY <1>3, <1>4, Told DEF IInv, Typed, Statuses
<1>7. Quiet'
  BY <1>3, QuietKept DEF IInv
<1>8. \A t \in Statuses :
        /\ Both(t) \in Nat /\ Both(t)' = Both(t) + (IF t = status THEN 1 ELSE 0)
        /\ Reads(t).n \in Nat /\ Writes(t).n \in Nat
        /\ t # status => /\ Reads(t).n' = Reads(t).n
                          /\ Writes(t).n' = Writes(t).n
                          /\ (Reads(t).bytes + Writes(t).bytes)' =
                               Reads(t).bytes + Writes(t).bytes
  <2>1. \A t \in Statuses : Reads(t).bytes + Writes(t).bytes \in Nat
    BY <1>3, ToldCounts DEF IInv, Statuses
  <2> QED
    BY <1>3, <2>1, ToldCounts DEF IInv, Statuses
<1>9. StatsAgree'
  BY <1>3, <1>5, <1>8, StatsTypes DEF IInv, Typed, StatsAgree, Statuses, Memories
<1>10. HbfStaysReadOnly'
  BY <1>3, <1>8 DEF IInv, HbfStaysReadOnly, Statuses
<1> QED
  BY <1>6, <1>7, <1>9, <1>10 DEF IInv

LEMMA ReadOnlyAgrees ==
  ASSUME IInv, NEW req \in Requests, RouteReadOnly(req)
  PROVE  IInv'
<1> DEFINE status == "RejectedWriteToHbf"
<1>1. PICK s \in StatsType : s = Seen(req)
  BY SeenStats DEF IInv
<1>2. /\ s.total = stats.total + 1 /\ s.attempts = stats.attempts
      /\ s.redirected = stats.redirected /\ Uncounted(s, stats)
  BY <1>1, SeenStats DEF IInv
<1>3. /\ stats' = [s EXCEPT !.attempts = @ + 1]
      /\ Warn /\ Tell(req, status) /\ UNCHANGED <<cfg, allocs, attached>>
  BY <1>1 DEF RouteReadOnly
<1>4. stats' \in StatsType
  <2>1. s.attempts + 1 \in Nat
    BY DEF StatsType
  <2> QED
    BY <1>3, <2>1 DEF StatsType
<1>5. /\ stats'.total = stats.total + 1 /\ stats'.unmapped = stats.unmapped
      /\ stats'.attempts = stats.attempts + 1 /\ stats'.redirected = stats.redirected
      /\ stats'.full = stats.full /\ stats'.hops = stats.hops
      /\ stats'.reads = stats.reads /\ stats'.writes = stats.writes
      /\ stats'.requests = stats.requests /\ stats'.bytes = stats.bytes
  BY <1>2, <1>3 DEF StatsType, Uncounted
<1>6. Typed'
  BY <1>3, <1>4, Told DEF IInv, Typed, Statuses
<1>7. Quiet'
  BY <1>3, QuietKept DEF IInv
<1>8. \A t \in Statuses :
        /\ Both(t) \in Nat /\ Both(t)' = Both(t) + (IF t = status THEN 1 ELSE 0)
        /\ Reads(t).n \in Nat /\ Writes(t).n \in Nat
        /\ t # status => /\ Reads(t).n' = Reads(t).n
                          /\ Writes(t).n' = Writes(t).n
                          /\ (Reads(t).bytes + Writes(t).bytes)' =
                               Reads(t).bytes + Writes(t).bytes
  <2>1. \A t \in Statuses : Reads(t).bytes + Writes(t).bytes \in Nat
    BY <1>3, ToldCounts DEF IInv, Statuses
  <2> QED
    BY <1>3, <2>1, ToldCounts DEF IInv, Statuses
<1>9. StatsAgree'
  BY <1>3, <1>5, <1>8, StatsTypes DEF IInv, Typed, StatsAgree, Statuses, Memories
<1>10. HbfStaysReadOnly'
  BY <1>3, <1>8 DEF IInv, HbfStaysReadOnly, Statuses
<1> QED
  BY <1>6, <1>7, <1>9, <1>10 DEF IInv

\* The two conditions a write to HBF is tested under agree as far as this: one
\* that counts as redirected is sent to HBM if HBF is enforced to be read-only,
\* and to HBF if it is not.
LEMMA RedirectedGoesTo ==
  ASSUME Typed, NEW req \in Requests, CountsAsRedirected(req)
  PROVE  req.write /\ Target(req) = (IF cfg.enforce THEN "Hbm" ELSE "Hbf")
<1>1. req.write /\ Region(req) = "Hbf" /\ cfg.policy = "RedirectHbm"
  BY DEF CountsAsRedirected
<1>2. cfg.enforce \in BOOLEAN
  BY ConfigType DEF Typed
<1>3. Target(req) = IF Status(req) = "RoutedHbm" THEN "Hbm" ELSE "Hbf"
  BY DEF Target, Inspect
<1>4. CASE cfg.enforce
  <2>1. KeptFromHbf(req) /\ Redirected(req)
    BY <1>1, <1>4 DEF KeptFromHbf, Redirected
  <2>2. Status(req) = "RoutedHbm"
    BY <1>1, <2>1 DEF Status
  <2> QED
    BY <1>1, <1>3, <1>4, <2>2
<1>5. CASE ~cfg.enforce
  <2>1. ~KeptFromHbf(req) /\ ~Redirected(req)
    BY <1>5 DEF KeptFromHbf, Redirected
  <2>2. Status(req) = "RoutedHbf"
    BY <1>1, <2>1 DEF Status
  <2> QED
    BY <1>1, <1>3, <1>5, <2>2
<1> QED
  BY <1>2, <1>4, <1>5

\* No write that HBF is kept from goes there.
LEMMA HbfGetsNoWrite ==
  ASSUME NEW req, cfg.enforce, cfg.policy # "Allow", req.write
  PROVE  Status(req) # "RoutedHbf"
<1>1. KeptFromHbf(req)
  BY DEF KeptFromHbf
<1> QED
  BY <1>1 DEF Status

LEMMA FullAgrees ==
  ASSUME IInv, NEW req \in Requests, RouteFull(req)
  PROVE  IInv'
<1> DEFINE status == "RejectedBackendFull"
<1>1. PICK s \in StatsType : s = Attempted(req)
  BY AttemptedStats DEF IInv
<1>2. PICK extra \in {0, 1} : extra = IF CountsAsRedirected(req) THEN 1 ELSE 0
  OBVIOUS
<1>3. /\ s.total = stats.total + 1 /\ s.attempts = stats.attempts + extra
      /\ s.redirected = stats.redirected + extra /\ Uncounted(s, stats)
  BY <1>1, <1>2, AttemptedStats DEF IInv
<1>4. /\ stats' = [s EXCEPT !.full = @ + 1]
      /\ Warn \/ UNCHANGED warnings
      /\ Tell(req, status) /\ UNCHANGED <<cfg, allocs, attached>>
  BY <1>1 DEF RouteFull, Routed
<1>5. stats' \in StatsType
  <2>1. s.full + 1 \in Nat
    BY DEF StatsType
  <2> QED
    BY <1>4, <2>1 DEF StatsType
<1>6. /\ stats'.total = stats.total + 1 /\ stats'.unmapped = stats.unmapped
      /\ stats'.attempts = stats.attempts + extra
      /\ stats'.redirected = stats.redirected + extra
      /\ stats'.full = stats.full + 1 /\ stats'.hops = stats.hops
      /\ stats'.reads = stats.reads /\ stats'.writes = stats.writes
      /\ stats'.requests = stats.requests /\ stats'.bytes = stats.bytes
  BY <1>3, <1>4 DEF StatsType, Uncounted
<1>7. Typed'
  BY <1>4, <1>5, Told DEF IInv, Typed, Statuses
<1>8. Quiet'
  BY <1>4, QuietKept DEF IInv
<1>9. \A t \in Statuses :
        /\ Both(t) \in Nat /\ Both(t)' = Both(t) + (IF t = status THEN 1 ELSE 0)
        /\ Reads(t).n \in Nat /\ Writes(t).n \in Nat
        /\ t # status => /\ Reads(t).n' = Reads(t).n
                          /\ Writes(t).n' = Writes(t).n
                          /\ (Reads(t).bytes + Writes(t).bytes)' =
                               Reads(t).bytes + Writes(t).bytes
  <2>1. \A t \in Statuses : Reads(t).bytes + Writes(t).bytes \in Nat
    BY <1>4, ToldCounts DEF IInv, Statuses
  <2> QED
    BY <1>4, <2>1, ToldCounts DEF IInv, Statuses
<1>10. Writes(status).n' = Writes(status).n + (IF req.write THEN 1 ELSE 0)
  BY <1>4, ToldCounts DEF IInv, Statuses
<1>11. extra = 1 => req.write
  BY <1>2, RedirectedGoesTo DEF IInv
<1>12. StatsAgree'
  BY <1>4, <1>6, <1>9, <1>10, <1>11, StatsTypes
     DEF IInv, Typed, StatsAgree, Statuses, Memories
<1>13. HbfStaysReadOnly'
  BY <1>4, <1>9 DEF IInv, HbfStaysReadOnly, Statuses
<1> QED
  BY <1>7, <1>8, <1>12, <1>13 DEF IInv

LEMMA OneMore ==
  ASSUME NEW a \in Nat, NEW b \in Nat
  PROVE  a * (b + 1) = a * b + a
OBVIOUS

LEMMA DeliveredAgrees ==
  ASSUME IInv, NEW req \in Requests, RouteDelivered(req)
  PROVE  IInv'
<1>1. PICK m \in Memories : m = Target(req)
  BY TargetType
<1>2. PICK status \in {"RoutedHbm", "RoutedHbf"} : status = Status(req)
  BY HopsType DEF RouteDelivered, Routed, IInv
<1>3. /\ status \in Statuses /\ m = (IF status = "RoutedHbm" THEN "Hbm" ELSE "Hbf")
  BY <1>1, <1>2, HopsType DEF IInv, Target, Statuses
<1>4. PICK h \in Nat : h = Inspect(req).hops
  BY HopsType DEF IInv
<1>5. h = (IF status = "RoutedHbf" THEN cfg.hops ELSE 0) /\ cfg.hops \in Nat
  BY <1>2, <1>4, HopsType, ConfigType DEF IInv, Typed
<1>6. PICK extra \in {0, 1} : extra = IF CountsAsRedirected(req) THEN 1 ELSE 0
  OBVIOUS
<1>7. PICK d \in StatsType : d = Delivered(req)
  BY DeliveredStats DEF IInv
<1>8. /\ stats' = d /\ Tell(req, status) /\ UNCHANGED <<cfg, allocs, attached>>
      /\ Warn \/ UNCHANGED warnings
  BY <1>2, <1>7, HopsType DEF RouteDelivered, Routed, IInv
<1>9. PICK s \in StatsType : s = Attempted(req)
  BY AttemptedStats DEF IInv
<1>10. /\ s.total = stats.total + 1 /\ s.attempts = stats.attempts + extra
       /\ s.redirected = stats.redirected + extra /\ Uncounted(s, stats)
  BY <1>6, <1>9, AttemptedStats DEF IInv
<1>11. /\ d.total = s.total /\ d.attempts = s.attempts /\ d.redirected = s.redirected
       /\ d.unmapped = s.unmapped /\ d.full = s.full /\ d.hops = s.hops + h
       /\ d.requests[m] = s.requests[m] + 1
       /\ d.bytes[m] = s.bytes[m] + req.size
       /\ d.reads[m] = s.reads[m] + (IF req.write THEN 0 ELSE 1)
       /\ d.writes[m] = s.writes[m] + (IF req.write THEN 1 ELSE 0)
       /\ \A o \in Memories \ {m} :
            /\ d.requests[o] = s.requests[o] /\ d.bytes[o] = s.bytes[o]
            /\ d.reads[o] = s.reads[o] /\ d.writes[o] = s.writes[o]
  BY <1>1, <1>4, <1>7, <1>9, DeliveredStats DEF IInv
<1>12. /\ stats'.total = stats.total + 1 /\ stats'.unmapped = stats.unmapped
       /\ stats'.attempts = stats.attempts + extra
       /\ stats'.redirected = stats.redirected + extra
       /\ stats'.full = stats.full /\ stats'.hops = stats.hops + h
       /\ stats'.requests[m] = stats.requests[m] + 1
       /\ stats'.bytes[m] = stats.bytes[m] + req.size
       /\ stats'.reads[m] = stats.reads[m] + (IF req.write THEN 0 ELSE 1)
       /\ stats'.writes[m] = stats.writes[m] + (IF req.write THEN 1 ELSE 0)
       /\ \A o \in Memories \ {m} :
            /\ stats'.requests[o] = stats.requests[o] /\ stats'.bytes[o] = stats.bytes[o]
            /\ stats'.reads[o] = stats.reads[o] /\ stats'.writes[o] = stats.writes[o]
  BY <1>8, <1>10, <1>11 DEF Uncounted
<1>13. Typed'
  BY <1>3, <1>8, Told DEF IInv, Typed
<1>14. Quiet'
  BY <1>8, QuietKept DEF IInv
<1>15. \A t \in Statuses :
         /\ Both(t) \in Nat /\ Both(t)' = Both(t) + (IF t = status THEN 1 ELSE 0)
         /\ Reads(t).n \in Nat /\ Writes(t).n \in Nat
         /\ Reads(t).n' = Reads(t).n + (IF t = status /\ ~req.write THEN 1 ELSE 0)
         /\ Writes(t).n' = Writes(t).n + (IF t = status /\ req.write THEN 1 ELSE 0)
         /\ Reads(t).bytes + Writes(t).bytes \in Nat
         /\ (Reads(t).bytes + Writes(t).bytes)' =
              Reads(t).bytes + Writes(t).bytes + (IF t = status THEN req.size ELSE 0)
  BY <1>3, <1>8, ToldCounts DEF IInv
<1>16. req.write \in BOOLEAN /\ req.size \in Nat
  BY RequestType
<1>17. StatsAgree'
  <2>1. \A o \in Memories :
          LET t == IF o = "Hbm" THEN "RoutedHbm" ELSE "RoutedHbf"
          IN  /\ stats'.requests[o] = Both(t)'
              /\ stats'.reads[o] = Reads(t).n'
              /\ stats'.writes[o] = Writes(t).n'
              /\ stats'.bytes[o] = (Reads(t).bytes + Writes(t).bytes)'
    BY <1>3, <1>12, <1>15, <1>16, StatsTypes DEF IInv, Typed, StatsAgree, Statuses, Memories
  <2>2. /\ stats'.total = Both("RoutedHbm")' + Both("RoutedHbf")' + Both("RejectedUnmapped")'
                             + Both("RejectedWriteToHbf")' + Both("RejectedBackendFull")'
        /\ stats'.unmapped = Both("RejectedUnmapped")'
        /\ stats'.full = Both("RejectedBackendFull")'
        /\ stats'.attempts = stats'.redirected + Both("RejectedWriteToHbf")'
    BY <1>3, <1>12, <1>15, StatsTypes DEF IInv, Typed, StatsAgree, Statuses
  <2>3. stats'.hops = cfg'.hops * stats'.requests["Hbf"]
    <3>1. cfg.hops * (stats.requests["Hbf"] + 1) = cfg.hops * stats.requests["Hbf"] + cfg.hops
      BY <1>5, StatsTypes, OneMore DEF IInv, Typed, Memories
    <3> QED
      BY <1>3, <1>5, <1>8, <1>12, <3>1, StatsTypes DEF IInv, Typed, StatsAgree, Memories
  <2>4. stats'.redirected <=
          (Writes(IF cfg.enforce THEN "RoutedHbm" ELSE "RoutedHbf").n
             + Writes("RejectedBackendFull").n)'
    <3>1. extra = 1 => req.write /\ status = (IF cfg.enforce THEN "RoutedHbm" ELSE "RoutedHbf")
      <4>1. extra = 1 => req.write /\ m = (IF cfg.enforce THEN "Hbm" ELSE "Hbf")
        BY <1>1, <1>6, RedirectedGoesTo DEF IInv
      <4>2. m = "Hbm" => status = "RoutedHbm"
        BY <1>3
      <4>3. m = "Hbf" => status = "RoutedHbf"
        BY <1>3
      <4> QED
        BY <4>1, <4>2, <4>3
    <3>2. PICK t \in Statuses : t = IF cfg.enforce THEN "RoutedHbm" ELSE "RoutedHbf"
      BY DEF Statuses
    <3>3. stats.redirected <= Writes(t).n + Writes("RejectedBackendFull").n
      BY <3>2 DEF IInv, StatsAgree
    <3>4. stats'.redirected <= Writes(t).n' + Writes("RejectedBackendFull").n'
      BY <1>3, <1>12, <1>15, <3>1, <3>2, <3>3, StatsTypes DEF IInv, Typed, Statuses
    <3> QED
      BY <1>8, <3>2, <3>4
  <2> QED
    BY <2>1, <2>2, <2>3, <2>4 DEF StatsAgree
<1>18. HbfStaysReadOnly'
  <2>1. cfg.enforce /\ cfg.policy # "Allow" /\ status = "RoutedHbf" => ~req.write
    BY <1>2, HbfGetsNoWrite
  <2>2. "RoutedHbf" \in Statuses
    BY DEF Statuses
  <2>3. cfg.enforce /\ cfg.policy # "Allow" =>
          Writes("RoutedHbf").n' = Writes("RoutedHbf").n
    BY <1>15, <2>1, <2>2
  <2> QED
    BY <1>8, <2>3 DEF IInv, HbfStaysReadOnly
<1> QED
  BY <1>13, <1>14, <1>17, <1>18 DEF IInv

LEMMA RouteAgrees ==
  ASSUME IInv, NEW req \in Requests, Route(req)
  PROVE  IInv'
BY UnmappedAgrees, ReadOnlyAgrees, FullAgrees, DeliveredAgrees DEF Route

\* Statistics and answers start from nothing.
LEMMA CleanValues ==
  /\ NoStats \in StatsType /\ NoStats.total = 0 /\ NoStats.unmapped = 0
  /\ NoStats.attempts = 0 /\ NoStats.redirected = 0 /\ NoStats.full = 0
  /\ NoStats.hops = 0
  /\ \A m \in Memories : /\ NoStats.reads[m] = 0 /\ NoStats.writes[m] = 0
                          /\ NoStats.requests[m] = 0 /\ NoStats.bytes[m] = 0
  /\ NoneTold \in ToldType
  /\ \A s \in Statuses, w \in BOOLEAN :
       NoneTold[<<s, w>>].n = 0 /\ NoneTold[<<s, w>>].bytes = 0
<1>1. /\ NoStats \in StatsType /\ NoStats.total = 0 /\ NoStats.unmapped = 0
      /\ NoStats.attempts = 0 /\ NoStats.redirected = 0 /\ NoStats.full = 0
      /\ NoStats.hops = 0
      /\ \A m \in Memories : /\ NoStats.reads[m] = 0 /\ NoStats.writes[m] = 0
                              /\ NoStats.requests[m] = 0 /\ NoStats.bytes[m] = 0
  BY DEF NoStats, StatsType, Memories
<1>2. NoneTold \in ToldType
  BY DEF NoneTold, ToldType
<1>3. ASSUME NEW s \in Statuses, NEW w \in BOOLEAN
      PROVE  NoneTold[<<s, w>>].n = 0 /\ NoneTold[<<s, w>>].bytes = 0
  <2>1. NoneTold[<<s, w>>] = [n |-> 0, bytes |-> 0]
    <3>1. <<s, w>> \in Statuses \X BOOLEAN
      OBVIOUS
    <3> QED
      BY <3>1, Zenon DEF NoneTold
  <2> QED
    BY <2>1
<1> QED
  BY <1>1, <1>2, <1>3

\* So they agree.
LEMMA CleanAgrees ==
  ASSUME cfg \in Configs, stats = NoStats, told = NoneTold
  PROVE  Typed /\ StatsAgree /\ HbfStaysReadOnly
<1>1. ASSUME NEW s \in Statuses
      PROVE  /\ Reads(s).n = 0 /\ Reads(s).bytes = 0
             /\ Writes(s).n = 0 /\ Writes(s).bytes = 0 /\ Both(s) = 0
  <2>1. Reads(s) = NoneTold[<<s, FALSE>>] /\ Writes(s) = NoneTold[<<s, TRUE>>]
    BY DEF Reads, Writes
  <2>2. /\ Reads(s).n = 0 /\ Reads(s).bytes = 0
        /\ Writes(s).n = 0 /\ Writes(s).bytes = 0
    BY <2>1, CleanValues
  <2> QED
    BY <2>2 DEF Both
<1>2. cfg.hops \in Nat /\ cfg.hops * 0 = 0
  BY ConfigType
<1> QED
  BY <1>1, <1>2, CleanValues DEF Typed, StatsAgree, HbfStaysReadOnly, Statuses, Memories

LEMMA InitIInv == Init => IInv
<1> SUFFICES ASSUME Init PROVE IInv
  OBVIOUS
<1>1. cfg \in Configs /\ Valid(cfg) /\ attached \subseteq Memories /\ warnings = 0
  BY DEF Init
<1>2. Typed /\ StatsAgree /\ HbfStaysReadOnly
  BY <1>1, CleanAgrees DEF Init
<1>3. cfg.maxWarnings \in Nat
  BY <1>1, ConfigType
<1> QED
  BY <1>1, <1>2, <1>3 DEF IInv, Quiet

LEMMA NextIInv == IInv /\ [Next]_vars => IInv'
<1> SUFFICES ASSUME IInv, [Next]_vars PROVE IInv'
  OBVIOUS
<1>1. CASE \E req \in Requests : Route(req)
  BY <1>1, RouteAgrees
<1>2. CASE SetBackends
  BY <1>2 DEF SetBackends, IInv, Typed, Quiet, StatsAgree, HbfStaysReadOnly, Reads, Writes, Both
<1>3. CASE ResetStats
  <2>1. (Typed /\ StatsAgree /\ HbfStaysReadOnly)'
    <3>1. cfg' \in Configs /\ stats' = NoStats /\ told' = NoneTold
      BY <1>3 DEF ResetStats, IInv, Typed
    <3>2. ASSUME NEW s \in Statuses
          PROVE  /\ Reads(s).n' = 0 /\ Reads(s).bytes' = 0
                 /\ Writes(s).n' = 0 /\ Writes(s).bytes' = 0 /\ Both(s)' = 0
      <4>1. Reads(s)' = NoneTold[<<s, FALSE>>] /\ Writes(s)' = NoneTold[<<s, TRUE>>]
        BY <3>1 DEF Reads, Writes
      <4>2. /\ Reads(s).n' = 0 /\ Reads(s).bytes' = 0
            /\ Writes(s).n' = 0 /\ Writes(s).bytes' = 0
        BY <4>1, CleanValues
      <4> QED
        BY <4>2 DEF Both
    <3>3. cfg'.hops \in Nat /\ cfg'.hops * 0 = 0
      BY <3>1, ConfigType
    <3> QED
      BY <3>1, <3>2, <3>3, CleanValues
         DEF Typed, StatsAgree, HbfStaysReadOnly, Statuses, Memories
  <2>2. Quiet'
    BY <1>3, QuietKept DEF ResetStats, IInv
  <2> QED
    BY <2>1, <2>2 DEF IInv
<1>4. CASE UNCHANGED vars
  BY <1>4 DEF vars, IInv, Typed, Quiet, StatsAgree, HbfStaysReadOnly, Reads, Writes, Both
<1> QED
  BY <1>1, <1>2, <1>3, <1>4 DEF Next

LEMMA Invariant == Spec => []IInv
BY InitIInv, NextIInv, PTL DEF Spec
-----------------------------------------------------------------------------
(* What follows for the program.                                            *)

\* The statistics, the warnings and the backends keep their types.
THEOREM TypeCorrect == Spec => []TypeOK
<1>1. IInv => TypeOK
  BY DEF IInv, Typed, Quiet, TypeOK, StatsType, ToldType
<1> QED
  BY <1>1, Invariant, PTL

\* The statistics tell what the callers were told, whatever they asked.
THEOREM StatisticsAreTrue == Spec => []StatsAgree
<1>1. IInv => StatsAgree
  BY DEF IInv
<1> QED
  BY <1>1, Invariant, PTL

\* No write gets through to HBF while it is enforced to be read-only.
THEOREM HbfIsReadOnly == Spec => []HbfStaysReadOnly
<1>1. IInv => HbfStaysReadOnly
  BY DEF IInv
<1> QED
  BY <1>1, Invariant, PTL
-----------------------------------------------------------------------------
(* The decode by the two regions.                                           *)

\* Nothing wraps that does not reach the end of the address space.
LEMMA PlusExact ==
  ASSUME NEW a \in Nat, NEW b \in Nat, a <= MaxAddr - b
  PROVE  Plus(a, b) = a + b
<1>1. MaxAddr \in Nat /\ a + b \in 0 .. MaxAddr
  BY AddressMapConstants
<1> QED
  BY <1>1 DEF Plus

\* Without a map, every place of either memory has one address, and every
\* address the router does not turn away is that of one place: "the whole point
\* of the router is an unambiguous decode".
OneAddressEach ==
  allocs = <<>> =>
    /\ \A a, b \in Word : Known(a) /\ Known(b) /\ Home(a) = Home(b) => a = b
    /\ \A o \in Word : o < cfg.hbm.size =>
         \E a \in Word : Known(a) /\ Home(a) = <<"Hbm", o>>
    /\ \A o \in Word : o < cfg.hbf.size =>
         \E a \in Word : Known(a) /\ Home(a) = <<"Hbf", o>>

LEMMA RegionsApart ==
  ASSUME NEW c \in Configs, Valid(c)
  PROVE  /\ End(c.hbm) = c.hbm.base + c.hbm.size /\ End(c.hbm) \in Word
         /\ End(c.hbf) = c.hbf.base + c.hbf.size /\ End(c.hbf) \in Word
         /\ \A addr \in Word : ~ (Within(c.hbm, addr) /\ Within(c.hbf, addr))
<1>1. /\ c.hbm.base \in Nat /\ c.hbm.size \in Nat /\ c.hbf.base \in Nat /\ c.hbf.size \in Nat
      /\ MaxAddr \in Nat
  BY ConfigType, AddressMapConstants DEF Word
<1>2. End(c.hbm) = c.hbm.base + c.hbm.size /\ End(c.hbf) = c.hbf.base + c.hbf.size
  BY <1>1, PlusExact DEF Valid, End
<1>3. End(c.hbm) \in Word /\ End(c.hbf) \in Word
  BY <1>1, <1>2 DEF Valid, Word
<1>4. ~ (c.hbm.base < End(c.hbf) /\ c.hbf.base < End(c.hbm))
  BY DEF Valid
<1>5. \A addr \in Word : ~ (Within(c.hbm, addr) /\ Within(c.hbf, addr))
  BY <1>1, <1>3, <1>4 DEF Within, Word
<1> QED
  BY <1>2, <1>3, <1>5

LEMMA HomeByRegion ==
  ASSUME allocs = <<>>, NEW addr
  PROVE  /\ Within(cfg.hbm, addr) =>
              Known(addr) /\ Home(addr) = <<"Hbm", addr - cfg.hbm.base>>
         /\ Within(cfg.hbf, addr) /\ ~Within(cfg.hbm, addr) =>
              Known(addr) /\ Home(addr) = <<"Hbf", addr - cfg.hbf.base>>
         /\ Known(addr) => Within(cfg.hbm, addr) \/ Within(cfg.hbf, addr)
BY DEF Home, Known, Decode, LocalAddr

\* An offset within a region is within its bounds.
LEMMA Inside ==
  ASSUME NEW base \in Nat, NEW size \in Nat, NEW o \in Nat, o < size
  PROVE  base <= base + o /\ base + o < base + size /\ (base + o) - base = o
OBVIOUS

\* Under every configuration that validate() accepts, and without a map, the
\* decode is one to one.
LEMMA RegionsDecode ==
  ASSUME IInv
  PROVE  OneAddressEach
<1> SUFFICES ASSUME allocs = <<>>
             PROVE
               /\ \A a, b \in Word : Known(a) /\ Known(b) /\ Home(a) = Home(b) => a = b
               /\ \A o \in Word : o < cfg.hbm.size =>
                    \E a \in Word : Known(a) /\ Home(a) = <<"Hbm", o>>
               /\ \A o \in Word : o < cfg.hbf.size =>
                    \E a \in Word : Known(a) /\ Home(a) = <<"Hbf", o>>
  BY DEF OneAddressEach
<1>1. /\ End(cfg.hbm) = cfg.hbm.base + cfg.hbm.size /\ End(cfg.hbm) \in Word
      /\ End(cfg.hbf) = cfg.hbf.base + cfg.hbf.size /\ End(cfg.hbf) \in Word
      /\ \A addr \in Word : ~ (Within(cfg.hbm, addr) /\ Within(cfg.hbf, addr))
  BY RegionsApart DEF IInv, Typed, Quiet
<1>2. /\ cfg.hbm.base \in Nat /\ cfg.hbm.size \in Nat
      /\ cfg.hbf.base \in Nat /\ cfg.hbf.size \in Nat /\ Word \subseteq Nat
  BY ConfigType, AddressMapConstants DEF IInv, Typed, Word
<1>3. ASSUME NEW a \in Word, NEW b \in Word, Known(a), Known(b), Home(a) = Home(b)
      PROVE  a = b
  <2>1. a \in Nat /\ b \in Nat
    BY <1>2
  <2>2. CASE Within(cfg.hbm, a) /\ Within(cfg.hbm, b)
    <3>1. a - cfg.hbm.base = b - cfg.hbm.base
      BY <1>3, <2>2, HomeByRegion
    <3> QED
      BY <1>2, <2>1, <3>1
  <2>3. CASE Within(cfg.hbf, a) /\ Within(cfg.hbf, b)
    <3>1. a - cfg.hbf.base = b - cfg.hbf.base
      BY <1>1, <1>3, <2>3, HomeByRegion
    <3> QED
      BY <1>2, <2>1, <3>1
  <2>4. Within(cfg.hbm, a) <=> Within(cfg.hbm, b)
    <3>1. Home(a)[1] = Home(b)[1]
      BY <1>3
    <3> QED
      BY <1>1, <1>3, <3>1, HomeByRegion
  <2> QED
    BY <1>3, <2>2, <2>3, <2>4, HomeByRegion
<1>4. ASSUME NEW o \in Word, o < cfg.hbm.size
      PROVE  \E a \in Word : Known(a) /\ Home(a) = <<"Hbm", o>>
  <2> DEFINE a == cfg.hbm.base + o
  <2>1. a \in Word /\ Within(cfg.hbm, a) /\ a - cfg.hbm.base = o
    <3>1. /\ o \in Nat /\ a \in Nat /\ End(cfg.hbm) \in Nat /\ MaxAddr \in Nat
          /\ End(cfg.hbm) <= MaxAddr
      BY <1>1, <1>2, AddressMapConstants DEF Word
    <3>2. cfg.hbm.base <= a /\ a < End(cfg.hbm) /\ a - cfg.hbm.base = o
      <4>1. PICK base \in Nat, size \in Nat : base = cfg.hbm.base /\ size = cfg.hbm.size
        BY <1>2
      <4>2. o < size /\ End(cfg.hbm) = base + size
        BY <1>1, <1>4, <4>1
      <4>3. base <= base + o /\ base + o < base + size /\ (base + o) - base = o
        BY <3>1, <4>2, Inside
      <4> QED
        BY <4>1, <4>2, <4>3
    <3> QED
      BY <3>1, <3>2 DEF Within, Word
  <2> QED
    BY <2>1, HomeByRegion
<1>5. ASSUME NEW o \in Word, o < cfg.hbf.size
      PROVE  \E a \in Word : Known(a) /\ Home(a) = <<"Hbf", o>>
  <2> DEFINE a == cfg.hbf.base + o
  <2>1. a \in Word /\ Within(cfg.hbf, a) /\ a - cfg.hbf.base = o
    <3>1. /\ o \in Nat /\ a \in Nat /\ End(cfg.hbf) \in Nat /\ MaxAddr \in Nat
          /\ End(cfg.hbf) <= MaxAddr
      BY <1>1, <1>2, AddressMapConstants DEF Word
    <3>2. cfg.hbf.base <= a /\ a < End(cfg.hbf) /\ a - cfg.hbf.base = o
      <4>1. PICK base \in Nat, size \in Nat : base = cfg.hbf.base /\ size = cfg.hbf.size
        BY <1>2
      <4>2. o < size /\ End(cfg.hbf) = base + size
        BY <1>1, <1>5, <4>1
      <4>3. base <= base + o /\ base + o < base + size /\ (base + o) - base = o
        BY <3>1, <4>2, Inside
      <4> QED
        BY <4>1, <4>2, <4>3
    <3> QED
      BY <3>1, <3>2 DEF Within, Word
  <2>2. ~Within(cfg.hbm, a)
    BY <1>1, <2>1
  <2> QED
    BY <2>1, <2>2, HomeByRegion
<1> QED
  BY <1>3, <1>4, <1>5

-----------------------------------------------------------------------------
(* The decode by the buffers of a map.                                      *)

Buffers == [orig : Word, size : Word, region : Memories, local : Word]

\* What load_allocation_map() leaves, if it does not throw.
MapInv ==
  /\ allocs \in Seq(Buffers)
  /\ \A j, k \in 1 .. Len(allocs) : j < k => allocs[j].orig <= allocs[k].orig
  /\ \A k \in 2 .. Len(allocs) :
       allocs[k].orig >= Plus(allocs[k - 1].orig, allocs[k - 1].size)

LEMMA LoadedOf ==
  ASSUME NEW c \in Configs, NEW as \in Loaded(c)
  PROVE  /\ as \in Seq(Buffers)
         /\ \A j, k \in 1 .. Len(as) : j < k => as[j].orig <= as[k].orig
<1> DEFINE kept == {k \in DOMAIN c.map : c.map[k].size # 0}
           N == Cardinality(kept)
           places == 1 .. N
           buffer(e) == [orig |-> e.orig, size |-> e.size, region |-> e.region,
                         local |-> LocalBase(c, e)]
<1>1. c.map \in Seq([orig : Word, size : Word, region : Memories, h3 : Word,
                     h3First : BOOLEAN])
  BY AddressRouterConstants
<1>2. PICK p \in Bijection(places, kept) :
        /\ \A i, j \in places : i < j => c.map[p[i]].orig <= c.map[p[j]].orig
        /\ as = [i \in places |-> buffer(c.map[p[i]])]
  BY DEF Loaded
<1>3. p \in [places -> kept]
  BY <1>2 DEF Bijection, Injection
<1>4. N \in Nat
  <2>1. DOMAIN c.map = 1 .. Len(c.map) /\ Len(c.map) \in Nat
    BY <1>1
  <2>2. IsFiniteSet(1 .. Len(c.map))
    BY <2>1, FS_Interval
  <2>3. IsFiniteSet(kept)
    BY <2>1, <2>2, FS_Subset
  <2> QED
    BY <2>3, FS_CardinalityType
<1>5. ASSUME NEW i \in places PROVE as[i] \in Buffers /\ as[i].orig = c.map[p[i]].orig
  <2> DEFINE e == c.map[p[i]]
  <2>1. p[i] \in DOMAIN c.map
    BY <1>3
  <2>2. /\ e.orig \in Word /\ e.size \in Word /\ e.region \in Memories /\ e.h3 \in Word
    <3>1. DOMAIN c.map = 1 .. Len(c.map)
      BY <1>1
    <3>2. e \in [orig : Word, size : Word, region : Memories, h3 : Word, h3First : BOOLEAN]
      BY <1>1, <2>1, <3>1, ElementOfSeq
    <3> QED
      BY <3>2
  <2>3. as[i] = buffer(e)
    BY <1>2
  <2> HIDE DEF e
  <2>4. LocalBase(c, e) \in Word
    <3>1. c.hbm.base \in Nat /\ c.hbf.base \in Nat
      BY ConfigType DEF Word
    <3>2. MaxAddr \in Nat
      BY AddressMapConstants
    <3> QED
      BY <2>2, <3>1, <3>2 DEF LocalBase, Word
  <2> QED
    BY <2>2, <2>3, <2>4 DEF Buffers, e
<1>6. as \in [1 .. N -> Buffers]
  BY <1>2, <1>5
<1>7. as \in Seq(Buffers) /\ Len(as) = N
  <2> HIDE DEF N, kept
  <2>1. as \in Seq(Buffers)
    BY <1>4, <1>6, SeqDef
  <2>2. DOMAIN as = 1 .. N
    BY <1>6
  <2>3. Len(as) \in Nat /\ DOMAIN as = 1 .. Len(as)
    BY <2>1, LenProperties
  <2> DEFINE L == Len(as)
  <2>4. L \in Nat /\ 1 .. N = 1 .. L
    BY <2>2, <2>3
  <2> HIDE DEF L
  <2>5. (N > 0 => N \in 1 .. L) /\ (L > 0 => L \in 1 .. N)
    BY <1>4, <2>4
  <2>6. L = N
    BY <1>4, <2>4, <2>5
  <2> QED
    BY <2>1, <2>6 DEF L
<1> QED
  BY <1>2, <1>5, <1>7

LEMMA InitMap == Init => MapInv
<1> SUFFICES ASSUME Init PROVE MapInv
  OBVIOUS
<1>1. cfg \in Configs
  BY DEF Init
<1>2. CASE cfg.mapped
  <2>1. allocs \in Loaded(cfg) /\ Loadable(allocs)
    BY <1>2 DEF Init
  <2> QED
    BY <1>1, <2>1, LoadedOf DEF MapInv, Loadable
<1>3. CASE ~cfg.mapped
  <2>1. allocs = <<>>
    BY <1>3 DEF Init
  <2> QED
    BY <2>1 DEF MapInv
<1> QED
  BY <1>2, <1>3

LEMMA NextMap == MapInv /\ [Next]_vars => MapInv'
<1> SUFFICES ASSUME MapInv, [Next]_vars PROVE MapInv'
  OBVIOUS
<1>1. allocs' = allocs
  BY DEF Next, vars, Route, RouteUnmapped, RouteReadOnly, RouteFull, RouteDelivered,
     Routed, SetBackends, ResetStats
<1> QED
  BY <1>1 DEF MapInv

LEMMA BufferTypes ==
  ASSUME MapInv
  PROVE  /\ Len(allocs) \in Nat /\ DOMAIN allocs = 1 .. Len(allocs)
         /\ \A k \in 1 .. Len(allocs) :
              /\ allocs[k].orig \in Nat /\ allocs[k].size \in Nat /\ allocs[k].local \in Nat
              /\ allocs[k].orig <= MaxAddr /\ allocs[k].size <= MaxAddr
              /\ allocs[k].region \in Memories
         /\ MaxAddr \in Nat
<1>1. MaxAddr \in Nat
  BY AddressMapConstants
<1>2. /\ Len(allocs) \in Nat /\ DOMAIN allocs = 1 .. Len(allocs)
      /\ \A k \in 1 .. Len(allocs) : allocs[k] \in Buffers
  BY DEF MapInv
<1> QED
  BY <1>1, <1>2 DEF Buffers, Word

\* The entries that do not start behind an address come first.
LEMMA Cut ==
  ASSUME MapInv, NEW addr \in Nat
  PROVE  \E c \in 0 .. Len(allocs) :
           \A k \in 1 .. Len(allocs) : k <= c <=> allocs[k].orig <= addr
<1> DEFINE n == Len(allocs)
           T == {m \in 0 .. n : m = n \/ addr < allocs[m + 1].orig}
<1>1. n \in Nat /\ \A k \in 1 .. n : allocs[k].orig \in Nat
  BY BufferTypes
<1>2. T \in SUBSET Nat /\ n \in T
  BY <1>1
<1> HIDE DEF T
<1>3. PICK c \in T : \A m \in T : c <= m
  BY <1>2, LeastNumber
<1>4. c \in 0 .. n /\ (c = n \/ addr < allocs[c + 1].orig)
  BY DEF T
<1>5. ASSUME NEW k \in 1 .. n, k <= c PROVE allocs[k].orig <= addr
  <2>1. k - 1 \in 0 .. n /\ ~ (c <= k - 1) /\ (k - 1) + 1 = k
    BY <1>1, <1>4, <1>5
  <2>2. k - 1 \notin T
    BY <1>3, <2>1
  <2> QED
    BY <1>1, <2>1, <2>2 DEF T
<1>6. ASSUME NEW k \in 1 .. n, ~ (k <= c) PROVE ~ (allocs[k].orig <= addr)
  <2>1. c + 1 \in 1 .. n /\ c # n /\ (c + 1 = k \/ c + 1 < k)
    BY <1>1, <1>4, <1>6
  <2>2. allocs[c + 1].orig <= allocs[k].orig
    BY <1>1, <2>1 DEF MapInv
  <2> QED
    BY <1>1, <1>4, <2>1, <2>2
<1> QED
  BY <1>4, <1>5, <1>6

\* The binary search ends there.
LEMMA SearchEnds ==
  ASSUME MapInv, NEW addr \in Nat, NEW c \in 0 .. Len(allocs),
         \A k \in 1 .. Len(allocs) : k <= c <=> allocs[k].orig <= addr
  PROVE  FindAlloc(allocs, addr) =
           {a \in {allocs[k] : k \in {c} \ {0}} : Holds(a, addr)}
<1> DEFINE n == Len(allocs)
           mid(lo, hi) == (lo + hi) \div 2
           ranges == (0 .. n) \X (0 .. n)
           next(s, lo, hi) == IF lo >= hi THEN lo
                              ELSE IF allocs[mid(lo, hi) + 1].orig <= addr
                                   THEN s[<<mid(lo, hi) + 1, hi>>]
                                   ELSE s[<<lo, mid(lo, hi)>>]
           Step(s) == s = [range \in ranges |-> next(s, range[1], range[2])]
           clamped(lo, hi) == IF lo >= hi \/ c <= lo THEN lo ELSE IF c >= hi THEN hi ELSE c
           w == [range \in ranges |-> clamped(range[1], range[2])]
           search == CHOOSE s : Step(s)
<1>1. n \in Nat /\ c \in Nat /\ c <= n
  BY BufferTypes
<1>2. ASSUME NEW lo \in 0 .. n, NEW hi \in 0 .. n, lo < hi
      PROVE  /\ mid(lo, hi) \in lo .. hi - 1
             /\ mid(lo, hi) \in 0 .. n /\ mid(lo, hi) + 1 \in 1 .. n
             /\ mid(lo, hi) + 1 \in 0 .. n
             /\ allocs[mid(lo, hi) + 1].orig <= addr <=> mid(lo, hi) + 1 <= c
  <2>1. mid(lo, hi) \in lo .. hi - 1
    BY <1>1, <1>2
  <2> HIDE DEF mid
  <2> QED
    BY <1>1, <2>1
<1> HIDE DEF mid
<1>3. ASSUME NEW lo \in 0 .. n, NEW hi \in 0 .. n
      PROVE  clamped(lo, hi) =
               IF lo >= hi THEN lo
               ELSE IF allocs[mid(lo, hi) + 1].orig <= addr
                    THEN clamped(mid(lo, hi) + 1, hi)
                    ELSE clamped(lo, mid(lo, hi))
  <2>1. CASE lo >= hi
    BY <2>1
  <2>2. CASE ~ (lo >= hi)
    <3>1. lo < hi
      BY <1>1, <2>2
    <3>2. PICK m \in lo .. hi - 1 : m = mid(lo, hi)
      BY <1>2, <3>1
    <3>3. allocs[m + 1].orig <= addr <=> m + 1 <= c
      BY <1>2, <3>1, <3>2
    <3>4. CASE m + 1 <= c
      BY <1>1, <2>2, <3>1, <3>2, <3>3, <3>4
    <3>5. CASE ~ (m + 1 <= c)
      BY <1>1, <2>2, <3>1, <3>2, <3>3, <3>5
    <3> QED
      BY <3>4, <3>5
  <2> QED
    BY <2>1, <2>2
<1> HIDE DEF clamped
<1>4. Step(w)
  <2>1. ASSUME NEW lo \in 0 .. n, NEW hi \in 0 .. n
        PROVE  w[<<lo, hi>>] = next(w, lo, hi)
    <3>1. CASE lo >= hi
      BY <1>3, <3>1
    <3>2. CASE ~ (lo >= hi)
      <4>1. mid(lo, hi) \in 0 .. n /\ mid(lo, hi) + 1 \in 0 .. n
        BY <1>1, <1>2, <3>2
      <4> QED
        BY <1>3, <3>2, <4>1
    <3> QED
      BY <3>1, <3>2
  <2>2. ASSUME NEW range \in ranges PROVE w[range] = next(w, range[1], range[2])
    <3>1. /\ range[1] \in 0 .. n /\ range[2] \in 0 .. n
          /\ range = <<range[1], range[2]>>
      OBVIOUS
    <3> HIDE DEF w, next
    <3>2. w[<<range[1], range[2]>>] = next(w, range[1], range[2])
      BY <2>1, <3>1
    <3> QED
      BY <3>1, <3>2
  <2>3. w = [range \in ranges |-> w[range]]
    OBVIOUS
  <2> HIDE DEF w, next, ranges
  <2> QED
    BY <2>2, <2>3
<1>5. Step(search)
  BY <1>4
<1> HIDE DEF search
<1>6. ASSUME NEW lo \in 0 .. n, NEW hi \in 0 .. n
      PROVE  search[<<lo, hi>>] = IF lo >= hi THEN lo
                              ELSE IF allocs[mid(lo, hi) + 1].orig <= addr
                                   THEN search[<<mid(lo, hi) + 1, hi>>]
                                   ELSE search[<<lo, mid(lo, hi)>>]
  BY <1>5
<1> HIDE DEF w, Step
<1> DEFINE T == {d \in Nat : \E lo, hi \in 0 .. n :
                               lo <= hi /\ hi - lo = d /\ search[<<lo, hi>>] # clamped(lo, hi)}
<1>7. T = {}
  <2> SUFFICES ASSUME T # {} PROVE FALSE
    OBVIOUS
  <2>1. T \in SUBSET Nat
    OBVIOUS
  <2>2. PICK d \in T : \A e \in T : d <= e
    BY <2>1, LeastNumber
  <2>3. PICK lo \in 0 .. n, hi \in 0 .. n :
          lo <= hi /\ hi - lo = d /\ search[<<lo, hi>>] # clamped(lo, hi)
    BY <2>2
  <2>4. CASE lo >= hi
    BY <1>3, <1>6, <2>3, <2>4
  <2>5. CASE ~ (lo >= hi)
    <3>1. lo < hi
      BY <1>1, <2>5
    <3>2. /\ mid(lo, hi) \in lo .. hi - 1 /\ mid(lo, hi) \in 0 .. n
          /\ mid(lo, hi) + 1 \in 0 .. n
      BY <1>2, <3>1
    <3>3. ASSUME NEW x \in 0 .. n, NEW y \in 0 .. n, x <= y, y - x < hi - lo
          PROVE  search[<<x, y>>] = clamped(x, y)
      <4>1. y - x \in Nat /\ ~ (d <= y - x)
        BY <2>3, <3>3
      <4>2. y - x \notin T
        BY <2>2, <4>1
      <4> QED
        BY <3>3, <4>1, <4>2
    <3> HIDE DEF T
    <3>4. search[<<mid(lo, hi) + 1, hi>>] = clamped(mid(lo, hi) + 1, hi)
      <4>1. mid(lo, hi) + 1 <= hi /\ hi - (mid(lo, hi) + 1) < hi - lo
        BY <3>1, <3>2
      <4> QED
        BY <3>2, <3>3, <4>1
    <3>5. search[<<lo, mid(lo, hi)>>] = clamped(lo, mid(lo, hi))
      <4>1. lo <= mid(lo, hi) /\ mid(lo, hi) - lo < hi - lo
        BY <3>1, <3>2
      <4> QED
        BY <3>2, <3>3, <4>1
    <3> QED
      BY <1>3, <1>6, <2>3, <2>5, <3>4, <3>5
  <2> QED
    BY <2>4, <2>5
<1>8. search[<<0, n>>] = c
  <2>1. 0 \in 0 .. n /\ n \in 0 .. n /\ 0 <= n /\ n - 0 \in Nat
    BY <1>1
  <2>2. search[<<0, n>>] = clamped(0, n)
    BY <1>7, <2>1
  <2> QED
    BY <1>1, <2>2 DEF clamped
<1>9. FindAlloc(allocs, addr) =
        {a \in {allocs[k] : k \in {search[<<0, n>>]} \ {0}} : Holds(a, addr)}
  BY DEF FindAlloc, search, Step, mid
<1> QED
  BY <1>8, <1>9

\* A buffer holds nothing behind the end of the address space.
LEMMA WrapsOnce ==
  ASSUME NEW x \in Nat, NEW m \in Nat, m > 0, m <= x, x < 2 * m
  PROVE  x % m = x - m
OBVIOUS

LEMMA HoldsMeans ==
  ASSUME MapInv, NEW k \in 1 .. Len(allocs), NEW addr \in Nat, Holds(allocs[k], addr)
  PROVE  /\ allocs[k].orig <= addr /\ addr < allocs[k].orig + allocs[k].size
         /\ Plus(allocs[k].orig, allocs[k].size) = allocs[k].orig + allocs[k].size
<1> DEFINE o == allocs[k].orig
           s == allocs[k].size
<1>1. /\ o \in Nat /\ s \in Nat /\ o <= MaxAddr /\ s <= MaxAddr /\ MaxAddr \in Nat
  BY BufferTypes
<1>2. o <= addr /\ addr < Plus(o, s)
  BY DEF Holds
<1> HIDE DEF o, s
<1>3. CASE o + s <= MaxAddr
  <2>1. Plus(o, s) = o + s
    BY <1>1, <1>3, PlusExact
  <2> QED
    BY <1>2, <2>1 DEF o, s
<1>4. CASE ~ (o + s <= MaxAddr)
  <2> DEFINE x == o + s
             m == MaxAddr + 1
  <2>1. x \in Nat /\ m \in Nat /\ m > 0 /\ m <= x /\ x < 2 * m
    BY <1>1, <1>4
  <2>2. x % m = x - m
    BY <2>1, WrapsOnce
  <2>3. Plus(o, s) = (o + s) - (MaxAddr + 1)
    BY <2>2 DEF Plus
  <2>4. Plus(o, s) <= o
    BY <1>1, <2>3
  <2> QED
    BY <1>1, <1>2, <2>3, <2>4
<1> QED
  BY <1>3, <1>4

\* Only the last entry that does not start behind an address can hold it.
LEMMA OwnerIsLast ==
  ASSUME MapInv, NEW addr \in Nat, NEW c \in 0 .. Len(allocs),
         \A k \in 1 .. Len(allocs) : k <= c <=> allocs[k].orig <= addr,
         NEW k \in Owners(addr)
  PROVE  k = c
<1>1. k \in 1 .. Len(allocs) /\ Holds(allocs[k], addr) /\ Len(allocs) \in Nat
  BY BufferTypes DEF Owners
<1>2. k <= c
  BY <1>1, HoldsMeans
<1>3. ASSUME k < c PROVE FALSE
  <2>1. k + 1 \in 2 .. Len(allocs) /\ (k + 1) - 1 = k /\ k + 1 <= c
    BY <1>1, <1>3
  <2>2. allocs[k + 1].orig >= allocs[k].orig + allocs[k].size
    BY <1>1, <2>1, HoldsMeans DEF MapInv
  <2>3. allocs[k + 1].orig <= addr
    BY <2>1
  <2>4. addr < allocs[k].orig + allocs[k].size
    BY <1>1, HoldsMeans
  <2>5. /\ allocs[k + 1].orig \in Nat /\ allocs[k].orig \in Nat /\ allocs[k].size \in Nat
    BY <1>1, <2>1, BufferTypes
  <2> DEFINE o == allocs[k].orig
             s == allocs[k].size
             o1 == allocs[k + 1].orig
  <2>6. o \in Nat /\ s \in Nat /\ o1 \in Nat /\ o1 >= o + s /\ o1 <= addr /\ addr < o + s
    BY <2>2, <2>3, <2>4, <2>5
  <2> HIDE DEF o, s, o1
  <2> QED
    BY <2>6
<1> QED
  BY <1>1, <1>2, <1>3

\* So the search finds the buffer an address lies in, and there is no other.
LEMMA OwnerFound ==
  ASSUME MapInv, NEW addr \in Nat
  PROVE  /\ FindAlloc(allocs, addr) = {allocs[k] : k \in Owners(addr)}
         /\ \A j, k \in Owners(addr) : j = k
<1>1. PICK c \in 0 .. Len(allocs) :
        \A k \in 1 .. Len(allocs) : k <= c <=> allocs[k].orig <= addr
  BY Cut
<1>2. FindAlloc(allocs, addr) = {a \in {allocs[k] : k \in {c} \ {0}} : Holds(a, addr)}
  BY <1>1, SearchEnds
<1>3. \A k \in Owners(addr) : k = c
  BY <1>1, OwnerIsLast
<1>4. ASSUME c # 0 PROVE c \in DOMAIN allocs
  BY <1>4, BufferTypes
<1>5. ASSUME NEW k \in Owners(addr) PROVE k = c /\ c # 0 /\ Holds(allocs[c], addr)
  <2>1. k \in 1 .. Len(allocs) /\ Holds(allocs[k], addr)
    BY BufferTypes DEF Owners
  <2> QED
    BY <1>3, <2>1
<1>6. ASSUME c # 0, Holds(allocs[c], addr) PROVE c \in Owners(addr)
  BY <1>4, <1>6 DEF Owners
<1> QED
  BY <1>2, <1>5, <1>6

LEMMA OwnersFound ==
  ASSUME MapInv
  PROVE  SearchFindsOwner
<1> SUFFICES ASSUME NEW addr \in Word
             PROVE  /\ Cardinality(Owners(addr)) <= 1
                    /\ FindAlloc(allocs, addr) = {allocs[k] : k \in Owners(addr)}
  BY DEF SearchFindsOwner
<1>1. addr \in Nat
  BY DEF Word
<1>2. Cardinality(Owners(addr)) <= 1
  <2>1. CASE Owners(addr) = {}
    BY <2>1, FS_EmptySet
  <2>2. CASE Owners(addr) # {}
    <3>1. PICK k : Owners(addr) = {k}
      BY <1>1, <2>2, OwnerFound
    <3>2. Cardinality({k}) = 1
      BY FS_Singleton
    <3> QED
      BY <3>1, <3>2
  <2> QED
    BY <2>1, <2>2
<1> QED
  BY <1>1, <1>2, OwnerFound

\* Where a map sends an address that it knows.
LEMMA HomeByBuffer ==
  ASSUME MapInv, MapIsSound, allocs # <<>>, NEW addr \in Nat, Known(addr)
  PROVE  \E k \in 1 .. Len(allocs) :
           /\ addr - allocs[k].orig \in 0 .. allocs[k].size - 1
           /\ Home(addr) = <<allocs[k].region, allocs[k].local + (addr - allocs[k].orig)>>
<1>1. FindAlloc(allocs, addr) # {}
  BY DEF Known
<1>2. PICK k \in Owners(addr) : FindAlloc(allocs, addr) = {allocs[k]}
  BY <1>1, OwnerFound
<1>3. k \in 1 .. Len(allocs) /\ Holds(allocs[k], addr)
  BY BufferTypes DEF Owners
<1>4. /\ allocs[k].orig \in Nat /\ allocs[k].size \in Nat /\ allocs[k].local \in Nat
      /\ MaxAddr \in Nat
  BY <1>3, BufferTypes
<1>5. addr - allocs[k].orig \in 0 .. allocs[k].size - 1
  <2> DEFINE o == allocs[k].orig
             s == allocs[k].size
  <2>1. o \in Nat /\ s \in Nat /\ o <= addr /\ addr < o + s
    BY <1>3, <1>4, HoldsMeans
  <2> HIDE DEF o, s
  <2>2. addr - o \in 0 .. s - 1
    BY <2>1
  <2> QED
    BY <2>2 DEF o, s
<1>6. allocs[k].local + allocs[k].size <= MaxAddr
  BY <1>3, BufferTypes DEF MapIsSound
<1>7. Plus(allocs[k].local, addr - allocs[k].orig)
        = allocs[k].local + (addr - allocs[k].orig)
  <2> DEFINE d == addr - allocs[k].orig
             l == allocs[k].local
             s == allocs[k].size
  <2>1. d \in 0 .. s - 1 /\ l \in Nat /\ s \in Nat /\ l + s <= MaxAddr /\ MaxAddr \in Nat
    BY <1>4, <1>5, <1>6
  <2> HIDE DEF d, l, s
  <2>2. Plus(l, d) = l + d
    <3>1. d \in Nat /\ l <= MaxAddr - d
      BY <2>1
    <3> QED
      BY <2>1, <3>1, PlusExact
  <2> QED
    BY <2>2 DEF d, l
<1>8. (CHOOSE a \in FindAlloc(allocs, addr) : TRUE) = allocs[k]
  BY <1>2
<1>9. Home(addr) = <<allocs[k].region, Plus(allocs[k].local, addr - allocs[k].orig)>>
  BY <1>1, <1>8 DEF Home, Decode, LocalAddr
<1> QED
  BY <1>3, <1>5, <1>7, <1>9

\* Two addresses that a map knows are not sent to one place.
LEMMA BuffersApart ==
  ASSUME MapInv, MapIsSound, allocs # <<>>, NEW a \in Nat, NEW b \in Nat,
         Known(a), Known(b), Home(a) = Home(b)
  PROVE  a = b
<1>1. PICK j \in 1 .. Len(allocs) :
        /\ a - allocs[j].orig \in 0 .. allocs[j].size - 1
        /\ Home(a) = <<allocs[j].region, allocs[j].local + (a - allocs[j].orig)>>
  BY HomeByBuffer
<1>2. PICK k \in 1 .. Len(allocs) :
        /\ b - allocs[k].orig \in 0 .. allocs[k].size - 1
        /\ Home(b) = <<allocs[k].region, allocs[k].local + (b - allocs[k].orig)>>
  BY HomeByBuffer
<1> DEFINE d == a - allocs[j].orig
           e == b - allocs[k].orig
           l == allocs[j].local
           m == allocs[k].local
           s == allocs[j].size
           z == allocs[k].size
<1>3. /\ allocs[j].orig \in Nat /\ allocs[k].orig \in Nat
      /\ s \in Nat /\ l \in Nat /\ z \in Nat /\ m \in Nat
  BY BufferTypes
<1>4. d \in 0 .. s - 1 /\ e \in 0 .. z - 1
  BY <1>1, <1>2
<1>5. <<allocs[j].region, l + d>> = <<allocs[k].region, m + e>>
  BY <1>1, <1>2
<1>6. j = k
  <2> SUFFICES ASSUME j # k PROVE FALSE
    OBVIOUS
  <2>1. ~Shares(allocs[j], allocs[k])
    BY BufferTypes DEF MapIsSound
  <2>2. l < m + z /\ m < l + s
    <3>1. l + d = m + e
      BY <1>5
    <3> HIDE DEF d, e, l, m, s, z
    <3> QED
      BY <1>3, <1>4, <3>1
  <2>3. allocs[j].region = allocs[k].region
    BY <1>5
  <2> QED
    BY <2>1, <2>2, <2>3 DEF Shares
<1>7. d = e
  <2>1. l + d = l + e
    BY <1>5, <1>6
  <2> HIDE DEF d, e, l
  <2> QED
    BY <1>3, <1>4, <2>1
<1> QED
  BY <1>3, <1>6, <1>7

\* "the whole point of the router is an unambiguous decode": for every map that
\* is loaded, the search finds the buffer of an address, and no two addresses are
\* sent to one place of a memory; with the regions alone, each place has one.
THEOREM EveryAddressHasOneHome == Spec => []OneHome
<1>1. IInv /\ MapInv => OneHome
  <2> SUFFICES ASSUME IInv, MapInv PROVE OneHome
    OBVIOUS
  <2> DEFINE known == {addr \in Word : Known(addr)}
             homes == {Home(addr) : addr \in known}
  <2>1. Word \subseteq Nat /\ MaxAddr \in Nat
    BY AddressMapConstants DEF Word
  <2>2. ASSUME MapIsSound, NEW a \in known, NEW b \in known, Home(a) = Home(b)
        PROVE  a = b
    <3>1. CASE allocs = <<>>
      BY <2>2, <3>1, RegionsDecode DEF OneAddressEach
    <3>2. CASE allocs # <<>>
      BY <2>1, <2>2, <3>2, BuffersApart
    <3> QED
      BY <3>1, <3>2
  <2>3. ASSUME MapIsSound PROVE Cardinality(homes) = Cardinality(known)
    <3> DEFINE f == [addr \in known |-> Home(addr)]
    <3>1. f \in Bijection(known, homes)
      <4>1. f \in [known -> homes]
        OBVIOUS
      <4>2. \A a, b \in known : f[a] = f[b] => a = b
        BY <2>2, <2>3
      <4>3. \A h \in homes : \E a \in known : f[a] = h
        OBVIOUS
      <4> HIDE DEF f, known, homes
      <4> QED
        BY <4>1, <4>2, <4>3 DEF Bijection, Injection, Surjection, IsInjective
    <3>2. IsFiniteSet(known)
      <4>1. IsFiniteSet(Word)
        BY <2>1, FS_Interval DEF Word
      <4>2. known \in SUBSET Word
        OBVIOUS
      <4> HIDE DEF known
      <4> QED
        BY <4>1, <4>2, FS_Subset
    <3> HIDE DEF f, known, homes
    <3> QED
      BY <3>1, <3>2, FS_Bijection DEF ExistsBijection
  <2>4. ASSUME allocs = <<>>
        PROVE  homes = ({"Hbm"} \X (0 .. cfg.hbm.size - 1))
                         \cup ({"Hbf"} \X (0 .. cfg.hbf.size - 1))
    <3>1. /\ cfg.hbm.base \in Nat /\ cfg.hbm.size \in Nat /\ cfg.hbm.size <= MaxAddr
          /\ cfg.hbf.base \in Nat /\ cfg.hbf.size \in Nat /\ cfg.hbf.size <= MaxAddr
      BY ConfigType DEF IInv, Typed, Word
    <3>2. /\ End(cfg.hbm) = cfg.hbm.base + cfg.hbm.size
          /\ End(cfg.hbf) = cfg.hbf.base + cfg.hbf.size
      BY RegionsApart DEF IInv, Typed, Quiet
    <3>3. ASSUME NEW addr \in known
          PROVE  Home(addr) \in ({"Hbm"} \X (0 .. cfg.hbm.size - 1))
                                  \cup ({"Hbf"} \X (0 .. cfg.hbf.size - 1))
      <4>1. addr \in Nat /\ Known(addr)
        BY <2>1
      <4>2. CASE Within(cfg.hbm, addr)
        <5>1. addr - cfg.hbm.base \in 0 .. cfg.hbm.size - 1
          BY <3>1, <3>2, <4>1, <4>2 DEF Within
        <5> QED
          BY <2>4, <4>2, <5>1, HomeByRegion
      <4>3. CASE Within(cfg.hbf, addr) /\ ~Within(cfg.hbm, addr)
        <5>1. addr - cfg.hbf.base \in 0 .. cfg.hbf.size - 1
          BY <3>1, <3>2, <4>1, <4>3 DEF Within
        <5> QED
          BY <2>4, <4>3, <5>1, HomeByRegion
      <4> QED
        BY <2>4, <4>1, <4>2, <4>3, HomeByRegion
    <3>4. ASSUME NEW o \in 0 .. cfg.hbm.size - 1 PROVE <<"Hbm", o>> \in homes
      <4>1. o \in Word /\ o < cfg.hbm.size
        BY <2>1, <3>1 DEF Word
      <4> QED
        BY <2>4, <4>1, RegionsDecode DEF OneAddressEach
    <3>5. ASSUME NEW o \in 0 .. cfg.hbf.size - 1 PROVE <<"Hbf", o>> \in homes
      <4>1. o \in Word /\ o < cfg.hbf.size
        BY <2>1, <3>1 DEF Word
      <4> QED
        BY <2>4, <4>1, RegionsDecode DEF OneAddressEach
    <3> QED
      BY <3>3, <3>4, <3>5
  <2> QED
    BY <2>3, <2>4, OwnersFound DEF OneHome
<1>2. Spec => [](IInv /\ MapInv)
  BY InitIInv, NextIInv, InitMap, NextMap, PTL DEF Spec
<1> QED
  BY <1>1, <1>2, PTL
=============================================================================
