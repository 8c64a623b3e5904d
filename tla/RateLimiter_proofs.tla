------------------------- MODULE RateLimiter_proofs -------------------------
(***************************************************************************)
(* Proofs about RateLimiter, for any clients, requests, limit and window,  *)
(* and about HttpEdge, the layers around it, for any paths.                *)
(***************************************************************************)
EXTENDS HttpEdge, FiniteSetTheorems, WellFoundedInduction, TLAPS

(***************************************************************************)
(* The inductive invariant. The list of a client holds admitted requests   *)
(* only, and all of those that a window ending now or later can contain;   *)
(* nothing is dated after now; and a refused request carries the name of a *)
(* slot that its Retry-After waits for.                                    *)
(***************************************************************************)
LogSound == \A c \in Clients : log[c] \subseteq Admitted(c)

LogComplete ==
  \A c \in Clients : \A q \in Admitted(c) : req[q].at > now - Window => q \in log[c]

NothingFromTheFuture == \A q \in Requests : req[q].at <= now

Releases(o, r) ==
  /\ o \in Load(req[r].client, req[r].at)
  /\ req[o].at + Window <= req[r].at + req[r].retryAfter * TicksPerSecond

RefusalNamesASlot ==
  \A r \in Requests : req[r].status = "refused" => \E o \in Requests : Releases(o, r)

IInv ==
  /\ TypeOK
  /\ LogSound
  /\ LogComplete
  /\ NothingFromTheFuture
  /\ SlidingWindowLimit
  /\ RefusalNamesASlot

-----------------------------------------------------------------------------
LEMMA WindowType == Window \in Nat \ {0}
  BY RateLimiterAssumption DEF Window

(* A nonempty set of naturals has a least element. *)
LEMMA LeastNatural ==
  ASSUME NEW S \in SUBSET Nat, S # {}
  PROVE  \E m \in S : \A n \in S : m <= n
  <1> DEFINE R == {ss \in Nat \X Nat : ss[1] < ss[2]}
  <1>1. R = OpToRel(<, Nat)
    BY Zenon DEF OpToRel
  <1>2. IsWellFoundedOn(R, Nat)
    BY <1>1, NatLessThanWellFounded, Zenon
  <1>3. \A x, y \in Nat : y < x => <<y, x>> \in R
    OBVIOUS
  <1>4. \E x \in S : \A y \in S : ~ (<<y, x>> \in R)
    BY <1>2, WFMin
  <1> HIDE DEF R
  <1>5. PICK x \in S : \A y \in S : ~ (y < x)
    BY <1>3, <1>4
  <1> QED
    BY <1>5

(* The first entry of a nonempty list exists and is the oldest. *)
LEMMA OldestLemma ==
  ASSUME TypeOK, NEW S \in SUBSET Requests, S # {}
  PROVE  Oldest(S) \in S
  <1>1. \A q \in S : req[q].at \in Nat
    BY DEF TypeOK, Request
  <1> DEFINE Times == {req[q].at : q \in S}
  <1>2. Times \in SUBSET Nat /\ Times # {}
    BY <1>1
  <1>3. PICK m \in Times : \A n \in Times : m <= n
    BY <1>2, LeastNatural
  <1>4. \E q \in S : \A p \in S : req[q].at <= req[p].at
    BY <1>3
  <1> QED
    BY <1>4 DEF Oldest

(* Retry-After rounds the waiting time up, never down. *)
LEMMA CeilingLemma ==
  ASSUME NEW x \in Nat, NEW d \in Nat \ {0}
  PROVE  /\ x \div d \in Nat
         /\ (x \div d + 1) * d > x
  OBVIOUS

LEMMA RetryAfterLemma ==
  ASSUME TypeOK, NEW S \in SUBSET Requests, S # {},
         \A q \in S : req[q].at > now - Window
  PROVE  /\ RetryAfter(S) \in Nat
         /\ req[Oldest(S)].at + Window <= now + RetryAfter(S) * TicksPerSecond
  <1> DEFINE x == req[Oldest(S)].at - (now - Window)
             k == x \div TicksPerSecond
  <1>1. Oldest(S) \in S
    BY OldestLemma
  <1>2. x \in Nat /\ now \in Nat /\ req[Oldest(S)].at \in Nat /\ Window \in Nat
    BY <1>1, WindowType DEF TypeOK, Request
  <1>3. TicksPerSecond \in Nat \ {0}
    BY RateLimiterAssumption
  <1>4. k \in Nat /\ (k + 1) * TicksPerSecond > x
    BY <1>2, <1>3, CeilingLemma
  <1>5. RetryAfter(S) = k + 1
    <2>1. RetryAfter(S) = IF k + 1 > 1 THEN k + 1 ELSE 1
      BY DEF RetryAfter
    <2> HIDE DEF k
    <2> QED
      BY <2>1, <1>4
  <1>6. req[Oldest(S)].at + Window = now + x
    BY <1>2
  <1> HIDE DEF x, k
  <1>7. (k + 1) * TicksPerSecond \in Nat
    BY <1>3, <1>4
  <1> QED
    BY <1>2, <1>4, <1>5, <1>6, <1>7

(* Subsets of the requests are finite, and a smaller one counts less. *)
LEMMA SubsetCount ==
  ASSUME NEW T \in SUBSET Requests, NEW S \in SUBSET T
  PROVE  /\ IsFiniteSet(S) /\ IsFiniteSet(T)
         /\ Cardinality(S) \in Nat /\ Cardinality(T) \in Nat
         /\ Cardinality(S) <= Cardinality(T)
  <1>1. IsFiniteSet(T)
    BY RateLimiterAssumption, FS_Subset
  <1> QED
    BY <1>1, FS_Subset, FS_CardinalityType

LEMMA AddOne ==
  ASSUME NEW S, NEW x, IsFiniteSet(S), NEW n \in Nat, Cardinality(S) < n
  PROVE  Cardinality(S \cup {x}) <= n
  <1>1. Cardinality(S) \in Nat
    BY FS_CardinalityType
  <1>2. Cardinality(S \cup {x}) = IF x \in S THEN Cardinality(S) ELSE Cardinality(S) + 1
    BY FS_AddElement
  <1> QED
    BY <1>1, <1>2

(* After pruning, the list of a client is exactly its admitted requests of *)
(* the window that ends now. *)
LEMMA PruneLemma ==
  ASSUME IInv, NEW c \in Clients
  PROVE  InWindow(c) = Load(c, now)
  <1>1. now \in Nat /\ Window \in Nat /\ \A q \in Requests : req[q].at \in Nat
    BY WindowType DEF IInv, TypeOK, Request
  <1>2. \A q \in Admitted(c) : q \in Requests
    BY DEF Admitted
  <1> QED
    BY <1>1, <1>2 DEF IInv, LogSound, LogComplete, NothingFromTheFuture, InWindow, Load

-----------------------------------------------------------------------------
LEMMA InitIInv == Init => IInv
  <1> SUFFICES ASSUME Init
               PROVE  IInv
    OBVIOUS
  <1>1. TypeOK
    BY DEF Init, TypeOK, Request
  <1>2. \A q \in Requests : req[q].status = "new" /\ req[q].at = 0
    BY DEF Init
  <1>3. \A c \in Clients : Admitted(c) = {}
    BY <1>2 DEF Admitted
  <1>4. LogSound /\ LogComplete /\ NothingFromTheFuture /\ RefusalNamesASlot
    BY <1>2, <1>3 DEF Init, LogSound, LogComplete, NothingFromTheFuture, RefusalNamesASlot
  <1>5. SlidingWindowLimit
    <2>1. \A c \in Clients : \A t \in 0 .. now : Load(c, t) = {}
      BY <1>3 DEF Load
    <2> QED
      BY <2>1, FS_EmptySet, RateLimiterAssumption DEF SlidingWindowLimit
  <1> QED
    BY <1>1, <1>4, <1>5 DEF IInv

(* An admitted request joins the window that ends now and no earlier one. *)
LEMMA AllowIInv ==
  ASSUME IInv, NEW r \in Requests, Allow(r)
  PROVE  IInv'
  <1> DEFINE c == req[r].client
  <1>a. /\ TypeOK
        /\ now \in Nat /\ now' = now
        /\ c \in Clients
        /\ Window \in Nat \ {0}
        /\ \A q \in Requests : req[q].at \in Nat
    BY WindowType DEF IInv, TypeOK, Request, Allow
  <1>b. /\ req[r].status = "new"
        /\ log' = [log EXCEPT ![c] = InWindow(c) \cup {r}]
        /\ req' = [req EXCEPT ![r] = [@ EXCEPT !.status = "admitted", !.at = now]]
    BY DEF Allow
  <1>c. /\ \A q \in Requests : q # r => req'[q] = req[q]
        /\ req'[r].status = "admitted" /\ req'[r].at = now /\ req'[r].client = c
    BY <1>a, <1>b DEF TypeOK, Request
  <1>1. TypeOK'
    <2>1. req' \in [Requests -> Request]
      BY <1>a, <1>b DEF TypeOK, Request
    <2>2. log' \in [Clients -> SUBSET Requests]
      BY <1>a, <1>b DEF TypeOK, InWindow
    <2>3. tracked' \in SUBSET Clients
      BY <1>a DEF TypeOK, Allow
    <2> QED
      BY <1>a, <2>1, <2>2, <2>3 DEF TypeOK
  <1>2. \A d \in Clients : Admitted(d)' = IF d = c THEN Admitted(c) \cup {r} ELSE Admitted(d)
    BY <1>b, <1>c DEF Admitted
  <1>3. LogSound'
    BY <1>a, <1>b, <1>2 DEF IInv, LogSound, InWindow, TypeOK
  <1>4. LogComplete'
    <2> SUFFICES ASSUME NEW d \in Clients, NEW q \in Admitted(d)', req'[q].at > now - Window
                 PROVE  q \in log'[d]
      BY <1>a DEF LogComplete, Window
    <2>1. CASE q = r
      <3>1. d = c
        BY <2>1, <1>c DEF Admitted
      <3> QED
        BY <2>1, <3>1, <1>a, <1>b DEF TypeOK
    <2>2. CASE q # r
      <3>1. q \in Admitted(d) /\ q \in Requests /\ req[q].at > now - Window
        BY <2>2, <1>2, <1>c DEF Admitted
      <3>2. q \in log[d]
        BY <3>1 DEF IInv, LogComplete
      <3> QED
        BY <3>1, <3>2, <1>a, <1>b DEF TypeOK, InWindow
    <2> QED
      BY <2>1, <2>2
  <1>5. NothingFromTheFuture'
    BY <1>a, <1>c DEF IInv, NothingFromTheFuture
  <1>6. SlidingWindowLimit'
    <2> SUFFICES ASSUME NEW d \in Clients, NEW t \in 0 .. now
                 PROVE  Cardinality(Load(d, t)') <= MaxRequests
      BY <1>a DEF SlidingWindowLimit
    <2>1. CASE d = c /\ t = now
      <3>1. Load(d, t)' = Load(c, now) \cup {r}
        BY <2>1, <1>a, <1>b, <1>c, <1>2 DEF Load, Admitted, Window
      <3>2. Cardinality(Load(c, now)) < MaxRequests
        BY <1>a, PruneLemma DEF Allow
      <3>3. IsFiniteSet(Load(c, now)) /\ Cardinality(Load(c, now)) \in Nat
        <4>1. Load(c, now) \in SUBSET Requests
          BY DEF Load, Admitted
        <4> QED
          BY <4>1, SubsetCount
      <3> QED
        BY <3>1, <3>2, <3>3, AddOne, RateLimiterAssumption
    <2>2. CASE d # c \/ t # now
      <3>1. r \notin Admitted(d)
        BY <1>b DEF Admitted
      <3>2. \A q \in Admitted(d) : req'[q] = req[q]
        BY <3>1, <1>c DEF Admitted
      <3>3. d = c => ~(req'[r].at <= t)
        BY <2>2, <1>a, <1>c
      <3>4. Load(d, t)' = Load(d, t)
        BY <3>1, <3>2, <3>3, <1>2 DEF Load, Window
      <3> QED
        BY <3>4, <1>a DEF IInv, SlidingWindowLimit
    <2> QED
      BY <2>1, <2>2
  <1>7. RefusalNamesASlot'
    <2> SUFFICES ASSUME NEW f \in Requests, req'[f].status = "refused"
                 PROVE  \E o \in Requests : Releases(o, f)'
      BY DEF RefusalNamesASlot
    <2>1. f # r /\ req'[f] = req[f]
      BY <1>c
    <2>2. PICK o \in Requests : Releases(o, f)
      BY <2>1 DEF IInv, RefusalNamesASlot
    <2>3. o # r /\ req'[o] = req[o]
      BY <2>2, <1>b, <1>c DEF Releases, Load, Admitted
    <2> QED
      BY <2>1, <2>2, <2>3 DEF Releases, Load, Admitted, Window
  <1> QED
    BY <1>1, <1>3, <1>4, <1>5, <1>6, <1>7 DEF IInv

(* A step that admits nobody, leaves refusals and dates alone, and prunes  *)
(* only entries that no window ending now or later contains. *)
LEMMA PruneIInv ==
  ASSUME IInv, TypeOK', now' = now,
         \A q \in Requests : /\ req'[q].client = req[q].client
                             /\ req'[q].at <= now
                             /\ (req'[q].status = "admitted") <=> (req[q].status = "admitted")
                             /\ req[q].status = "admitted" => req'[q] = req[q],
         \A d \in Clients : InWindow(d) \subseteq log'[d] /\ log'[d] \subseteq log[d],
         RefusalNamesASlot'
  PROVE  IInv'
  <1>1. \A d \in Clients : Admitted(d)' = Admitted(d)
    BY DEF Admitted
  <1>2. \A d \in Clients : \A q \in Admitted(d) : req'[q] = req[q]
    BY DEF Admitted
  <1>3. LogSound'
    BY <1>1 DEF IInv, LogSound
  <1>4. LogComplete'
    BY <1>1, <1>2 DEF IInv, LogComplete, InWindow, Window
  <1>5. NothingFromTheFuture'
    BY DEF NothingFromTheFuture
  <1>6. SlidingWindowLimit'
    <2>1. \A d \in Clients : \A t \in 0 .. now : Load(d, t)' = Load(d, t)
      BY <1>1, <1>2 DEF Load, Window
    <2> QED
      BY <2>1 DEF IInv, SlidingWindowLimit
  <1> QED
    BY <1>3, <1>4, <1>5, <1>6 DEF IInv

LEMMA RefuseIInv ==
  ASSUME IInv, NEW r \in Requests, Refuse(r)
  PROVE  IInv'
  <1> DEFINE c == req[r].client
             W == InWindow(c)
  <1>a. /\ TypeOK
        /\ now \in Nat /\ now' = now
        /\ c \in Clients
        /\ req[r].status = "new"
        /\ W \in SUBSET Requests
        /\ log' = [log EXCEPT ![c] = W]
        /\ req' = [req EXCEPT ![r] = [@ EXCEPT !.status = "refused", !.at = now,
                                              !.retryAfter = RetryAfter(W)]]
    BY DEF IInv, TypeOK, Request, Refuse, InWindow
  <1>0. W # {}
    <2>1. Cardinality(W) >= MaxRequests
      BY DEF Refuse
    <2> HIDE DEF W
    <2> QED
      BY <2>1, FS_EmptySet, RateLimiterAssumption
  <1>1. W # {} /\ \A q \in W : req[q].at > now - Window
    BY <1>0 DEF InWindow
  <1>2. /\ RetryAfter(W) \in Nat
        /\ req[Oldest(W)].at + Window <= now + RetryAfter(W) * TicksPerSecond
        /\ Oldest(W) \in W
    BY <1>a, <1>1, RetryAfterLemma, OldestLemma
  <1>c. /\ \A q \in Requests : q # r => req'[q] = req[q]
        /\ req'[r].status = "refused" /\ req'[r].at = now /\ req'[r].client = c
        /\ req'[r].retryAfter = RetryAfter(W)
    BY <1>a DEF TypeOK, Request
  <1>3. TypeOK'
    <2>1. req' \in [Requests -> Request]
      BY <1>a, <1>2 DEF TypeOK, Request
    <2>2. log' \in [Clients -> SUBSET Requests]
      BY <1>a DEF TypeOK
    <2>3. tracked' \in SUBSET Clients
      BY <1>a DEF TypeOK, Refuse
    <2> QED
      BY <1>a, <2>1, <2>2, <2>3 DEF TypeOK
  <1>4. RefusalNamesASlot'
    <2> SUFFICES ASSUME NEW f \in Requests, req'[f].status = "refused"
                 PROVE  \E o \in Requests : Releases(o, f)'
      BY DEF RefusalNamesASlot
    <2>1. CASE f = r
      <3>1. PICK o \in Requests : o = Oldest(W)
        BY <1>2, <1>a
      <3>2. o \in Load(c, now)
        BY <3>1, <1>2, <1>a, PruneLemma
      <3>3. o # r /\ req'[o] = req[o]
        BY <3>2, <1>a, <1>c DEF Load, Admitted
      <3>4. req[o].at + Window <= now + RetryAfter(W) * TicksPerSecond
        BY <3>1, <1>2
      <3> HIDE DEF W
      <3>5. Releases(o, f)'
        BY <2>1, <3>2, <3>3, <3>4, <1>c DEF Releases, Load, Admitted, Window
      <3> QED
        BY <3>5
    <2>2. CASE f # r
      <3>1. req'[f] = req[f]
        BY <2>2, <1>c
      <3>2. PICK o \in Requests : Releases(o, f)
        BY <3>1 DEF IInv, RefusalNamesASlot
      <3>3. o # r /\ req'[o] = req[o]
        BY <3>2, <1>a, <1>c DEF Releases, Load, Admitted
      <3> QED
        BY <3>1, <3>2, <3>3 DEF Releases, Load, Admitted, Window
    <2> QED
      BY <2>1, <2>2
  <1>5. \A q \in Requests : /\ req'[q].client = req[q].client
                            /\ req'[q].at <= now
                            /\ (req'[q].status = "admitted") <=> (req[q].status = "admitted")
                            /\ req[q].status = "admitted" => req'[q] = req[q]
    BY <1>a, <1>c DEF IInv, NothingFromTheFuture
  <1>6. \A d \in Clients : InWindow(d) \subseteq log'[d] /\ log'[d] \subseteq log[d]
    BY <1>a DEF TypeOK, InWindow
  <1> QED
    BY <1>a, <1>3, <1>4, <1>5, <1>6, PruneIInv

(* A step that only prunes, or only marks an exempt request as served. *)
LEMMA RefusalsKept ==
  ASSUME IInv, now' = now,
         \A q \in Requests : /\ req'[q].status = "refused" => req'[q] = req[q]
                             /\ req[q].status = "admitted" => req'[q] = req[q]
  PROVE  RefusalNamesASlot'
  <1> SUFFICES ASSUME NEW f \in Requests, req'[f].status = "refused"
               PROVE  \E o \in Requests : Releases(o, f)'
    BY DEF RefusalNamesASlot
  <1>1. req'[f] = req[f]
    OBVIOUS
  <1>2. PICK o \in Requests : Releases(o, f)
    BY <1>1 DEF IInv, RefusalNamesASlot
  <1>3. req'[o] = req[o]
    BY <1>2 DEF Releases, Load, Admitted
  <1> QED
    BY <1>1, <1>2, <1>3 DEF Releases, Load, Admitted, Window

LEMMA BypassIInv ==
  ASSUME IInv, NEW r \in Requests, Bypass(r)
  PROVE  IInv'
  <1>a. /\ TypeOK /\ now \in Nat /\ now' = now /\ log' = log /\ tracked' = tracked
        /\ req[r].status = "new"
        /\ req' = [req EXCEPT ![r] = [@ EXCEPT !.status = "exempt", !.at = now]]
    BY DEF IInv, TypeOK, Bypass
  <1>1. /\ \A q \in Requests : q # r => req'[q] = req[q]
        /\ req'[r].status = "exempt" /\ req'[r].at = now /\ req'[r].client = req[r].client
    BY <1>a DEF TypeOK, Request
  <1>2. TypeOK'
    BY <1>a DEF TypeOK, Request
  <1>3. RefusalNamesASlot'
    BY <1>a, <1>1, RefusalsKept
  <1>4. \A q \in Requests : /\ req'[q].client = req[q].client
                            /\ req'[q].at <= now
                            /\ (req'[q].status = "admitted") <=> (req[q].status = "admitted")
                            /\ req[q].status = "admitted" => req'[q] = req[q]
    BY <1>a, <1>1 DEF IInv, NothingFromTheFuture
  <1>5. \A d \in Clients : InWindow(d) \subseteq log'[d] /\ log'[d] \subseteq log[d]
    BY <1>a DEF InWindow
  <1> QED
    BY <1>a, <1>2, <1>3, <1>4, <1>5, PruneIInv

LEMMA CleanupIInv ==
  ASSUME IInv, Cleanup
  PROVE  IInv'
  <1>a. TypeOK /\ now \in Nat /\ now' = now /\ req' = req
    BY DEF IInv, TypeOK, Cleanup
  <1>1. \A d \in Clients : log'[d] = log[d] \/ (log'[d] = {} /\ Stale(d))
    BY DEF Cleanup
  <1>2. TypeOK'
    BY <1>a DEF Cleanup, TypeOK
  <1>3. RefusalNamesASlot'
    BY <1>a, RefusalsKept
  <1>4. \A d \in Clients : InWindow(d) \subseteq log'[d] /\ log'[d] \subseteq log[d]
    <2>1. \A d \in Clients : Stale(d) => InWindow(d) = {}
      BY <1>a, WindowType DEF TypeOK, Request, Stale, InWindow
    <2> QED
      BY <1>1, <2>1 DEF InWindow
  <1>5. \A q \in Requests : req[q].at <= now
    BY DEF IInv, NothingFromTheFuture
  <1> QED
    BY <1>a, <1>2, <1>3, <1>4, <1>5, PruneIInv

LEMMA TickIInv ==
  ASSUME IInv, Tick
  PROVE  IInv'
  <1>a. /\ TypeOK /\ now \in Nat /\ now' = now + 1
        /\ log' = log /\ tracked' = tracked /\ req' = req
        /\ \A q \in Requests : req[q].at \in Nat /\ req[q].at <= now
        /\ Window \in Nat \ {0}
    BY WindowType DEF IInv, TypeOK, Request, Tick, NothingFromTheFuture
  <1>1. TypeOK'
    BY <1>a DEF TypeOK
  <1>2. \A d \in Clients : Admitted(d)' = Admitted(d)
    BY <1>a DEF Admitted
  <1>3. LogSound'
    BY <1>a, <1>2 DEF IInv, LogSound
  <1>7. RefusalNamesASlot'
    <2>1. \A o, r \in Requests : Releases(o, r)' = Releases(o, r)
      BY <1>a DEF Releases, Load, Admitted, Window
    <2> QED
      BY <2>1, <1>a DEF IInv, RefusalNamesASlot
  <1>4. LogComplete'
    BY <1>a, <1>2 DEF IInv, LogComplete, Admitted, Window
  <1>5. NothingFromTheFuture'
    BY <1>a DEF NothingFromTheFuture
  <1>6. SlidingWindowLimit'
    <2> SUFFICES ASSUME NEW d \in Clients, NEW t \in 0 .. now + 1
                 PROVE  Cardinality(Load(d, t)') <= MaxRequests
      BY <1>a DEF SlidingWindowLimit
    <2>1. Load(d, t)' = Load(d, t)
      BY <1>a, <1>2 DEF Load, Window
    <2>2. CASE t \in 0 .. now
      BY <2>1, <2>2 DEF IInv, SlidingWindowLimit
    <2>3. CASE t = now + 1
      <3>1. Load(d, t) \in SUBSET Load(d, now)
        BY <2>3, <1>a DEF Load, Admitted
      <3>2. Load(d, now) \in SUBSET Requests
        BY DEF Load, Admitted
      <3>3. Cardinality(Load(d, now)) <= MaxRequests
        BY <1>a DEF IInv, SlidingWindowLimit
      <3> QED
        BY <2>1, <3>1, <3>2, <3>3, SubsetCount, RateLimiterAssumption
    <2> QED
      BY <2>2, <2>3, <1>a
  <1> QED
    BY <1>1, <1>3, <1>4, <1>5, <1>6, <1>7 DEF IInv

LEMMA NextIInv == IInv /\ [Next]_vars => IInv'
  <1> SUFFICES ASSUME IInv, [Next]_vars
               PROVE  IInv'
    OBVIOUS
  <1>1. ASSUME NEW r \in Requests, Serve(r)
        PROVE  IInv'
    BY <1>1, AllowIInv, RefuseIInv, BypassIInv DEF Serve
  <1>2. CASE UNCHANGED vars
    BY <1>2
       DEF vars, IInv, TypeOK, LogSound, LogComplete, NothingFromTheFuture, RefusalNamesASlot,
           Releases, SlidingWindowLimit, Load, Admitted, Window
  <1> QED
    BY <1>1, <1>2, CleanupIInv, TickIInv DEF Next

-----------------------------------------------------------------------------
(* The counter's state keeps its type for any number of clients. *)
THEOREM TypeCorrect == Spec => []TypeOK
  <1>1. IInv => TypeOK
    BY DEF IInv
  <1> QED
    BY <1>1, InitIInv, NextIInv, PTL DEF Spec

(* For every limit, window and clock resolution, no window of any client   *)
(* holds more than the limit (rate_limiter.py:45-69). *)
THEOREM WindowNeverOverfull == Spec => []SlidingWindowLimit
  <1>1. IInv => SlidingWindowLimit
    BY DEF IInv
  <1> QED
    BY <1>1, InitIInv, NextIInv, PTL DEF Spec

(* Waiting for the advertised number of seconds always frees a slot        *)
(* (rate_limiter.py:63-66). *)
LEMMA RetryAfterInvariant == IInv => RetryAfterSuffices
  <1> SUFFICES ASSUME IInv, NEW r \in Requests, req[r].status = "refused",
                      now >= req[r].at + req[r].retryAfter * TicksPerSecond,
                      \A q \in Admitted(req[r].client) : req[q].at <= req[r].at
               PROVE  Cardinality(InWindow(req[r].client)) < MaxRequests
    BY DEF RetryAfterSuffices
  <1> DEFINE c == req[r].client
             n == req[r].retryAfter * TicksPerSecond
  <1>1. /\ c \in Clients /\ now \in Nat /\ Window \in Nat \ {0}
        /\ \A q \in Requests : req[q].at \in Nat
        /\ req[r].retryAfter \in Nat
    BY WindowType DEF IInv, TypeOK, Request
  <1>2. n \in Nat
    BY <1>1, RateLimiterAssumption
  <1>3. PICK o \in Requests : Releases(o, r)
    BY DEF IInv, RefusalNamesASlot
  <1> DEFINE L == Load(c, req[r].at)
  <1>4. o \in L /\ req[o].at + Window <= req[r].at + n
    BY <1>3 DEF Releases
  <1>5. now >= req[r].at + n
    OBVIOUS
  <1>6. L \in SUBSET Requests
    BY DEF Load, Admitted
  <1> HIDE DEF n
  <1>7. InWindow(c) \in SUBSET (L \ {o})
    BY <1>1, <1>2, <1>4, <1>5 DEF IInv, LogSound, InWindow, Load, Admitted
  <1>8. Cardinality(L) <= MaxRequests
    <2>1. req[r].at \in 0 .. now
      BY <1>1 DEF IInv, NothingFromTheFuture
    <2> QED
      BY <2>1, <1>1 DEF IInv, SlidingWindowLimit
  <1> HIDE DEF L
  <1>9. IsFiniteSet(L) /\ Cardinality(L \ {o}) = Cardinality(L) - 1 /\ Cardinality(L) \in Nat
    BY <1>4, <1>6, SubsetCount, FS_RemoveElement, FS_CardinalityType
  <1>10. Cardinality(InWindow(c)) <= Cardinality(L \ {o})
         /\ Cardinality(InWindow(c)) \in Nat
    BY <1>6, <1>7, SubsetCount
  <1> QED
    BY <1>8, <1>9, <1>10, RateLimiterAssumption

THEOREM RetryAfterIsHonest == Spec => []RetryAfterSuffices
  BY RetryAfterInvariant, InitIInv, NextIInv, PTL DEF Spec

-----------------------------------------------------------------------------
(* The limiter implements the one that forgets nothing. *)

LEMMA OldestIsLeast ==
  ASSUME TypeOK, NEW S \in SUBSET Requests, S # {}
  PROVE  \A p \in S : req[Oldest(S)].at <= req[p].at
  <1>1. \A q \in S : req[q].at \in Nat
    BY DEF TypeOK, Request
  <1> DEFINE Times == {req[q].at : q \in S}
  <1>2. Times \in SUBSET Nat /\ Times # {}
    BY <1>1
  <1>3. PICK m \in Times : \A n \in Times : m <= n
    BY <1>2, LeastNatural
  <1>4. \E q \in S : \A p \in S : req[q].at <= req[p].at
    BY <1>3
  <1> QED
    BY <1>4 DEF Oldest

(* Rounding up costs at most a second, and a slot is free after a window.  *)
LEMMA FloorLemma ==
  ASSUME NEW x \in Nat, NEW d \in Nat \ {0}
  PROVE  (x \div d) * d <= x
  OBVIOUS

LEMMA QuotientBound ==
  ASSUME NEW x \in Nat, NEW d \in Nat \ {0}, NEW w \in Nat, x <= w * d
  PROVE  x \div d <= w
  <1> DEFINE k == x \div d
  <1>1. k \in Nat /\ k * d <= x
    BY FloorLemma, CeilingLemma
  <1> HIDE DEF k
  <1>2. SUFFICES ASSUME k >= w + 1 PROVE FALSE
    BY <1>1 DEF k
  <1>3. k * d >= (w + 1) * d
    BY <1>1, <1>2
  <1>4. (w + 1) * d = w * d + d
    OBVIOUS
  <1>5. w * d \in Nat /\ k * d \in Nat /\ (w + 1) * d \in Nat
    BY <1>1
  <1> QED
    BY <1>1, <1>3, <1>4, <1>5

LEMMA RetryAfterIsTight ==
  ASSUME TypeOK, NEW S \in SUBSET Requests, S # {},
         \A q \in S : req[q].at > now - Window /\ req[q].at <= now
  PROVE  /\ RetryAfter(S) \in 1 .. WindowSeconds + 1
         /\ now + (RetryAfter(S) - 1) * TicksPerSecond <= req[Oldest(S)].at + Window
  <1> DEFINE x == req[Oldest(S)].at - (now - Window)
             k == x \div TicksPerSecond
  <1>1. Oldest(S) \in S
    BY OldestLemma
  <1>2. /\ x \in Nat /\ now \in Nat /\ req[Oldest(S)].at \in Nat /\ Window \in Nat
        /\ x <= Window
    BY <1>1, WindowType DEF TypeOK, Request
  <1>3. TicksPerSecond \in Nat \ {0} /\ WindowSeconds \in Nat /\ Window = WindowSeconds * TicksPerSecond
    BY RateLimiterAssumption DEF Window
  <1>4. k \in Nat /\ k * TicksPerSecond <= x
    BY <1>2, <1>3, CeilingLemma, FloorLemma
  <1>5. k <= WindowSeconds
    BY <1>2, <1>3, QuotientBound
  <1>6. RetryAfter(S) = k + 1
    <2>1. RetryAfter(S) = IF k + 1 > 1 THEN k + 1 ELSE 1
      BY DEF RetryAfter
    <2> HIDE DEF k
    <2> QED
      BY <2>1, <1>4
  <1>7. req[Oldest(S)].at + Window = now + x
    BY <1>2
  <1> HIDE DEF x, k
  <1>8. k * TicksPerSecond \in Nat /\ RetryAfter(S) - 1 = k
    BY <1>3, <1>4, <1>6
  <1> QED
    BY <1>2, <1>3, <1>4, <1>5, <1>6, <1>7, <1>8

(* Both modules count with the operator of FiniteSets. *)
LEMMA SameCardinality ==
  ASSUME NEW S
  PROVE  Promise!Cardinality(S) = Cardinality(S)
  BY DEF Cardinality, Promise!Cardinality

LEMMA RecentLemma ==
  ASSUME IInv, NEW c \in Clients
  PROVE  Promise!Recent(c) = InWindow(c)
  <1>1. Load(c, now) = Promise!Recent(c)
    BY DEF Load, Admitted, Promise!Recent, Window, Promise!Window
  <1> QED
    BY <1>1, PruneLemma

LEMMA FreeLemma ==
  ASSUME IInv, NEW c \in Clients
  PROVE  Promise!Free(c) <=> Cardinality(InWindow(c)) < MaxRequests
  BY RecentLemma, SameCardinality DEF Promise!Free

(* A new request has no Retry-After yet. *)
Untold == \A r \in Requests : req[r].status = "new" => req[r].retryAfter = 0

LEMMA UntoldStep == IInv /\ Untold /\ [Next]_vars => Untold'
  <1> SUFFICES ASSUME IInv, Untold, [Next]_vars, NEW q \in Requests, req'[q].status = "new"
               PROVE  req'[q].retryAfter = 0
    BY DEF Untold
  <1>1. CASE req' = req
    <2>1. req'[q] = req[q]
      BY <1>1
    <2>2. req[q].status = "new"
      BY <2>1
    <2> QED
      BY <2>1, <2>2 DEF Untold
  <1>2. ASSUME NEW r \in Requests, Serve(r) PROVE q # r /\ req'[q] = req[q]
    <2>1. \E status \in {"admitted", "refused", "exempt"} :
            req'[r].status = status
      <3> USE DEF IInv, TypeOK, Request
      <3>1. CASE Allow(r)
        BY <3>1 DEF Allow
      <3>2. CASE Refuse(r)
        BY <3>2 DEF Refuse
      <3>3. CASE Bypass(r)
        BY <3>3 DEF Bypass
      <3> QED
        BY <1>2, <3>1, <3>2, <3>3 DEF Serve
    <2>2. \A p \in Requests \ {r} : req'[p] = req[p]
      BY <1>2 DEF IInv, TypeOK, Request, Serve, Allow, Refuse, Bypass
    <2>3. q # r
      BY <2>1
    <2> QED
      BY <2>2, <2>3
  <1> QED
    BY <1>1, <1>2 DEF Next, Cleanup, Tick, vars, Untold

LEMMA ServeImplements ==
  ASSUME IInv, Untold, NEW r \in Requests, Serve(r)
  PROVE  Promise!Next
  <1> DEFINE c == req[r].client
  <1>1. /\ TypeOK /\ c \in Clients /\ req \in [Requests -> Request]
        /\ req[r].status = "new" /\ req[r].retryAfter = 0
    BY DEF IInv, TypeOK, Request, Untold, Serve, Allow, Refuse, Bypass
  <1>2. Promise!Recent(c) = InWindow(c)
    BY <1>1, RecentLemma
  <1>3. CASE Allow(r)
    <2>1. req' = [req EXCEPT ![r] = [@ EXCEPT !.status = "admitted", !.at = now,
                                              !.retryAfter = 0]]
      BY <1>1, <1>3 DEF Allow, Request
    <2>2. Promise!Free(c)
      BY <1>1, <1>3, FreeLemma DEF Allow
    <2> QED
      BY <1>3, <2>1, <2>2 DEF Allow, Promise!Next, Promise!Admit, Promise!Decide
  <1>4. CASE Bypass(r)
    <2>1. req' = [req EXCEPT ![r] = [@ EXCEPT !.status = "exempt", !.at = now,
                                              !.retryAfter = 0]]
      BY <1>1, <1>4 DEF Bypass, Request
    <2> QED
      BY <1>4, <2>1 DEF Bypass, Promise!Next, Promise!Bypass, Promise!Decide
  <1>5. CASE Refuse(r)
    <2> DEFINE W == InWindow(c)
               n == RetryAfter(W)
    <2>1. W \in SUBSET Requests /\ \A q \in W : req[q].at > now - Window /\ req[q].at <= now
      BY <1>1 DEF IInv, TypeOK, InWindow, NothingFromTheFuture
    <2>2. Cardinality(W) >= MaxRequests
      BY <1>5 DEF Refuse
    <2>3. Cardinality(W) \in Nat /\ ~(Cardinality(W) < MaxRequests)
      BY <2>1, <2>2, SubsetCount, RateLimiterAssumption
    <2>4. W # {}
      BY <2>2, FS_EmptySet, RateLimiterAssumption
    <2>5. /\ n \in 1 .. WindowSeconds + 1
          /\ req[Oldest(W)].at + Window <= now + n * TicksPerSecond
          /\ now + (n - 1) * TicksPerSecond <= req[Oldest(W)].at + Window
          /\ Oldest(W) \in W
          /\ \A p \in W : req[Oldest(W)].at <= req[p].at
      BY <1>1, <2>1, <2>4, RetryAfterLemma, RetryAfterIsTight, OldestLemma, OldestIsLeast
    <2>6. req' = [req EXCEPT ![r] = [@ EXCEPT !.status = "refused", !.at = now,
                                              !.retryAfter = n]] /\ now' = now
      BY <1>5 DEF Refuse
    <2> HIDE DEF W, n
    <2>7. \A q \in W : now + (n - 1) * TicksPerSecond <= req[q].at + Window
      <3>1. \A q \in W : req[q].at \in Nat
        BY <1>1, <2>1 DEF Request
      <3>2. now \in Nat /\ Window \in Nat /\ (n - 1) * TicksPerSecond \in Nat
        BY <1>1, <2>5, WindowType, RateLimiterAssumption DEF TypeOK
      <3> QED
        BY <2>5, <3>1, <3>2
    <2>8. Promise!FreesASlot(c, n)
      BY <1>2, <2>5, <2>7 DEF Promise!FreesASlot, Window, Promise!Window, W
    <2>9. ~Promise!Free(c)
      BY <1>1, <2>3, FreeLemma DEF W
    <2> QED
      BY <1>5, <2>5, <2>6, <2>8, <2>9
         DEF Refuse, Promise!Next, Promise!Refuse, Promise!Decide
  <1> QED
    BY <1>3, <1>4, <1>5 DEF Serve

(* For any clients, requests and limits the limiter that prunes and cleans *)
(* up (rate_limiter.py:45-83) implements the one that forgets nothing, and *)
(* its Retry-After is a sufficient number of seconds, at most one too many. *)
THEOREM ImplementsPromise == Spec => ImplementsSlidingWindow
  <1>1. Init => Promise!Init /\ Untold
    BY DEF Init, Promise!Init, Untold
  <1>2. IInv /\ Untold /\ [Next]_vars => [Promise!Next]_(Promise!vars)
    <2> SUFFICES ASSUME IInv, Untold, [Next]_vars
                 PROVE  Promise!Next \/ UNCHANGED Promise!vars
      OBVIOUS
    <2>1. CASE Tick
      BY <2>1 DEF Tick, Promise!Next, Promise!Tick
    <2>2. CASE Cleanup \/ UNCHANGED vars
      BY <2>2 DEF Cleanup, vars, Promise!vars
    <2> QED
      BY <2>1, <2>2, ServeImplements DEF Next
  <1> QED
    BY <1>1, <1>2, InitIInv, NextIInv, UntoldStep, PTL
       DEF Spec, ImplementsSlidingWindow, Promise!Spec

-----------------------------------------------------------------------------
(* HttpEdge: the layers around the limiter. *)

LayerName == {"logging", "metrics", "limiter", "security", "errors", "gzip", "cors", "route"}

(* What the definition of a concatenation says. *)
LEMMA Concat ==
  ASSUME NEW S, NEW f \in Seq(S), NEW g \in Seq(S)
  PROVE  /\ f \o g \in Seq(S) /\ Len(f \o g) = Len(f) + Len(g)
         /\ \A i \in 1 .. Len(f) : (f \o g)[i] = f[i]
         /\ \A i \in 1 .. Len(g) : (f \o g)[Len(f) + i] = g[i]
OBVIOUS

LEMMA ElementOf ==
  ASSUME NEW S, NEW f \in Seq(S), NEW i \in 1 .. Len(f)
  PROVE  f[i] \in S
OBVIOUS

(* The stack from the outside in. *)
LEMMA StackLemma ==
  /\ DOMAIN Stack = 1 .. 8
  /\ Stack[1] = "logging" /\ Stack[2] = "metrics" /\ Stack[3] = "limiter"
  /\ Stack[4] = "security" /\ Stack[5] = "errors" /\ Stack[6] = "gzip"
  /\ Stack[7] = "cors" /\ Stack[8] = "route"
  <1>1. /\ Added \in Seq(LayerName) /\ Len(Added) = 7
        /\ Added[1] = "cors" /\ Added[2] = "gzip" /\ Added[3] = "errors"
        /\ Added[4] = "security" /\ Added[5] = "limiter" /\ Added[6] = "metrics"
        /\ Added[7] = "logging"
    <2>1. /\ Registered \in Seq(LayerName) /\ Len(Registered) = 6
          /\ Registered[1] = "gzip" /\ Registered[2] = "errors" /\ Registered[3] = "security"
          /\ Registered[4] = "limiter" /\ Registered[5] = "metrics" /\ Registered[6] = "logging"
      BY DEF Registered, LayerName
    <2>2. /\ <<"cors">> \in Seq(LayerName) /\ Len(<<"cors">>) = 1 /\ <<"cors">>[1] = "cors"
      BY DEF LayerName
    <2> DEFINE cors == <<"cors">>
    <2>3. /\ Added \in Seq(LayerName) /\ Len(Added) = 7 /\ Added[1] = "cors"
          /\ \A i \in 1 .. 6 : Added[1 + i] = Registered[i]
      <3>1. Added = cors \o Registered /\ cors \in Seq(LayerName) /\ Len(cors) = 1 /\ cors[1] = "cors"
        BY <2>2 DEF Added
      <3> HIDE DEF cors
      <3>0. cors \in Seq(LayerName) /\ Registered \in Seq(LayerName)
        BY <2>1, <3>1
      <3>2. /\ cors \o Registered \in Seq(LayerName)
            /\ Len(cors \o Registered) = Len(cors) + Len(Registered)
            /\ \A i \in 1 .. Len(cors) : (cors \o Registered)[i] = cors[i]
            /\ \A i \in 1 .. Len(Registered) : (cors \o Registered)[Len(cors) + i] = Registered[i]
        BY <3>0, Concat
      <3> QED
        BY <2>1, <3>1, <3>2
    <2>4. /\ Added[1 + 1] = "gzip" /\ Added[1 + 2] = "errors" /\ Added[1 + 3] = "security"
          /\ Added[1 + 4] = "limiter" /\ Added[1 + 5] = "metrics" /\ Added[1 + 6] = "logging"
      BY <2>1, <2>3
    <2> QED
      BY <2>3, <2>4
  <1> DEFINE outer == Reverse(Added)
  <1>2. /\ outer \in Seq(LayerName) /\ Len(outer) = 7
        /\ outer[1] = "logging" /\ outer[2] = "metrics" /\ outer[3] = "limiter"
        /\ outer[4] = "security" /\ outer[5] = "errors" /\ outer[6] = "gzip"
        /\ outer[7] = "cors"
    <2>1. \A i \in 1 .. 7 : Added[i] \in LayerName
      <3>1. Added \in Seq(LayerName) /\ Len(Added) = 7
        BY <1>1
      <3> QED
        BY <3>1, ElementOf
    <2>2. /\ outer = [i \in 1 .. 7 |-> Added[7 - i + 1]]
      BY <1>1 DEF Reverse
    <2>3. outer \in Seq(LayerName) /\ Len(outer) = 7
      BY <2>1, <2>2
    <2> QED
      BY <1>1, <2>2, <2>3
  <1>3. /\ <<"route">> \in Seq(LayerName) /\ Len(<<"route">>) = 1 /\ <<"route">>[1] = "route"
    BY DEF LayerName
  <1>4. Stack = outer \o <<"route">>
    BY DEF Stack
  <1> HIDE DEF outer
  <1>5. /\ Stack \in Seq(LayerName) /\ Len(Stack) = 8
        /\ \A i \in 1 .. 7 : Stack[i] = outer[i]
        /\ \A i \in 1 .. 1 : Stack[7 + i] = "route"
    <2> DEFINE route == <<"route">>
    <2>1. Stack = outer \o route /\ route \in Seq(LayerName) /\ Len(route) = 1 /\ route[1] = "route"
      BY <1>3, <1>4
    <2> HIDE DEF route
    <2>0. outer \in Seq(LayerName) /\ route \in Seq(LayerName)
      BY <1>2, <2>1
    <2>2. /\ outer \o route \in Seq(LayerName)
          /\ Len(outer \o route) = Len(outer) + Len(route)
          /\ \A i \in 1 .. Len(outer) : (outer \o route)[i] = outer[i]
          /\ \A i \in 1 .. Len(route) : (outer \o route)[Len(outer) + i] = route[i]
      BY <2>0, Concat
    <2> QED
      BY <1>2, <2>1, <2>2
  <1>6. Stack[7 + 1] = "route"
    BY <1>5
  <1> QED
    BY <1>2, <1>5, <1>6

(* What lies outside of the layers that make answers. *)
LEMMA OutsideLemma ==
  /\ \A made \in {"limiter", "errors", "route"} : {"logging", "metrics"} \subseteq Outside(made)
  /\ \A made \in {"errors", "route"} : "limiter" \in Outside(made)
  <1>1. \A made, layer : layer \in Outside(made) <=>
           \E i \in 1 .. 8 : Stack[i] = layer /\ \A k \in 1 .. i : Stack[k] # made
    BY StackLemma DEF Outside
  <1>2. \A made \in {"limiter", "errors", "route"} : {"logging", "metrics"} \subseteq Outside(made)
    <2> TAKE made \in {"limiter", "errors", "route"}
    <2>1. \A k \in 1 .. 2 : k \in {1, 2}
      OBVIOUS
    <2>2. "metrics" \in Outside(made)
      BY <1>1, <2>1, StackLemma
    <2>3. "logging" \in Outside(made)
      BY <1>1, StackLemma
    <2> QED
      BY <2>2, <2>3
  <1>3. \A made \in {"errors", "route"} : "limiter" \in Outside(made)
    <2> TAKE made \in {"errors", "route"}
    <2>1. \A k \in 1 .. 3 : k \in {1, 2, 3}
      OBVIOUS
    <2>2. \A k \in 1 .. 3 : Stack[k] # made
      BY <2>1, StackLemma
    <2> QED
      BY <1>1, <2>2, StackLemma
  <1> QED
    BY <1>2, <1>3

(* What one more entry does to a bag. *)
LEMMA BagAddLemma ==
  ASSUME NEW B, IsABag(B), NEW x
  PROVE  /\ IsABag(B (+) SetToBag({x}))
         /\ BagToSet(B (+) SetToBag({x})) = BagToSet(B) \cup {x}
         /\ Shown(x, B (+) SetToBag({x})) = Shown(x, B) + 1
         /\ \A y : y # x => Shown(y, B (+) SetToBag({x})) = Shown(y, B)
         /\ B \sqsubseteq (B (+) SetToBag({x}))
  <1>1. /\ B = [e \in DOMAIN B |-> B[e]]
        /\ \A e \in DOMAIN B : B[e] \in Nat /\ B[e] > 0
    BY DEF IsABag
  <1>2. CASE x \in DOMAIN B
    BY <1>1, <1>2 DEF IsABag, BagToSet, SetToBag, (+), Shown, BagIn, \sqsubseteq
  <1>3. CASE x \notin DOMAIN B
    BY <1>1, <1>3 DEF IsABag, BagToSet, SetToBag, (+), Shown, BagIn, \sqsubseteq
  <1> QED
    BY <1>2, <1>3

-----------------------------------------------------------------------------
(***************************************************************************)
(* The inductive invariant of the stack. An answer says which layer made   *)
(* it, which the limiter's decision determines; what has left was answered;*)
(* and the registry holds bags.                                            *)
(***************************************************************************)
Refusal == [status |-> 429, made |-> "limiter"]

Answered ==
  /\ answer \in [Requests -> {NoAnswer, Refusal} \cup Outcomes]
  /\ sent \in SUBSET {r \in Requests : answer[r] # NoAnswer}
  /\ marks \in [Requests -> SUBSET {MarkOf[layer] : layer \in DOMAIN MarkOf}]

Decided ==
  \A r \in Requests :
    /\ req[r].status = "new" => answer[r] = NoAnswer
    /\ req[r].status = "refused" <=> answer[r] = Refusal
    /\ req[r].status # "new" => (req[r].status = "exempt" <=> r \in ExemptRequests)

EIInv ==
  /\ Answered
  /\ Decided
  /\ IsABag(counters) /\ IsABag(observed) /\ IsABag(scraped)
  /\ AnswersAreAccountedFor

LEMMA MarksLemma ==
  ASSUME NEW r, answer[r].made \in {"limiter", "errors", "route"}
  PROVE  /\ Marks(r) \subseteq {MarkOf[layer] : layer \in DOMAIN MarkOf}
         /\ "X-Request-ID" \in Marks(r)
         /\ "X-RateLimit-Limit" \in Marks(r) <=> r \notin ExemptRequests
  <1> DEFINE made == answer[r].made
             idle == IF r \in ExemptRequests THEN {"limiter"} ELSE {}
             passed == ((Outside(made) \cup {made}) \cap DOMAIN MarkOf) \ idle
  <1>1. /\ DOMAIN MarkOf = {"logging", "limiter", "security"}
        /\ MarkOf["logging"] = "X-Request-ID" /\ MarkOf["limiter"] = "X-RateLimit-Limit"
        /\ MarkOf["security"] = "X-Frame-Options"
    BY DEF MarkOf
  <1>2. Marks(r) = {MarkOf[layer] : layer \in passed}
    BY DEF Marks
  <1>3. passed \subseteq {"logging", "limiter", "security"}
    BY <1>1
  <1>4. "logging" \in passed
    BY <1>1, OutsideLemma
  <1>5. "limiter" \in passed <=> r \notin ExemptRequests
    BY <1>1, OutsideLemma
  <1> HIDE DEF passed
  <1> QED
    BY <1>1, <1>2, <1>3, <1>4, <1>5

(* Whichever layer makes an answer, it passes the metrics, and its marks   *)
(* tell how the limiter decided.                                           *)
LEMMA AnswerParts ==
  ASSUME NEW a \in {Refusal} \cup Outcomes
  PROVE  /\ a.made \in {"limiter", "errors", "route"}
         /\ a.status \in Statuses
         /\ a.status = 429 <=> a = Refusal
         /\ a.made = "limiter" <=> a = Refusal
         /\ a # NoAnswer
         /\ "metrics" \in Outside(a.made)
  <1>1. /\ a.made \in {"limiter", "errors", "route"}
        /\ a.status \in Statuses
        /\ a.status = 429 <=> a = Refusal
        /\ a.made = "limiter" <=> a = Refusal
        /\ a # NoAnswer
    <2>1. CASE a = Refusal
      BY <2>1 DEF Refusal, NoAnswer, Statuses
    <2>2. CASE a \in [status : {200, 404}, made : {"route"}]
      BY <2>2 DEF Refusal, NoAnswer, Statuses
    <2>3. CASE a \in [status : {500}, made : {"errors"}]
      BY <2>3 DEF Refusal, NoAnswer, Statuses
    <2> QED
      BY <2>1, <2>2, <2>3 DEF Outcomes
  <1> QED
    BY <1>1, OutsideLemma

LEMMA ServedReq ==
  ASSUME TypeOK, NEW r \in Requests, Serve(r)
  PROVE  /\ req[r].status = "new"
         /\ \A q \in Requests : q # r => req'[q] = req[q]
         /\ req'[r].status \in {"admitted", "refused", "exempt"}
         /\ req'[r].status = "exempt" <=> r \in ExemptRequests
  <1>1. CASE Allow(r)
    BY <1>1 DEF TypeOK, Request, Allow
  <1>2. CASE Refuse(r)
    BY <1>2 DEF TypeOK, Request, Refuse
  <1>3. CASE Bypass(r)
    BY <1>3 DEF TypeOK, Request, Bypass
  <1> QED
    BY <1>1, <1>2, <1>3 DEF Serve

(* While no answer leaves, and none that has left is touched, the accounts *)
(* stay right; a scrape copies them.                                       *)
LEMMA AccountsKept ==
  ASSUME EIInv, UNCHANGED <<marks, sent, counters, observed>>,
         scraped' \in {scraped, counters},
         \A q \in sent : answer'[q] = answer[q] /\ req'[q].status = req[q].status
  PROVE  /\ IsABag(counters)' /\ IsABag(observed)' /\ IsABag(scraped)'
         /\ AnswersAreAccountedFor'
  <1>1. /\ \A l, status : AnsweredWith(l, status)' = AnsweredWith(l, status)
        /\ \A l : AnsweredUnder(l)' = AnsweredUnder(l)
    BY DEF AnsweredWith, AnsweredUnder
  <1>2. IsABag(counters)' /\ IsABag(observed)' /\ IsABag(scraped)'
    BY DEF EIInv
  <1>3. ASSUME NEW r \in Requests, NEW status \in Statuses
        PROVE  Shown(<<Label(PathOf[r]), status>>, counters)'
                 = Cardinality(AnsweredWith(Label(PathOf[r]), status))'
    <2>1. Shown(<<Label(PathOf[r]), status>>, counters)
            = Cardinality(AnsweredWith(Label(PathOf[r]), status))
      BY DEF EIInv, AnswersAreAccountedFor
    <2>2. Shown(<<Label(PathOf[r]), status>>, counters)'
            = Shown(<<Label(PathOf[r]), status>>, counters)
      OBVIOUS
    <2> QED
      BY <1>1, <2>1, <2>2
  <1>4. \A entry \in BagToSet(counters)' : AnsweredWith(entry[1], entry[2])' # {}
    BY <1>1 DEF EIInv, AnswersAreAccountedFor
  <1>5. {r \in sent : answer[r].status = 429}' \subseteq {r \in Requests : req[r].status = "refused"}'
    <2>1. {r \in sent : answer[r].status = 429} \subseteq {r \in Requests : req[r].status = "refused"}
      BY DEF EIInv, AnswersAreAccountedFor
    <2> QED
      BY <2>1
  <1>6. \A r \in Requests :
          Shown(Label(PathOf[r]), observed)' = Cardinality(AnsweredUnder(Label(PathOf[r])))'
    BY <1>1 DEF EIInv, AnswersAreAccountedFor
  <1>7. scraped' \sqsubseteq counters'
    <2>1. counters \sqsubseteq counters
      BY DEF EIInv, IsABag, \sqsubseteq
    <2> QED
      BY <2>1 DEF EIInv, AnswersAreAccountedFor
  <1>8. \A r \in sent' :
          /\ "X-Request-ID" \in marks'[r]
          /\ "X-RateLimit-Limit" \in marks'[r] <=> req'[r].status # "exempt"
    BY DEF EIInv, AnswersAreAccountedFor
  <1> QED
    BY <1>2, <1>3, <1>4, <1>5, <1>6, <1>7, <1>8 DEF AnswersAreAccountedFor

LEMMA ArriveEIInv ==
  ASSUME EIInv, TypeOK, NEW r \in Requests, Arrive(r)
  PROVE  EIInv'
  <1>1. /\ Serve(r) /\ UNCHANGED <<marks, sent, counters, observed, scraped>>
        /\ answer' = IF req'[r].status = "refused" THEN [answer EXCEPT ![r] = Refusal] ELSE answer
    BY DEF Arrive, Refusal
  <1>2. /\ req[r].status = "new"
        /\ \A q \in Requests : q # r => req'[q] = req[q]
        /\ req'[r].status \in {"admitted", "refused", "exempt"}
        /\ req'[r].status = "exempt" <=> r \in ExemptRequests
    BY <1>1, ServedReq
  <1>3. /\ answer \in [Requests -> {NoAnswer, Refusal} \cup Outcomes]
        /\ answer[r] = NoAnswer /\ r \notin sent /\ sent \subseteq Requests
        /\ \A q \in sent : answer[q] # NoAnswer
    BY <1>2 DEF EIInv, Answered, Decided
  <1>4. /\ answer' \in [Requests -> {NoAnswer, Refusal} \cup Outcomes]
        /\ \A q \in Requests : q # r => answer'[q] = answer[q]
        /\ answer'[r] = IF req'[r].status = "refused" THEN Refusal ELSE NoAnswer
    BY <1>1, <1>3
  <1>5. Answered'
    BY <1>1, <1>3, <1>4 DEF EIInv, Answered
  <1>6. Refusal # NoAnswer
    BY DEF Refusal, NoAnswer
  <1>7. Decided'
    BY <1>2, <1>4, <1>6 DEF EIInv, Decided
  <1>8. \A q \in sent : answer'[q] = answer[q] /\ req'[q].status = req[q].status
    BY <1>2, <1>3, <1>4
  <1> QED
    BY <1>1, <1>5, <1>7, <1>8, AccountsKept DEF EIInv

(* The routes and the handlers around them answer what the limiter let in. *)
LEMMA InsideEIInv ==
  ASSUME EIInv, NEW r \in Requests, Inside(r), NEW a \in Outcomes,
         answer' = [answer EXCEPT ![r] = a],
         UNCHANGED <<vars, marks, sent, counters, observed>>,
         scraped' \in {scraped, counters}
  PROVE  EIInv'
  <1>1. /\ req' = req /\ answer[r] = NoAnswer
        /\ req[r].status \in {"admitted", "exempt"}
    BY DEF Inside, vars
  <1>2. /\ answer \in [Requests -> {NoAnswer, Refusal} \cup Outcomes]
        /\ r \notin sent /\ sent \subseteq Requests
        /\ \A q \in sent : answer[q] # NoAnswer
    BY <1>1 DEF EIInv, Answered
  <1>3. a # NoAnswer /\ a # Refusal
    <2>1. a.made # "limiter"
      BY DEF Outcomes
    <2> QED
      BY <2>1, AnswerParts DEF Refusal
  <1>4. /\ answer' \in [Requests -> {NoAnswer, Refusal} \cup Outcomes]
        /\ \A q \in Requests : q # r => answer'[q] = answer[q]
        /\ answer'[r] = a
    BY <1>2
  <1>5. Answered'
    BY <1>2, <1>4 DEF EIInv, Answered
  <1>6. Decided'
    BY <1>1, <1>3, <1>4 DEF EIInv, Decided
  <1>7. \A q \in sent : answer'[q] = answer[q] /\ req'[q].status = req[q].status
    BY <1>1, <1>2, <1>4
  <1> QED
    BY <1>5, <1>6, <1>7, AccountsKept DEF EIInv

(* An answer that leaves is counted and timed once, unless a scrape's.     *)
LEMMA LeaveEIInv ==
  ASSUME EIInv, NEW r \in Requests, Leave(r)
  PROVE  EIInv'
  <1> DEFINE a == answer[r]
             label == Label(PathOf[r])
             entry == <<label, a.status>>
  <1>1. /\ a # NoAnswer /\ r \notin sent /\ sent' = sent \cup {r}
        /\ marks' = [marks EXCEPT ![r] = Marks(r)]
        /\ answer' = answer /\ req' = req /\ scraped' = scraped
    BY DEF Leave, vars
  <1>2. a \in {Refusal} \cup Outcomes
    BY <1>1 DEF EIInv, Answered
  <1>3. /\ a.made \in {"limiter", "errors", "route"}
        /\ a.status \in Statuses
        /\ a.status = 429 <=> a = Refusal
        /\ a.made = "limiter" <=> a = Refusal
        /\ "metrics" \in Outside(a.made)
    BY <1>2, AnswerParts
  <1>4. IF r \in Scrapes
          THEN UNCHANGED <<counters, observed>>
          ELSE counters' = counters (+) SetToBag({entry}) /\ observed' = observed (+) SetToBag({label})
    BY <1>3 DEF Leave
  <1>5. req[r].status # "new" /\ (req[r].status = "refused" <=> a = Refusal)
        /\ (req[r].status = "exempt" <=> r \in ExemptRequests)
    BY <1>1 DEF EIInv, Decided
  <1>6. sent \subseteq Requests /\ marks \in [Requests -> SUBSET {MarkOf[layer] : layer \in DOMAIN MarkOf}]
    BY DEF EIInv, Answered
  <1>7. Marks(r) \subseteq {MarkOf[layer] : layer \in DOMAIN MarkOf}
    BY <1>3, MarksLemma
  <1>8. Answered'
    BY <1>1, <1>6, <1>7 DEF EIInv, Answered
  <1>9. Decided'
    BY <1>1 DEF EIInv, Decided
  <1> HIDE DEF a, label
  <1>10. /\ \A l, status :
             AnsweredWith(l, status)' =
               IF r \notin Scrapes /\ l = label /\ status = a.status
                 THEN AnsweredWith(l, status) \cup {r} ELSE AnsweredWith(l, status)
         /\ \A l : AnsweredUnder(l)' =
               IF r \notin Scrapes /\ l = label
                 THEN AnsweredUnder(l) \cup {r} ELSE AnsweredUnder(l)
    BY <1>1 DEF AnsweredWith, AnsweredUnder, label, a
  <1>11. /\ \A l, status : IsFiniteSet(AnsweredWith(l, status)) /\ r \notin AnsweredWith(l, status)
         /\ \A l : IsFiniteSet(AnsweredUnder(l)) /\ r \notin AnsweredUnder(l)
    <2>1. /\ \A l, status : AnsweredWith(l, status) \in SUBSET Requests
          /\ \A l : AnsweredUnder(l) \in SUBSET Requests
      BY <1>6 DEF AnsweredWith, AnsweredUnder
    <2>2. \A S \in SUBSET Requests : IsFiniteSet(S)
      BY RateLimiterAssumption, FS_Subset
    <2>3. /\ \A l, status : r \notin AnsweredWith(l, status)
          /\ \A l : r \notin AnsweredUnder(l)
      BY <1>1 DEF AnsweredWith, AnsweredUnder
    <2> QED
      BY <2>1, <2>2, <2>3
  <1>12. \A S : IsFiniteSet(S) /\ r \notin S => Cardinality(S \cup {r}) = Cardinality(S) + 1
    BY FS_AddElement
  <1>13. IsABag(counters) /\ IsABag(observed) /\ IsABag(scraped)
    BY DEF EIInv
  <1>14. r \notin Scrapes =>
           /\ IsABag(counters') /\ BagToSet(counters') = BagToSet(counters) \cup {entry}
           /\ Shown(entry, counters') = Shown(entry, counters) + 1
           /\ \A y : y # entry => Shown(y, counters') = Shown(y, counters)
           /\ counters \sqsubseteq counters'
           /\ IsABag(observed')
           /\ Shown(label, observed') = Shown(label, observed) + 1
           /\ \A y : y # label => Shown(y, observed') = Shown(y, observed)
    <2> SUFFICES ASSUME r \notin Scrapes
                 PROVE  /\ IsABag(counters') /\ BagToSet(counters') = BagToSet(counters) \cup {entry}
                        /\ Shown(entry, counters') = Shown(entry, counters) + 1
                        /\ \A y : y # entry => Shown(y, counters') = Shown(y, counters)
                        /\ counters \sqsubseteq counters'
                        /\ IsABag(observed')
                        /\ Shown(label, observed') = Shown(label, observed) + 1
                        /\ \A y : y # label => Shown(y, observed') = Shown(y, observed)
      OBVIOUS
    <2>1. counters' = counters (+) SetToBag({entry}) /\ observed' = observed (+) SetToBag({label})
      BY <1>4
    <2> HIDE DEF entry
    <2>2. /\ IsABag(counters') /\ BagToSet(counters') = BagToSet(counters) \cup {entry}
          /\ Shown(entry, counters') = Shown(entry, counters) + 1
          /\ \A y : y # entry => Shown(y, counters') = Shown(y, counters)
          /\ counters \sqsubseteq counters'
      BY <1>13, <2>1, BagAddLemma, Zenon
    <2>3. /\ IsABag(observed')
          /\ Shown(label, observed') = Shown(label, observed) + 1
          /\ \A y : y # label => Shown(y, observed') = Shown(y, observed)
      BY <1>13, <2>1, BagAddLemma, Zenon
    <2> QED
      BY <2>2, <2>3
  <1> HIDE DEF entry
  <1>15. IsABag(counters)' /\ IsABag(observed)' /\ IsABag(scraped)'
    BY <1>1, <1>4, <1>13, <1>14
  <1>16. ASSUME NEW q \in Requests, NEW status \in Statuses
         PROVE  Shown(<<Label(PathOf[q]), status>>, counters')
                  = Cardinality(AnsweredWith(Label(PathOf[q]), status)')
    <2> DEFINE l == Label(PathOf[q])
               S == AnsweredWith(l, status)
    <2>1. Shown(<<l, status>>, counters) = Cardinality(S)
      BY DEF EIInv, AnswersAreAccountedFor
    <2> HIDE DEF l
    <2>2. CASE r \notin Scrapes /\ l = label /\ status = a.status
      <3>1. <<l, status>> = entry
        BY <2>2 DEF entry
      <3>2. AnsweredWith(l, status)' = S \cup {r} /\ IsFiniteSet(S) /\ r \notin S
        BY <1>10, <1>11, <2>2
      <3> HIDE DEF S
      <3>3. Cardinality(S \cup {r}) = Cardinality(S) + 1
        BY <1>12, <3>2
      <3>4. Shown(entry, counters') = Shown(entry, counters) + 1
        BY <1>14, <2>2
      <3>5. Shown(<<l, status>>, counters') = Cardinality(AnsweredWith(l, status)')
        BY <2>1, <3>1, <3>2, <3>3, <3>4
      <3> QED
        BY <3>5 DEF l
    <2>3. CASE r \in Scrapes
      <3>1. counters' = counters /\ AnsweredWith(l, status)' = S
        BY <1>4, <1>10, <2>3
      <3> QED
        BY <2>1, <3>1 DEF l
    <2>4. CASE r \notin Scrapes /\ ~(l = label /\ status = a.status)
      <3>1. <<l, status>> # entry
        BY <2>4 DEF entry
      <3>2. Shown(<<l, status>>, counters') = Shown(<<l, status>>, counters)
        BY <1>14, <2>4, <3>1
      <3>3. AnsweredWith(l, status)' = S
        BY <1>10, <2>4
      <3> QED
        BY <2>1, <3>2, <3>3 DEF l
    <2> QED
      BY <2>2, <2>3, <2>4
  <1>17. ASSUME NEW q \in Requests
         PROVE  Shown(Label(PathOf[q]), observed') = Cardinality(AnsweredUnder(Label(PathOf[q]))')
    <2> DEFINE l == Label(PathOf[q])
               S == AnsweredUnder(l)
    <2>1. Shown(l, observed) = Cardinality(S)
      BY DEF EIInv, AnswersAreAccountedFor
    <2> HIDE DEF l
    <2>2. CASE r \notin Scrapes /\ l = label
      <3>1. AnsweredUnder(l)' = S \cup {r} /\ IsFiniteSet(S) /\ r \notin S
        BY <1>10, <1>11, <2>2
      <3> HIDE DEF S
      <3>2. Cardinality(S \cup {r}) = Cardinality(S) + 1
        BY <1>12, <3>1
      <3>3. Shown(label, observed') = Shown(label, observed) + 1
        BY <1>14, <2>2
      <3>4. Shown(l, observed') = Cardinality(AnsweredUnder(l)')
        BY <2>1, <2>2, <3>1, <3>2, <3>3
      <3> QED
        BY <3>4 DEF l
    <2>3. CASE r \in Scrapes
      <3>1. observed' = observed /\ AnsweredUnder(l)' = S
        BY <1>4, <1>10, <2>3
      <3> QED
        BY <2>1, <3>1 DEF l
    <2>4. CASE r \notin Scrapes /\ l # label
      <3>1. Shown(l, observed') = Shown(l, observed) /\ AnsweredUnder(l)' = S
        BY <1>10, <1>14, <2>4
      <3> QED
        BY <2>1, <3>1 DEF l
    <2> QED
      BY <2>2, <2>3, <2>4
  <1>18. ASSUME NEW e \in BagToSet(counters')
         PROVE  AnsweredWith(e[1], e[2])' # {}
    <2>1. CASE e \in BagToSet(counters)
      <3>1. AnsweredWith(e[1], e[2]) # {}
        BY <2>1 DEF EIInv, AnswersAreAccountedFor
      <3>2. AnsweredWith(e[1], e[2]) \subseteq AnsweredWith(e[1], e[2])'
        BY <1>10
      <3> QED
        BY <3>1, <3>2
    <2>2. CASE e \notin BagToSet(counters)
      <3>1. r \notin Scrapes /\ e = entry
        BY <1>4, <1>14, <2>2
      <3>2. e[1] = label /\ e[2] = a.status
        BY <3>1 DEF entry
      <3> QED
        BY <1>10, <3>1, <3>2
    <2> QED
      BY <2>1, <2>2
  <1>19. {q \in sent : answer[q].status = 429}' \subseteq {q \in Requests : req[q].status = "refused"}'
    <2>1. {q \in sent : answer[q].status = 429} \subseteq {q \in Requests : req[q].status = "refused"}
      BY DEF EIInv, AnswersAreAccountedFor
    <2>2. answer[r].status = 429 => req[r].status = "refused"
      BY <1>3, <1>5 DEF a
    <2> QED
      BY <1>1, <2>1, <2>2
  <1>20. scraped' \sqsubseteq counters'
    <2>1. scraped \sqsubseteq counters
      BY DEF EIInv, AnswersAreAccountedFor
    <2>2. CASE r \in Scrapes
      BY <1>1, <1>4, <2>1, <2>2
    <2>3. CASE r \notin Scrapes
      <3>1. counters \sqsubseteq counters' /\ IsABag(counters')
        BY <1>14, <2>3
      <3> QED
        BY <1>1, <1>13, <2>1, <3>1 DEF IsABag, \sqsubseteq
    <2> QED
      BY <2>2, <2>3
  <1>21. ASSUME NEW q \in sent'
         PROVE  /\ "X-Request-ID" \in marks'[q]
                /\ "X-RateLimit-Limit" \in marks'[q] <=> req'[q].status # "exempt"
    <2>1. CASE q = r
      <3>1. marks'[r] = Marks(r)
        BY <1>1, <1>6
      <3>2. /\ "X-Request-ID" \in Marks(r)
            /\ "X-RateLimit-Limit" \in Marks(r) <=> r \notin ExemptRequests
        BY <1>3, MarksLemma DEF a
      <3> QED
        BY <1>1, <1>3, <1>5, <2>1, <3>1, <3>2
    <2>2. CASE q # r
      <3>1. q \in sent /\ marks'[q] = marks[q]
        BY <1>1, <1>6, <2>2
      <3> QED
        BY <1>1, <3>1 DEF EIInv, AnswersAreAccountedFor
    <2> QED
      BY <2>1, <2>2
  <1>22. AnswersAreAccountedFor'
    BY <1>16, <1>17, <1>18, <1>19, <1>20, <1>21 DEF AnswersAreAccountedFor
  <1> QED
    BY <1>8, <1>9, <1>15, <1>22 DEF EIInv

LEMMA InitEIInv == EdgeInit => EIInv
  <1> SUFFICES ASSUME EdgeInit
               PROVE  EIInv
    OBVIOUS
  <1>1. /\ answer = [r \in Requests |-> NoAnswer] /\ marks = [r \in Requests |-> {}] /\ sent = {}
        /\ counters = EmptyBag /\ observed = EmptyBag /\ scraped = EmptyBag
        /\ \A r \in Requests : req[r].status = "new"
    BY DEF EdgeInit, Init
  <1>2. Refusal # NoAnswer
    BY DEF Refusal, NoAnswer
  <1>3. Answered /\ Decided
    BY <1>1, <1>2 DEF Answered, Decided
  <1>4. IsABag(EmptyBag) /\ BagToSet(EmptyBag) = {} /\ EmptyBag \sqsubseteq EmptyBag
        /\ \A e : Shown(e, EmptyBag) = 0
    BY DEF IsABag, EmptyBag, SetToBag, BagToSet, BagIn, Shown, \sqsubseteq
  <1>5. /\ \A l, status : AnsweredWith(l, status) = {}
        /\ \A l : AnsweredUnder(l) = {}
    BY <1>1 DEF AnsweredWith, AnsweredUnder
  <1>6. AnswersAreAccountedFor
    <2>1. \A r \in Requests, status \in Statuses :
            Shown(<<Label(PathOf[r]), status>>, counters)
              = Cardinality(AnsweredWith(Label(PathOf[r]), status))
      BY <1>1, <1>4, <1>5, FS_EmptySet
    <2>2. \A r \in Requests :
            Shown(Label(PathOf[r]), observed) = Cardinality(AnsweredUnder(Label(PathOf[r])))
      BY <1>1, <1>4, <1>5, FS_EmptySet
    <2>3. BagToSet(counters) = {} /\ scraped \sqsubseteq counters /\ sent = {}
      BY <1>1, <1>4
    <2> QED
      BY <2>1, <2>2, <2>3 DEF AnswersAreAccountedFor
  <1> QED
    BY <1>1, <1>3, <1>4, <1>6 DEF EIInv

LEMMA NextEIInv == EIInv /\ TypeOK /\ [EdgeNext]_evars => EIInv'
  <1> SUFFICES ASSUME EIInv, TypeOK, [EdgeNext]_evars
               PROVE  EIInv'
    OBVIOUS
  <1>1. ASSUME NEW r \in Requests, Arrive(r) PROVE EIInv'
    BY <1>1, ArriveEIInv
  <1>2. ASSUME NEW r \in Requests, Handle(r) PROVE EIInv'
    <2>1. PICK a \in Outcomes : answer' = [answer EXCEPT ![r] = a]
      BY <1>2 DEF Handle
    <2> QED
      BY <1>2, <2>1, InsideEIInv DEF Handle
  <1>3. ASSUME NEW r \in Requests, Scrape(r) PROVE EIInv'
    <2>1. [status |-> 200, made |-> "route"] \in Outcomes
      BY DEF Outcomes
    <2> QED
      BY <1>3, <2>1, InsideEIInv DEF Scrape
  <1>4. ASSUME NEW r \in Requests, Leave(r) PROVE EIInv'
    BY <1>4, LeaveEIInv
  <1>5. CASE ((Cleanup \/ Tick) /\ UNCHANGED edge) \/ UNCHANGED evars
    <2>1. req' = req /\ UNCHANGED edge
      BY <1>5 DEF Cleanup, Tick, evars, vars
    <2>2. Answered' /\ Decided'
      BY <2>1 DEF EIInv, Answered, Decided, edge
    <2> QED
      BY <2>1, <2>2, AccountsKept DEF EIInv, edge
  <1> QED
    BY <1>1, <1>2, <1>3, <1>4, <1>5 DEF EdgeNext

(* The layers around it do nothing to the limiter (middleware.py:121-161): *)
(* within the stack it behaves as it does alone, so that whatever is       *)
(* proved of it holds of the requests that come through the stack.         *)
THEOREM StackKeepsLimiter == EdgeSpec => Spec
  <1>1. EdgeInit => Init
    BY DEF EdgeInit
  <1>2. [EdgeNext]_evars => [Next]_vars
    BY DEF EdgeNext, evars, Next, Arrive, Handle, Scrape, Leave
  <1> QED
    BY <1>1, <1>2, PTL DEF EdgeSpec, Spec

(* For any requests, paths and limits every answer that has left was       *)
(* counted and timed exactly once under its label, whichever layer made it,*)
(* and carries the headers of the layers it passed.                        *)
THEOREM AnswersAlwaysAccountedFor == EdgeSpec => []AnswersAreAccountedFor
  <1>1. EIInv => AnswersAreAccountedFor
    BY DEF EIInv
  <1> QED
    BY <1>1, InitEIInv, NextEIInv, StackKeepsLimiter, TypeCorrect, PTL DEF EdgeSpec
=============================================================================
