------------------------ MODULE WorkerSupervisorProofs ------------------------
(***************************************************************************)
(* Proofs about WorkerSupervisor, for any number of workers and runs, any  *)
(* lease time and margin, and whatever requests are lost or late: what a   *)
(* worker executes it holds, and no lease is activated twice.              *)
(***************************************************************************)
EXTENDS WorkerSupervisor, FiniteSetTheorems, TLAPS

Entry == [epoch : Epochs, left : 0..LeaseTime - Margin, abort : BOOLEAN]
HeartbeatType ==
    [st : {"sent", "replied", "offline"}, age : 0..LeaseTime - Margin,
     leases : SUBSET Leases, renewed : SUBSET Notice]
AllocationType ==
    [st : {"list", "claim", "list2", "renew", "replied", "offline"},
     age : 0..LeaseTime - Margin, excluded : SUBSET Leases, can : BOOLEAN,
     items : SUBSET Leases, accepting : BOOLEAN, renewed : SUBSET Notice]
ClaimType == [key : Keys, limit : 0..Capacity]
LateType ==
    [st : {"heartbeat"}, leases : SUBSET Leases] \cup [st : {"claim"}, claim : ClaimType]
RowType ==
    [state : {"ready", "running", "done"}, owner : Workers \cup {"nobody", "rival"},
     epoch : 0..MaxLeaseEpoch, ttl : 0..LeaseTime, abort : BOOLEAN]

RowsTyped ==
    /\ lease \in [Runs -> RowType]
    /\ \A r \in Runs : lease[r].state = "running" => lease[r].epoch > 0

ActiveTyped ==
    /\ DOMAIN active = Workers
    /\ \A w \in Workers :
          /\ DOMAIN active[w] \subseteq Runs
          /\ \A r \in DOMAIN active[w] : active[w][r] \in Entry

\* Types, and what a worker that has ended leaves behind.
Typed ==
    /\ RowsTyped
    /\ ActiveTyped
    /\ status \in [Workers -> {"accepting", "draining", "offline"}]
    /\ used \in [Workers -> SUBSET Keys]
    /\ mode \in [Workers -> {"up", "draining", "stopped", "gone", "failed", "dead"}]
    /\ drain \in [Workers -> {"none", "sent", "done"}]
    /\ tasks \in [Workers -> SUBSET Leases]
    /\ retired \in [Workers -> SUBSET Leases]
    /\ hb \in [Workers -> {None} \cup HeartbeatType]
    /\ al \in [Workers -> {None} \cup AllocationType]
    /\ pending \in [Workers -> {NoClaim} \cup ClaimType]
    /\ late \in [Workers -> {None} \cup LateType]
    /\ released \subseteq Leases
    /\ begun \in [Leases -> Nat]
    /\ \A w \in Workers : al[w] # None => pending[w] # NoClaim
    /\ \A w \in Workers \ Live : DOMAIN active[w] = {} /\ hb[w] = None /\ al[w] = None

\* The lease l is w's for at least n more ticks.
Held(w, l, n) ==
    /\ lease[l[1]].state = "running"
    /\ lease[l[1]].owner = w
    /\ lease[l[1]].epoch = l[2]
    /\ lease[l[1]].ttl >= n

\* What a renewal that was asked for `age` ago is still worth.
Worth(w, renewed, age) ==
    \A n \in renewed :
        \/ n.l \in released
        \/ age >= LeaseTime - Margin
        \/ Held(w, n.l, LeaseTime - age)

\* Every local deadline comes a margin before the lease's end on the server, also
\* the deadline that a reply under way will set.
DeadlinesAreEarly ==
    \A w \in Workers :
        /\ \A r \in DOMAIN active[w] :
              \/ <<r, active[w][r].epoch>> \in released
              \/ Held(w, <<r, active[w][r].epoch>>, active[w][r].left + Margin)
        /\ hb[w].st = "replied" => Worth(w, hb[w].renewed, hb[w].age)
        /\ al[w].st = "replied" => Worth(w, al[w].renewed, al[w].age)

Items(w) == IF al[w].st \in {"renew", "replied"} THEN al[w].items ELSE {}

\* A lease that was activated is active, retired, or out of its worker's reach: not
\* listed, and in no listing that the worker still has.
OutOfReach(w, l) ==
    l \in ActiveLeases(w) \/ l \in retired[w] \/ (l \notin Listing(w) /\ l \notin Items(w))

Once ==
    /\ \A l \in Leases : begun[l] <= 1
    /\ \A l \in Leases : begun[l] > 0 => l[2] <= lease[l[1]].epoch
    /\ \A l \in released : begun[l] > 0
    /\ \A w \in Workers : \A l \in tasks[w] : begun[l] > 0
    /\ \A w \in Live : \A l \in Leases : begun[l] > 0 => OutOfReach(w, l)

\* What a listing under way is: one lease per run, none of them a rival's, and every
\* activated lease the worker still has.
Listings ==
    \A w \in Workers :
        /\ \A l \in Items(w) :
              /\ l[2] <= lease[l[1]].epoch
              /\ l[2] = lease[l[1]].epoch => lease[l[1]].owner \in {w, "nobody"}
        /\ \A l, m \in Items(w) : l[1] = m[1] => l = m
        /\ al[w].st \in {"renew", "replied"} =>
              \A l \in Listing(w) : begun[l] > 0 => l \in al[w].items

Inv == Typed /\ DeadlinesAreEarly /\ Once /\ Listings

-----------------------------------------------------------------------------
(* Operators. *)

LEMMA MaxOfTwo ==
    ASSUME NEW a \in Int, NEW b \in Int
    PROVE  Max({a, b}) = IF a >= b THEN a ELSE b
<1> DEFINE m == IF a >= b THEN a ELSE b
<1>1. m \in {a, b} /\ \A y \in {a, b} : m >= y
  OBVIOUS
<1>2. \A x \in {a, b} : (\A y \in {a, b} : x >= y) => x = m
  OBVIOUS
<1> QED BY <1>1, <1>2 DEF Max

LEMMA MinOfTwo ==
    ASSUME NEW a \in Int, NEW b \in Int
    PROVE  Min({a, b}) = IF a <= b THEN a ELSE b
<1> DEFINE m == IF a <= b THEN a ELSE b
<1>1. m \in {a, b} /\ \A y \in {a, b} : m <= y
  OBVIOUS
<1>2. \A x \in {a, b} : (\A y \in {a, b} : x <= y) => x = m
  OBVIOUS
<1> QED BY <1>1, <1>2 DEF Min

\* The listing of a worker, element by element.
LEMMA InListing ==
    ASSUME Typed, NEW w \in Workers, NEW l
    PROVE  /\ l \in Listing(w) =>
                /\ l \in Leases /\ l = <<l[1], l[2]>> /\ l[1] \in Runs
                /\ lease[l[1]].epoch = l[2] /\ lease[l[1]].state = "running"
                /\ lease[l[1]].owner = w /\ lease[l[1]].ttl > 0
           /\ l \in Leases /\ lease[l[1]].epoch = l[2] /\ lease[l[1]].state = "running"
                /\ lease[l[1]].owner = w /\ lease[l[1]].ttl > 0 => l \in Listing(w)
<1>1. ASSUME l \in Listing(w)
      PROVE  /\ l \in Leases /\ l = <<l[1], l[2]>> /\ l[1] \in Runs
             /\ lease[l[1]].epoch = l[2] /\ lease[l[1]].state = "running"
             /\ lease[l[1]].owner = w /\ lease[l[1]].ttl > 0
  <2>1. PICK r \in Runs : /\ l = <<r, lease[r].epoch>> /\ lease[r].state = "running"
                          /\ lease[r].owner = w /\ lease[r].ttl > 0
    BY <1>1 DEF Listing
  <2>2. lease[r].epoch \in Epochs
    BY <2>1, CapacityAssumption DEF Typed, RowsTyped, RowType, Epochs
  <2> QED BY <2>1, <2>2 DEF Leases
<1>2. ASSUME l \in Leases, lease[l[1]].epoch = l[2], lease[l[1]].state = "running",
             lease[l[1]].owner = w, lease[l[1]].ttl > 0
      PROVE  l \in Listing(w)
  BY <1>2 DEF Listing, Leases
<1> QED BY <1>1, <1>2

LEMMA InActive ==
    ASSUME Typed, NEW w \in Workers, NEW r \in DOMAIN active[w]
    PROVE  <<r, active[w][r].epoch>> \in Leases
  BY DEF Typed, ActiveTyped, Entry, Leases

\* What is held for at least a tick is listed.
LEMMA HeldIsListed ==
    ASSUME Typed, NEW w \in Workers, NEW l \in Leases, NEW n \in Nat \ {0}, Held(w, l, n)
    PROVE  l \in Listing(w)
<1>1. l[1] \in Runs /\ lease[l[1]].ttl \in Nat
  BY LeaseAssumption DEF Leases, Typed, RowsTyped, RowType
<1> QED BY <1>1, InListing DEF Held

LEMMA InitInv == Init => Inv
<1> SUFFICES ASSUME Init PROVE Inv
  OBVIOUS
<1>1. Typed
  BY LeaseAssumption, CapacityAssumption
  DEF Init, Typed, RowsTyped, RowType, ActiveTyped, Live, None, NoClaim
<1>2. DeadlinesAreEarly
  BY DEF Init, DeadlinesAreEarly, None
<1>3. Once
  BY DEF Init, Once, Leases
<1>4. Listings
  BY DEF Init, Listings, Items, None
<1> QED BY <1>1, <1>2, <1>3, <1>4 DEF Inv

-----------------------------------------------------------------------------
(* What may happen to a row while nobody learns of it.                       *)

\* A lease of one of our workers that has not run out stays with its holder or is
\* given back by it.
KeepsLease(r) ==
    lease[r].state = "running" /\ lease[r].owner \in Workers /\ lease[r].ttl > 0 =>
        \/ <<r, lease[r].epoch>> \in released'
        \/ /\ lease'[r].state = "running" /\ lease'[r].owner = lease[r].owner
           /\ lease'[r].epoch = lease[r].epoch /\ lease'[r].ttl >= lease[r].ttl

\* A row never comes back to a lease: it is claimed under the next epoch.
MovesOn(r) ==
    \/ /\ lease'[r].state = lease[r].state /\ lease'[r].owner = lease[r].owner
       /\ lease'[r].epoch = lease[r].epoch
       /\ lease[r].ttl = 0 => lease'[r].ttl = 0
    \/ lease'[r].epoch = lease[r].epoch + 1
    \/ /\ lease'[r].epoch = lease[r].epoch /\ lease'[r].state # "running"
       /\ lease'[r].owner \in {lease[r].owner, "nobody"}

LEMMA HeldIsKept ==
    ASSUME Typed, RowsTyped', \A r \in Runs : KeepsLease(r),
           NEW w \in Workers, NEW l \in Leases, NEW n \in Nat \ {0}, Held(w, l, n)
    PROVE  l \in released' \/ Held(w, l, n)'
<1>1. /\ l[1] \in Runs /\ l = <<l[1], l[2]>>
      /\ lease[l[1]].ttl \in Nat /\ lease'[l[1]].ttl \in Nat
  BY LeaseAssumption DEF Leases, Typed, RowsTyped, RowType
<1> QED BY <1>1 DEF Held, KeepsLease

LEMMA WorthIsKept ==
    ASSUME Typed, RowsTyped', \A r \in Runs : KeepsLease(r), released \subseteq released',
           NEW w \in Workers, NEW renewed \in SUBSET Notice, NEW age \in 0..LeaseTime - Margin,
           Worth(w, renewed, age)
    PROVE  Worth(w, renewed, age)'
<1> SUFFICES ASSUME NEW n \in renewed, n.l \notin released', age < LeaseTime - Margin
             PROVE  Held(w, n.l, LeaseTime - age)'
  BY LeaseAssumption DEF Worth
<1>1. n.l \in Leases /\ LeaseTime - age \in Nat \ {0}
  BY LeaseAssumption DEF Notice
<1>2. Held(w, n.l, LeaseTime - age)
  BY LeaseAssumption DEF Worth
<1> QED BY <1>1, <1>2, HeldIsKept

\* A lease that is listed was listed before, or is new.
LEMMA ListingMoves ==
    ASSUME Typed, Typed', \A r \in Runs : MovesOn(r), NEW w \in Workers, NEW l \in Listing(w)'
    PROVE  l \in Leases /\ (l \in Listing(w) \/ l[2] > lease[l[1]].epoch)
<1>1. /\ l \in Leases /\ l = <<l[1], l[2]>> /\ l[1] \in Runs
      /\ lease'[l[1]].epoch = l[2] /\ lease'[l[1]].state = "running"
      /\ lease'[l[1]].owner = w /\ lease'[l[1]].ttl > 0
  <2>1. PICK r \in Runs : /\ l = <<r, lease'[r].epoch>> /\ lease'[r].state = "running"
                          /\ lease'[r].owner = w /\ lease'[r].ttl > 0
    BY DEF Listing
  <2>2. lease'[r].epoch \in Epochs
    BY <2>1, CapacityAssumption DEF Typed, RowsTyped, RowType, Epochs
  <2> QED BY <2>1, <2>2 DEF Leases
<1>2. lease[l[1]].ttl \in Nat /\ lease[l[1]].epoch \in Nat
  BY <1>1, LeaseAssumption, CapacityAssumption DEF Typed, RowsTyped, RowType
<1>3. CASE lease'[l[1]].epoch = lease[l[1]].epoch + 1
  BY <1>1, <1>2, <1>3
<1>4. CASE lease'[l[1]].epoch # lease[l[1]].epoch + 1
  <2>1. MovesOn(l[1])
    BY <1>1
  <2>2. /\ lease[l[1]].state = "running" /\ lease[l[1]].owner = w
        /\ lease[l[1]].epoch = l[2] /\ lease[l[1]].ttl > 0
    BY <1>1, <1>2, <1>4, <2>1 DEF MovesOn
  <2> QED BY <1>1, <2>2, InListing
<1> QED BY <1>3, <1>4

-----------------------------------------------------------------------------
(* A step that starts, ends and retires nothing: the rows move on, requests  *)
(* are sent, served and given up.                                            *)

LEMMA QuietStep ==
    ASSUME Inv, Typed', \A r \in Runs : KeepsLease(r) /\ MovesOn(r),
           UNCHANGED <<active, tasks, retired, begun>>, Live' = Live, released \subseteq released',
           \A l \in released' : begun[l] > 0,
           \A w \in Workers :
              hb'[w] = hb[w] \/ hb'[w].st # "replied" \/ Worth(w, hb[w].renewed, hb[w].age)',
           \A w \in Workers :
              al'[w] = al[w] \/ al'[w].st # "replied" \/ Worth(w, al[w].renewed, al[w].age)',
           \A w \in Workers :
              \/ al'[w].st \notin {"renew", "replied"}
              \/ /\ al[w].st \in {"renew", "replied"} /\ al'[w].st \in {"renew", "replied"}
                 /\ al'[w].items = al[w].items
              \/ lease' = lease /\ al'[w].items = Listing(w)
    PROVE  Inv'
<1> USE DEF Inv
<1>0. RowsTyped'
  BY DEF Typed
<1>1. DeadlinesAreEarly'
  <2> SUFFICES ASSUME NEW w \in Workers
               PROVE  /\ \A r \in DOMAIN active[w] :
                            \/ <<r, active[w][r].epoch>> \in released'
                            \/ Held(w, <<r, active[w][r].epoch>>, active[w][r].left + Margin)'
                      /\ hb'[w].st = "replied" => Worth(w, hb[w].renewed, hb[w].age)'
                      /\ al'[w].st = "replied" => Worth(w, al[w].renewed, al[w].age)'
    BY DEF DeadlinesAreEarly, Held
  <2>1. ASSUME NEW r \in DOMAIN active[w]
        PROVE  \/ <<r, active[w][r].epoch>> \in released'
               \/ Held(w, <<r, active[w][r].epoch>>, active[w][r].left + Margin)'
    <3>1. active[w][r].left + Margin \in Nat \ {0}
      BY LeaseAssumption DEF Typed, ActiveTyped, Entry
    <3>2. <<r, active[w][r].epoch>> \in Leases
      BY InActive
    <3>3. CASE <<r, active[w][r].epoch>> \in released
      BY <3>3
    <3>4. CASE Held(w, <<r, active[w][r].epoch>>, active[w][r].left + Margin)
      BY <1>0, <3>1, <3>2, <3>4, HeldIsKept DEF Held
    <3> QED BY <3>3, <3>4 DEF DeadlinesAreEarly
  <2>2. ASSUME hb'[w] = hb[w], hb[w].st = "replied" PROVE Worth(w, hb[w].renewed, hb[w].age)'
    <3>1. hb[w].renewed \in SUBSET Notice /\ hb[w].age \in 0..LeaseTime - Margin
      BY <2>2 DEF Typed, HeartbeatType, None
    <3>2. Worth(w, hb[w].renewed, hb[w].age)
      BY <2>2 DEF DeadlinesAreEarly
    <3> DEFINE renewed == hb[w].renewed
               age     == hb[w].age
    <3>3. /\ renewed \in SUBSET Notice /\ age \in 0..LeaseTime - Margin /\ Worth(w, renewed, age)
          /\ hb'[w].renewed = renewed /\ hb'[w].age = age
      BY <2>2, <3>1, <3>2
    <3> HIDE DEF renewed, age
    <3>4. \A n \in renewed : \/ n.l \in released'
                             \/ age >= LeaseTime - Margin
                             \/ /\ lease'[n.l[1]].state = "running"
                                /\ lease'[n.l[1]].owner = w
                                /\ lease'[n.l[1]].epoch = n.l[2]
                                /\ lease'[n.l[1]].ttl >= LeaseTime - age
      BY <1>0, <3>3, WorthIsKept DEF Worth, Held
    <3> QED BY <3>3, <3>4 DEF Worth, Held
  <2>3. ASSUME al'[w] = al[w], al[w].st = "replied" PROVE Worth(w, al[w].renewed, al[w].age)'
    <3>1. al[w].renewed \in SUBSET Notice /\ al[w].age \in 0..LeaseTime - Margin
      BY <2>3 DEF Typed, AllocationType, None
    <3>2. Worth(w, al[w].renewed, al[w].age)
      BY <2>3 DEF DeadlinesAreEarly
    <3> DEFINE renewed == al[w].renewed
               age     == al[w].age
    <3>3. /\ renewed \in SUBSET Notice /\ age \in 0..LeaseTime - Margin /\ Worth(w, renewed, age)
          /\ al'[w].renewed = renewed /\ al'[w].age = age
      BY <2>3, <3>1, <3>2
    <3> HIDE DEF renewed, age
    <3>4. \A n \in renewed : \/ n.l \in released'
                             \/ age >= LeaseTime - Margin
                             \/ /\ lease'[n.l[1]].state = "running"
                                /\ lease'[n.l[1]].owner = w
                                /\ lease'[n.l[1]].epoch = n.l[2]
                                /\ lease'[n.l[1]].ttl >= LeaseTime - age
      BY <1>0, <3>3, WorthIsKept DEF Worth, Held
    <3> QED BY <3>3, <3>4 DEF Worth, Held
  <2> QED BY <2>1, <2>2, <2>3
<1>2. ASSUME NEW w \in Workers, NEW l \in Items(w)'
      PROVE  l \in Leases /\ (l \in Items(w) \/ (lease' = lease /\ l \in Listing(w)))
  <2>1. al'[w].st \in {"renew", "replied"} /\ l \in al'[w].items
    BY <1>2 DEF Items
  <2>2. l \in Leases
    BY <2>1 DEF Typed, AllocationType, None
  <2> QED BY <2>1, <2>2 DEF Items
<1>3. \A r \in Runs : lease[r].epoch \in Nat /\ lease'[r].epoch \in Nat /\ lease[r].epoch <= lease'[r].epoch
  BY <1>0, CapacityAssumption DEF Typed, RowsTyped, RowType, MovesOn
<1>4. Once'
  <2>1. \A l \in Leases : begun[l] > 0 => l[2] <= lease'[l[1]].epoch
    BY <1>3, CapacityAssumption DEF Once, Leases, Epochs
  <2>2. ASSUME NEW w \in Live, NEW l \in Leases, begun[l] > 0 PROVE OutOfReach(w, l)'
    <3>1. w \in Workers /\ OutOfReach(w, l) /\ l[1] \in Runs /\ l[2] \in Nat
      BY <2>2 DEF Once, Live, Leases, Epochs
    <3>2. ASSUME l \notin Listing(w), l \notin Items(w)
          PROVE  l \notin Listing(w)' /\ l \notin Items(w)'
      <4>1. l \notin Listing(w)'
        BY <1>3, <2>2, <3>1, <3>2, ListingMoves DEF Once
      <4> QED BY <1>2, <3>1, <3>2, <4>1
    <3>3. ActiveLeases(w)' = ActiveLeases(w) /\ retired' = retired
      BY DEF ActiveLeases
    <3> QED BY <3>1, <3>2, <3>3 DEF OutOfReach
  <2> QED BY <2>1, <2>2 DEF Once
<1>5. Listings'
  <2> SUFFICES ASSUME NEW w \in Workers
               PROVE  /\ \A l \in Items(w)' :
                            /\ l[2] <= lease'[l[1]].epoch
                            /\ l[2] = lease'[l[1]].epoch => lease'[l[1]].owner \in {w, "nobody"}
                      /\ \A l, m \in Items(w)' : l[1] = m[1] => l = m
                      /\ al'[w].st \in {"renew", "replied"} =>
                            \A l \in Listing(w)' : begun[l] > 0 => l \in al'[w].items
    BY DEF Listings
  <2>1. ASSUME NEW l \in Items(w)'
        PROVE  /\ l[2] <= lease'[l[1]].epoch
               /\ l[2] = lease'[l[1]].epoch => lease'[l[1]].owner \in {w, "nobody"}
    <3>1. l \in Leases /\ l[1] \in Runs /\ l[2] \in Nat
      BY <1>2 DEF Leases, Epochs
    <3>2. CASE lease' = lease /\ l \in Listing(w)
      BY <1>3, <3>1, <3>2, InListing
    <3>3. CASE l \in Items(w)
      <4>1. /\ l[2] <= lease[l[1]].epoch
            /\ l[2] = lease[l[1]].epoch => lease[l[1]].owner \in {w, "nobody"}
        BY <3>3 DEF Listings
      <4> QED BY <1>3, <3>1, <4>1 DEF MovesOn
    <3> QED BY <1>2, <3>2, <3>3
  <2>2. ASSUME NEW l \in Items(w)', NEW m \in Items(w)', l[1] = m[1] PROVE l = m
    <3>1. CASE Items(w)' = Items(w)
      BY <2>2, <3>1 DEF Listings
    <3>2. CASE Items(w)' = Listing(w)
      BY <2>2, <3>2, InListing
    <3>3. Items(w)' = {} \/ Items(w)' = Items(w) \/ Items(w)' = Listing(w)
      BY DEF Items
    <3> QED BY <2>2, <3>1, <3>2, <3>3
  <2>3. ASSUME al'[w].st \in {"renew", "replied"}, NEW l \in Listing(w)', begun[l] > 0
        PROVE  l \in al'[w].items
    <3>1. l \in Leases /\ l[1] \in Runs /\ l[2] \in Nat /\ (l \in Listing(w) \/ l[2] > lease[l[1]].epoch)
      BY ListingMoves DEF Leases, Epochs
    <3>2. l \in Listing(w)
      BY <1>3, <2>3, <3>1 DEF Once
    <3> QED BY <2>3, <3>2 DEF Listings
  <2> QED BY <2>1, <2>2, <2>3
<1> QED BY <1>1, <1>4, <1>5

\* Unchanged rows.
LEMMA SameRows ==
    ASSUME Typed, UNCHANGED <<lease, released>>
    PROVE  RowsTyped' /\ \A r \in Runs : KeepsLease(r) /\ MovesOn(r)
  BY LeaseAssumption DEF Typed, RowsTyped, RowType, KeepsLease, MovesOn

\* A heartbeat renews what its worker holds, and says so.
LEMMA RenewRows ==
    ASSUME Typed, NEW w \in Workers, NEW leases, Renew(w, leases)
    PROVE  /\ RowsTyped' /\ \A r \in Runs : KeepsLease(r) /\ MovesOn(r)
           /\ Renewed(w, leases) \in SUBSET Notice
           /\ \A n \in Renewed(w, leases) :
                 /\ lease'[n.l[1]].state = "running" /\ lease'[n.l[1]].owner = w
                 /\ lease'[n.l[1]].epoch = n.l[2] /\ lease'[n.l[1]].ttl = LeaseTime
<1>1. \A r \in Runs : /\ lease[r] \in RowType /\ lease[r].ttl \in 0..LeaseTime
                      /\ lease[r].state = "running" => lease[r].epoch > 0
  BY DEF Typed, RowsTyped, RowType
<1>2. ASSUME NEW r \in Runs
      PROVE  /\ lease'[r] = IF <<r, lease[r].epoch>> \in leases \cap Listing(w)
                            THEN [lease[r] EXCEPT !.ttl = LeaseTime] ELSE lease[r]
             /\ lease'[r] \in RowType
             /\ lease'[r].state = lease[r].state /\ lease'[r].owner = lease[r].owner
             /\ lease'[r].epoch = lease[r].epoch
             /\ lease'[r].ttl = IF <<r, lease[r].epoch>> \in leases \cap Listing(w)
                                THEN LeaseTime ELSE lease[r].ttl
  BY <1>1, LeaseAssumption DEF Renew, RowType
<1>3. lease' \in [Runs -> RowType]
  BY <1>2 DEF Renew
<1>4. ASSUME NEW r \in Runs PROVE KeepsLease(r) /\ MovesOn(r)
  <2>0. /\ lease[r].ttl \in Nat /\ lease[r].ttl <= LeaseTime
        /\ lease'[r].state = lease[r].state /\ lease'[r].owner = lease[r].owner
        /\ lease'[r].epoch = lease[r].epoch
    <3>1. lease[r].ttl \in 0..LeaseTime
      BY <1>1
    <3>2. lease[r].ttl \in Nat /\ lease[r].ttl <= LeaseTime
      BY <3>1, LeaseAssumption
    <3>3. /\ lease'[r].state = lease[r].state /\ lease'[r].owner = lease[r].owner
          /\ lease'[r].epoch = lease[r].epoch
      BY <1>2
    <3> QED BY <3>2, <3>3
  <2>1. CASE <<r, lease[r].epoch>> \in leases \cap Listing(w)
    <3> DEFINE l == <<r, lease[r].epoch>>
    <3>1. l[1] = r /\ l \in Listing(w)
      BY <2>1
    <3>2. lease[l[1]].ttl > 0
      BY <3>1, InListing
    <3>3. lease[r].ttl > 0 /\ lease'[r].ttl = LeaseTime
      BY <1>2, <2>1, <3>1, <3>2
    <3> QED BY <2>0, <3>3, LeaseAssumption DEF KeepsLease, MovesOn
  <2>2. CASE <<r, lease[r].epoch>> \notin leases \cap Listing(w)
    <3>1. lease'[r].ttl = lease[r].ttl
      BY <1>2, <2>2
    <3> QED BY <2>0, <3>1 DEF KeepsLease, MovesOn
  <2> QED BY <2>1, <2>2
<1>5. ASSUME NEW n \in Renewed(w, leases)
      PROVE  /\ n \in Notice
             /\ lease'[n.l[1]].state = "running" /\ lease'[n.l[1]].owner = w
             /\ lease'[n.l[1]].epoch = n.l[2] /\ lease'[n.l[1]].ttl = LeaseTime
  <2>1. PICK l \in leases \cap Listing(w) : n = [l |-> l, abort |-> lease[l[1]].abort]
    BY DEF Renewed
  <2>2. /\ l \in Leases /\ l = <<l[1], l[2]>> /\ l[1] \in Runs /\ lease[l[1]].epoch = l[2]
        /\ lease[l[1]].state = "running" /\ lease[l[1]].owner = w
    BY InListing
  <2>3. lease[l[1]] \in RowType /\ lease'[l[1]] = [lease[l[1]] EXCEPT !.ttl = LeaseTime]
    BY <1>1, <1>2, <2>1, <2>2
  <2> QED BY <2>1, <2>2, <2>3 DEF RowType, Notice
<1> QED BY <1>2, <1>3, <1>4, <1>5, <1>1 DEF RowsTyped

\* A claim takes what is ready or has run out.
LEMMA ClaimRows ==
    ASSUME Typed, NEW w \in Workers, NEW claim \in ClaimType, ClaimRuns(w, claim), released' = released
    PROVE  /\ RowsTyped' /\ \A r \in Runs : KeepsLease(r) /\ MovesOn(r)
           /\ used' \in [Workers -> SUBSET Keys]
<1>1. CASE claim.key \in used[w]
  <2>1. UNCHANGED <<lease, used>>
    BY <1>1 DEF ClaimRuns
  <2> QED BY <2>1, SameRows DEF Typed
<1>2. CASE claim.key \notin used[w]
  <2>1. PICK S \in kSubset(Take(w, claim.limit), Claimable) :
               lease' = [r \in Runs |->
                   IF r \in S
                   THEN [lease[r] EXCEPT !.state = "running", !.owner = w,
                                         !.epoch = @ + 1, !.ttl = LeaseTime]
                   ELSE lease[r]]
    BY <1>2 DEF ClaimRuns
  <2>2. S \subseteq Claimable
    BY DEF kSubset
  <2>3. ASSUME NEW r \in Runs
        PROVE  /\ lease'[r] \in RowType /\ (lease'[r].state = "running" => lease'[r].epoch > 0)
               /\ KeepsLease(r) /\ MovesOn(r)
    <3>1. lease[r] \in RowType /\ (lease[r].state = "running" => lease[r].epoch > 0)
      BY DEF Typed, RowsTyped
    <3>2. CASE r \in S
      <4>1. /\ lease[r].epoch < MaxLeaseEpoch
            /\ lease[r].state = "ready" \/ lease[r].ttl = 0
        BY <2>2, <3>2 DEF Claimable
      <4>2. lease'[r] = [lease[r] EXCEPT !.state = "running", !.owner = w,
                                         !.epoch = @ + 1, !.ttl = LeaseTime]
        BY <2>1, <3>2
      <4>3. lease[r].epoch \in 0..MaxLeaseEpoch /\ lease[r].ttl \in 0..LeaseTime
        BY <3>1 DEF RowType
      <4>4. /\ lease'[r] \in RowType /\ lease'[r].epoch = lease[r].epoch + 1
        <5>1. lease[r].epoch + 1 \in 0..MaxLeaseEpoch /\ LeaseTime \in 0..LeaseTime
          BY <4>1, <4>3, LeaseAssumption, CapacityAssumption
        <5> QED BY <3>1, <4>2, <5>1 DEF RowType
      <4>5. lease'[r].epoch > 0
        BY <4>3, <4>4, CapacityAssumption
      <4>6. KeepsLease(r)
        BY <4>1, <4>3 DEF KeepsLease
      <4>7. MovesOn(r)
        BY <4>4 DEF MovesOn
      <4> QED BY <4>4, <4>5, <4>6, <4>7
    <3>3. CASE r \notin S
      <4>1. lease'[r] = lease[r]
        BY <2>1, <3>3
      <4> QED BY <3>1, <4>1, LeaseAssumption DEF RowType, KeepsLease, MovesOn
    <3> QED BY <3>2, <3>3
  <2>4. lease' \in [Runs -> RowType]
    BY <2>1, <2>3
  <2>5. used' \in [Workers -> SUBSET Keys]
    <3>1. used' = [used EXCEPT ![w] = @ \cup {claim.key}]
      BY <1>2 DEF ClaimRuns
    <3>2. claim.key \in Keys /\ used \in [Workers -> SUBSET Keys]
      BY DEF ClaimType, Typed
    <3> QED BY <3>1, <3>2
  <2> QED BY <2>3, <2>4, <2>5 DEF RowsTyped
<1> QED BY <1>1, <1>2

\* A row that is given back, or aborted before anybody claimed it.
LEMMA OneRow ==
    ASSUME Typed, NEW r \in Runs, NEW row \in RowType, lease' = [lease EXCEPT ![r] = row],
           row.state = "running" => row.epoch > 0, released \subseteq released',
           KeepsLease(r), MovesOn(r)
    PROVE  RowsTyped' /\ \A q \in Runs : KeepsLease(q) /\ MovesOn(q)
<1>1. \A q \in Runs \ {r} : lease'[q] = lease[q] /\ lease[q].ttl \in Nat
  BY LeaseAssumption DEF Typed, RowsTyped, RowType
<1> QED BY <1>1 DEF Typed, RowsTyped, KeepsLease, MovesOn

-----------------------------------------------------------------------------
(* The quiet actions. *)

LEMMA ServeLateHeartbeatInv ==
    ASSUME Inv, NEW w \in Workers, ServeLateHeartbeat(w) PROVE Inv'
<1>1. RowsTyped' /\ \A r \in Runs : KeepsLease(r) /\ MovesOn(r)
  BY RenewRows, SameRows DEF Inv, ServeLateHeartbeat
<1>2. Typed'
  BY <1>1 DEF Inv, Typed, ActiveTyped, ServeLateHeartbeat, Live
<1>3. Live' = Live
  BY DEF ServeLateHeartbeat, Live
<1> QED BY <1>1, <1>2, <1>3, QuietStep DEF Inv, Once, ServeLateHeartbeat

LEMMA ServeLateClaimInv ==
    ASSUME Inv, NEW w \in Workers, ServeLateClaim(w) PROVE Inv'
<1>0. late[w].claim \in ClaimType
  BY DEF Inv, Typed, LateType, None, ServeLateClaim
<1>1. /\ RowsTyped' /\ \A r \in Runs : KeepsLease(r) /\ MovesOn(r)
      /\ used' \in [Workers -> SUBSET Keys]
  <2>1. CASE RefusedClaim(w, late[w].claim)
    BY <2>1, SameRows DEF Inv, Typed, ServeLateClaim
  <2>2. CASE ~RefusedClaim(w, late[w].claim)
    BY <1>0, <2>2, ClaimRows DEF Inv, ServeLateClaim
  <2> QED BY <2>1, <2>2
<1>2. Typed'
  BY <1>1 DEF Inv, Typed, ActiveTyped, ServeLateClaim, Live
<1>3. Live' = Live
  BY DEF ServeLateClaim, Live
<1> QED BY <1>1, <1>2, <1>3, QuietStep DEF Inv, Once, ServeLateClaim

LEMMA HeartbeatSendInv ==
    ASSUME Inv, NEW w \in Workers, HeartbeatSend(w) PROVE Inv'
<1>1. RowsTyped' /\ \A r \in Runs : KeepsLease(r) /\ MovesOn(r)
  BY SameRows DEF Inv, HeartbeatSend, server
<1>2. ActiveLeases(w) \subseteq Leases
  BY InActive DEF Inv, ActiveLeases
<1>3. hb' \in [Workers -> {None} \cup HeartbeatType] /\ hb'[w].st = "sent"
      /\ \A v \in Workers \ {w} : hb'[v] = hb[v]
  BY <1>2, LeaseAssumption DEF Inv, Typed, HeartbeatSend, HeartbeatType
<1>4. Typed'
  BY <1>1, <1>3 DEF Inv, Typed, ActiveTyped, HeartbeatSend, Live, server
<1>5. Live' = Live
  BY DEF HeartbeatSend, Live
<1> QED BY <1>1, <1>3, <1>4, <1>5, QuietStep DEF Inv, Once, HeartbeatSend, server

LEMMA HeartbeatServeInv ==
    ASSUME Inv, NEW w \in Workers, HeartbeatServe(w) PROVE Inv'
<1>0. hb[w] \in HeartbeatType /\ hb[w].st = "sent"
  BY DEF Inv, Typed, HeartbeatServe, None
<1>1. RowsTyped' /\ \A r \in Runs : KeepsLease(r) /\ MovesOn(r)
  BY RenewRows, SameRows DEF Inv, HeartbeatServe
<1>2. /\ hb' \in [Workers -> {None} \cup HeartbeatType]
      /\ \A v \in Workers \ {w} : hb'[v] = hb[v]
      /\ hb[w] # None
      /\ hb'[w] = hb[w] \/ hb'[w].st # "replied" \/ Worth(w, hb[w].renewed, hb[w].age)'
  <2>1. CASE hb' = [hb EXCEPT ![w].st = "offline"]
    BY <1>0, <2>1 DEF Inv, Typed, HeartbeatType, None
  <2>2. CASE /\ Renew(w, hb[w].leases)
             /\ hb' = [hb EXCEPT ![w].st = "replied", ![w].renewed = Renewed(w, hb[w].leases)]
    <3> DEFINE new  == Renewed(w, hb[w].leases)
    <3>1. /\ new \in SUBSET Notice
          /\ \A n \in new : /\ lease'[n.l[1]].state = "running" /\ lease'[n.l[1]].owner = w
                            /\ lease'[n.l[1]].epoch = n.l[2] /\ lease'[n.l[1]].ttl = LeaseTime
      BY <2>2, RenewRows DEF Inv
    <3> HIDE DEF new
    <3>2. hb' = [hb EXCEPT ![w] = [hb[w] EXCEPT !.st = "replied", !.renewed = new]]
      BY <2>2 DEF new
    <3>3. [hb[w] EXCEPT !.st = "replied", !.renewed = new] \in HeartbeatType
      BY <1>0, <3>1 DEF HeartbeatType
    <3>4. /\ hb'[w].renewed = new /\ hb'[w].age \in Nat
          /\ \A v \in Workers \ {w} : hb'[v] = hb[v]
          /\ hb' \in [Workers -> {None} \cup HeartbeatType]
      BY <1>0, <3>2, <3>3, LeaseAssumption DEF Inv, Typed, HeartbeatType
    <3>5. Worth(w, hb[w].renewed, hb[w].age)'
      BY <3>1, <3>4, LeaseAssumption DEF Worth, Held
    <3> QED BY <1>0, <3>4, <3>5 DEF None
  <2>3. CASE UNCHANGED hb
    BY <1>0, <2>3 DEF Inv, Typed, HeartbeatType, None
  <2> QED BY <2>1, <2>2, <2>3 DEF HeartbeatServe
<1>3. Typed'
  BY <1>1, <1>2 DEF Inv, Typed, ActiveTyped, HeartbeatServe, Live
<1>4. Live' = Live
  BY DEF HeartbeatServe, Live
<1> QED BY <1>1, <1>2, <1>3, <1>4, QuietStep DEF Inv, Once, HeartbeatServe

\* A step of an allocation before its reply.
LEMMA AllocationStep ==
    ASSUME Inv, NEW w \in Workers, NEW a \in AllocationType, al[w] # None, al' = [al EXCEPT ![w] = a],
           RowsTyped', used' \in [Workers -> SUBSET Keys], \A r \in Runs : KeepsLease(r) /\ MovesOn(r),
           UNCHANGED <<status, mode, drain, active, tasks, retired, hb, pending, late, released, begun>>,
           a.st # "replied" \/ a = al[w] \/ \A n \in a.renewed : Held(w, n.l, LeaseTime)',
           \/ a.st \notin {"renew", "replied"}
           \/ /\ al[w].st \in {"renew", "replied"} /\ a.st \in {"renew", "replied"}
              /\ a.items = al[w].items
           \/ lease' = lease /\ a.items = Listing(w)
    PROVE  Inv'
<1>1. /\ al' \in [Workers -> {None} \cup AllocationType] /\ al'[w] = a
      /\ \A v \in Workers \ {w} : al'[v] = al[v]
  BY DEF Inv, Typed
<1>2. Typed'
  <2>1. ASSUME NEW v \in Workers PROVE al'[v] # None => pending[v] # NoClaim
    BY <1>1 DEF Inv, Typed
  <2>2. ASSUME NEW v \in Workers \ Live
        PROVE  DOMAIN active[v] = {} /\ hb[v] = None /\ al'[v] = None
    BY <1>1 DEF Inv, Typed
  <2>3. Live' = Live
    BY DEF Live
  <2> QED BY <1>1, <2>1, <2>2, <2>3 DEF Inv, Typed, ActiveTyped
<1>3. Live' = Live
  BY DEF Live
<1>4. a.age \in Nat
  BY LeaseAssumption DEF AllocationType
<1>5. al'[w] = al[w] \/ al'[w].st # "replied" \/ Worth(w, al[w].renewed, al[w].age)'
  <2>1. CASE \A n \in a.renewed : Held(w, n.l, LeaseTime)'
    <3>1. \A n \in a.renewed : /\ n.l[1] \in Runs
                               /\ lease'[n.l[1]].state = "running" /\ lease'[n.l[1]].owner = w
                               /\ lease'[n.l[1]].epoch = n.l[2] /\ lease'[n.l[1]].ttl >= LeaseTime
      BY <2>1 DEF Held, AllocationType, Notice, Leases
    <3>2. \A r \in Runs : lease'[r].ttl \in Nat
      BY LeaseAssumption DEF RowsTyped, RowType
    <3> QED BY <1>1, <1>4, <3>1, <3>2, LeaseAssumption DEF Worth, Held
  <2> QED BY <1>1, <2>1
<1> QED BY <1>1, <1>2, <1>3, <1>5, QuietStep DEF Inv, Once

LEMMA FreshKeyType == ASSUME NEW w \in Workers PROVE FreshKey(w) \in Keys
<1> DEFINE Free(k) == ~(late[w].st = "claim" /\ late[w].claim.key = k)
<1>1. \E k \in Keys : Free(k)
  <2>1. CASE late[w].claim.key = 1
    BY <2>1 DEF Keys
  <2>2. CASE late[w].claim.key # 1
    BY <2>2 DEF Keys
  <2> QED BY <2>1, <2>2
<1> QED BY <1>1 DEF FreshKey

\* The limit of a claim.
LEMMA LimitType ==
    ASSUME Typed, NEW w \in Workers PROVE Max({Room(w), 1}) \in 0..Capacity
<1>1. IsFiniteSet(DOMAIN active[w])
  BY OwnersAssumption, FS_Subset DEF Typed, ActiveTyped
<1>2. Cardinality(DOMAIN active[w]) \in Nat
  BY <1>1, FS_CardinalityType
<1>3. Room(w) \in Int /\ Room(w) <= Capacity
  BY <1>2, CapacityAssumption DEF Room
<1> QED BY <1>3, MaxOfTwo, CapacityAssumption

LEMMA AllocationStartInv ==
    ASSUME Inv, NEW w \in Workers, AllocationStart(w) PROVE Inv'
<1> DEFINE a == [st |-> "list", age |-> 0, excluded |-> retired[w],
                 can |-> Room(w) > 0, items |-> {}, accepting |-> TRUE, renewed |-> {}]
<1>1. a \in AllocationType
  <2> DEFINE c == Room(w) > 0
  <2>1. c \in BOOLEAN /\ retired[w] \subseteq Leases /\ 0 \in 0..LeaseTime - Margin
    BY LeaseAssumption DEF Inv, Typed
  <2> HIDE DEF c
  <2> QED BY <2>1 DEF AllocationType, c
<1>2. al' = [al EXCEPT ![w] = a] /\ a.st = "list"
  BY DEF AllocationStart
<1> HIDE DEF a
<1>3. /\ al' \in [Workers -> {None} \cup AllocationType] /\ al'[w] = a
      /\ \A v \in Workers \ {w} : al'[v] = al[v]
  BY <1>1, <1>2 DEF Inv, Typed
<1>4. /\ pending' \in [Workers -> {NoClaim} \cup ClaimType] /\ pending'[w] # NoClaim
      /\ \A v \in Workers \ {w} : pending'[v] = pending[v]
      /\ used' \in [Workers -> SUBSET Keys]
  <2>1. CASE pending[w] # NoClaim
    BY <2>1 DEF Inv, Typed, AllocationStart
  <2>2. CASE pending[w] = NoClaim
    <3> DEFINE claim == [key |-> FreshKey(w), limit |-> Max({Room(w), 1})]
    <3>1. claim \in ClaimType /\ claim # NoClaim
      BY FreshKeyType, LimitType DEF Inv, ClaimType, NoClaim, Keys
    <3>2. /\ pending' = [pending EXCEPT ![w] = claim]
          /\ used' = [used EXCEPT ![w] = @ \ {FreshKey(w)}]
      BY <2>2 DEF AllocationStart
    <3> HIDE DEF claim
    <3> QED BY <3>1, <3>2 DEF Inv, Typed
  <2> QED BY <2>1, <2>2
<1>5. RowsTyped' /\ \A r \in Runs : KeepsLease(r) /\ MovesOn(r)
  BY SameRows DEF Inv, AllocationStart
<1>6. Live' = Live /\ w \in Live
  BY DEF AllocationStart, Live
<1>7. Typed'
  <2>1. ASSUME NEW v \in Workers PROVE al'[v] # None => pending'[v] # NoClaim
    BY <1>3, <1>4 DEF Inv, Typed
  <2>2. ASSUME NEW v \in Workers \ Live
        PROVE  DOMAIN active[v] = {} /\ hb[v] = None /\ al'[v] = None
    BY <1>3, <1>6 DEF Inv, Typed
  <2> QED BY <1>3, <1>4, <1>5, <1>6, <2>1, <2>2 DEF Inv, Typed, ActiveTyped, AllocationStart
<1> QED BY <1>2, <1>3, <1>5, <1>6, <1>7, QuietStep DEF Inv, Once, AllocationStart

\* A listing is of leases.
LEMMA ListedType ==
    ASSUME Typed, NEW w \in Workers, al[w] \in AllocationType, NEW st \in {"renew"}
    PROVE  /\ Listed(w, st) \in AllocationType
           /\ Listed(w, st).st = st /\ Listed(w, st).items = Listing(w)
<1> DEFINE c == status[w] = "accepting"
<1>1. Listing(w) \subseteq Leases /\ c \in BOOLEAN
  BY InListing
<1> HIDE DEF c
<1> QED BY <1>1 DEF Listed, AllocationType, c

LEMMA AllocationListInv ==
    ASSUME Inv, NEW w \in Workers, AllocationList(w) PROVE Inv'
<1>0. al[w] \in AllocationType /\ al[w].st = "list" /\ al[w] # None
  BY DEF Inv, Typed, AllocationList, None
<1>1. RowsTyped' /\ (\A r \in Runs : KeepsLease(r) /\ MovesOn(r)) /\ used' \in [Workers -> SUBSET Keys]
  BY SameRows DEF Inv, Typed, AllocationList, server
<1>2. CASE al' = [al EXCEPT ![w] = Listed(w, "renew")]
  <2>1. /\ Listed(w, "renew") \in AllocationType /\ Listed(w, "renew").st = "renew"
        /\ Listed(w, "renew").items = Listing(w)
    BY <1>0, ListedType DEF Inv
  <2> QED BY <1>0, <1>1, <1>2, <2>1, AllocationStep DEF AllocationList, server
<1>3. ASSUME NEW st \in {"offline", "claim"}, al' = [al EXCEPT ![w] = [al[w] EXCEPT !.st = st]] PROVE Inv'
  <2>1. [al[w] EXCEPT !.st = st] \in AllocationType /\ [al[w] EXCEPT !.st = st].st = st
    BY <1>0 DEF AllocationType
  <2> QED BY <1>0, <1>1, <1>3, <2>1, AllocationStep DEF AllocationList, server
<1> QED BY <1>2, <1>3 DEF AllocationList

LEMMA AllocationClaimInv ==
    ASSUME Inv, NEW w \in Workers, AllocationClaim(w) PROVE Inv'
<1>0. al[w] \in AllocationType /\ al[w].st = "claim" /\ al[w] # None
  BY DEF Inv, Typed, AllocationClaim, None
<1>1. pending[w] \in ClaimType
  BY <1>0 DEF Inv, Typed
<1>2. RowsTyped' /\ (\A r \in Runs : KeepsLease(r) /\ MovesOn(r)) /\ used' \in [Workers -> SUBSET Keys]
  BY <1>1, ClaimRows DEF Inv, AllocationClaim
<1>3. CASE al' = [al EXCEPT ![w].st = "list2"]
  <2>1. [al[w] EXCEPT !.st = "list2"] \in AllocationType /\ [al[w] EXCEPT !.st = "list2"].st = "list2"
    BY <1>0 DEF AllocationType
  <2>2. al' = [al EXCEPT ![w] = [al[w] EXCEPT !.st = "list2"]]
    BY <1>3
  <2> QED BY <1>0, <1>2, <2>1, <2>2, AllocationStep DEF AllocationClaim
<1>4. CASE UNCHANGED al
  <2>1. al' = [al EXCEPT ![w] = al[w]]
    BY <1>4 DEF Inv, Typed
  <2> QED BY <1>0, <1>2, <2>1, AllocationStep DEF AllocationClaim
<1> QED BY <1>3, <1>4 DEF AllocationClaim

LEMMA AllocationList2Inv ==
    ASSUME Inv, NEW w \in Workers, AllocationList2(w) PROVE Inv'
<1>0. al[w] \in AllocationType /\ al[w] # None
  BY DEF Inv, Typed, AllocationList2, None
<1>1. RowsTyped' /\ (\A r \in Runs : KeepsLease(r) /\ MovesOn(r)) /\ used' \in [Workers -> SUBSET Keys]
  BY SameRows DEF Inv, Typed, AllocationList2, server
<1>2. /\ Listed(w, "renew") \in AllocationType /\ Listed(w, "renew").st = "renew"
      /\ Listed(w, "renew").items = Listing(w)
  BY <1>0, ListedType DEF Inv
<1> QED BY <1>0, <1>1, <1>2, AllocationStep DEF AllocationList2, server

LEMMA AllocationRenewInv ==
    ASSUME Inv, NEW w \in Workers, AllocationRenew(w) PROVE Inv'
<1> DEFINE leases == al[w].items \ al[w].excluded
<1>0. al[w] \in AllocationType /\ al[w].st = "renew" /\ al[w] # None
  BY DEF Inv, Typed, AllocationRenew, None
<1>1. CASE UNCHANGED lease /\ al' = [al EXCEPT ![w].st = "offline"]
  <2>1. RowsTyped' /\ (\A r \in Runs : KeepsLease(r) /\ MovesOn(r)) /\ used' \in [Workers -> SUBSET Keys]
    BY <1>1, SameRows DEF Inv, Typed, AllocationRenew
  <2>2. [al[w] EXCEPT !.st = "offline"] \in AllocationType /\ [al[w] EXCEPT !.st = "offline"].st = "offline"
    BY <1>0 DEF AllocationType
  <2>3. al' = [al EXCEPT ![w] = [al[w] EXCEPT !.st = "offline"]]
    BY <1>1
  <2> QED BY <1>0, <2>1, <2>2, <2>3, AllocationStep DEF AllocationRenew
<1>2. CASE /\ Renew(w, leases)
           /\ \/ al' = [al EXCEPT ![w].st = "replied", ![w].renewed = Renewed(w, leases)]
              \/ UNCHANGED al
  <2> DEFINE new == Renewed(w, leases)
             a   == [al[w] EXCEPT !.st = "replied", !.renewed = new]
  <2>1. /\ RowsTyped' /\ \A r \in Runs : KeepsLease(r) /\ MovesOn(r)
        /\ new \in SUBSET Notice
        /\ \A n \in new : /\ lease'[n.l[1]].state = "running" /\ lease'[n.l[1]].owner = w
                          /\ lease'[n.l[1]].epoch = n.l[2] /\ lease'[n.l[1]].ttl = LeaseTime
    <3> HIDE DEF leases
    <3> QED BY <1>2, RenewRows DEF Inv
  <2>2. used' \in [Workers -> SUBSET Keys]
    BY DEF Inv, Typed, AllocationRenew
  <2>3. CASE al' = [al EXCEPT ![w].st = "replied", ![w].renewed = new]
    <3>1. al' = [al EXCEPT ![w] = a]
      BY <2>3
    <3> HIDE DEF new
    <3>2. a \in AllocationType /\ a.st = "replied" /\ a.renewed = new /\ a.items = al[w].items
      BY <1>0, <2>1 DEF AllocationType
    <3> HIDE DEF a
    <3>3. \A n \in a.renewed : Held(w, n.l, LeaseTime)'
      BY <2>1, <3>2, LeaseAssumption DEF Held
    <3> QED BY <1>0, <2>1, <2>2, <3>1, <3>2, <3>3, AllocationStep DEF AllocationRenew
  <2>4. CASE UNCHANGED al
    <3>1. al' = [al EXCEPT ![w] = al[w]]
      BY <2>4 DEF Inv, Typed
    <3> QED BY <1>0, <2>1, <2>2, <3>1, AllocationStep DEF AllocationRenew
  <2> QED BY <1>2, <2>3, <2>4
<1> QED BY <1>1, <1>2 DEF AllocationRenew

\* The server's other transactions.
LEMMA StatusInv ==
    ASSUME Inv, NEW w \in Workers, DrainEnds(w) \/ GoOffline(w) \/ ReconcileWorker(w) PROVE Inv'
<1>1. UNCHANGED <<lease, used, active, tasks, retired, hb, al, pending, late, released, begun>>
  BY DEF DrainEnds, GoOffline, ReconcileWorker
<1>2. RowsTyped' /\ \A r \in Runs : KeepsLease(r) /\ MovesOn(r)
  BY <1>1, SameRows DEF Inv
<1>3. /\ status' \in [Workers -> {"accepting", "draining", "offline"}]
      /\ drain' \in [Workers -> {"none", "sent", "done"}]
  BY DEF Inv, Typed, DrainEnds, GoOffline, ReconcileWorker
<1>4. mode' \in [Workers -> {"up", "draining", "stopped", "gone", "failed", "dead"}] /\ Live' = Live
  BY DEF Inv, Typed, DrainEnds, GoOffline, ReconcileWorker, Live
<1>5. Typed'
  BY <1>1, <1>2, <1>3, <1>4 DEF Inv, Typed, ActiveTyped
<1> QED BY <1>1, <1>2, <1>4, <1>5, QuietStep DEF Inv, Once

\* A change of one row.
LEMMA RowInv ==
    ASSUME Inv, NEW r \in Runs, NEW row \in RowType, lease' = [lease EXCEPT ![r] = row],
           row.state = "running" => row.epoch > 0, KeepsLease(r), MovesOn(r),
           released \subseteq released', released' \subseteq Leases, \A l \in released' : begun[l] > 0,
           UNCHANGED <<status, used, mode, drain, active, tasks, retired, hb, al, pending, late, begun>>
    PROVE  Inv'
<1>1. RowsTyped' /\ \A q \in Runs : KeepsLease(q) /\ MovesOn(q)
  BY OneRow DEF Inv
<1>2. Live' = Live
  BY DEF Live
<1>3. Typed'
  BY <1>1, <1>2 DEF Inv, Typed, ActiveTyped
<1> QED BY <1>1, <1>2, <1>3, QuietStep DEF Inv

LEMMA ReleaseInv ==
    ASSUME Inv, NEW w \in Workers, NEW l \in Leases, Release(w, l) PROVE Inv'
<1>1. /\ l[1] \in Runs /\ l = <<l[1], l[2]>> /\ lease[l[1]] \in RowType /\ lease[l[1]].epoch = l[2]
      /\ begun[l] > 0 /\ lease \in [Runs -> RowType]
  BY InListing DEF Inv, Typed, RowsTyped, Once, Release, Leases
<1>2. PICK s \in {"ready", "done"} :
         lease' = [lease EXCEPT ![l[1]].state = s, ![l[1]].owner = "nobody", ![l[1]].ttl = 0]
  BY DEF Release
<1> DEFINE row == [lease[l[1]] EXCEPT !.state = s, !.owner = "nobody", !.ttl = 0]
<1>3. /\ row \in RowType /\ row.state # "running" /\ row.epoch = lease[l[1]].epoch
      /\ row.owner = "nobody"
  <2>1. 0 \in 0..LeaseTime
    BY LeaseAssumption
  <2> QED BY <1>1, <2>1 DEF RowType
<1>4. lease' = [lease EXCEPT ![l[1]] = row]
  BY <1>1, <1>2
<1> HIDE DEF row
<1>5. released' = released \cup {l}
  BY DEF Release
<1>6. KeepsLease(l[1]) /\ MovesOn(l[1])
  BY <1>1, <1>3, <1>4, <1>5 DEF KeepsLease, MovesOn
<1>7. \A m \in released' : begun[m] > 0
  BY <1>1, <1>5 DEF Inv, Once
<1>8. released' \subseteq Leases
  BY <1>5 DEF Inv, Typed
<1> QED BY <1>1, <1>3, <1>4, <1>5, <1>6, <1>7, <1>8, RowInv DEF Release

LEMMA AbortRequestInv == ASSUME Inv, NEW r \in Runs, AbortRequest(r) PROVE Inv'
<1>1. lease[r] \in RowType /\ lease \in [Runs -> RowType] /\ (lease[r].state = "running" => lease[r].epoch > 0)
  BY DEF Inv, Typed, RowsTyped
<1> DEFINE row == [lease[r] EXCEPT !.abort = TRUE, !.state = IF lease[r].epoch = 0 THEN "done" ELSE @]
<1>2. /\ row \in RowType /\ row.epoch = lease[r].epoch /\ row.owner = lease[r].owner
      /\ row.ttl = lease[r].ttl /\ row.state = IF lease[r].epoch = 0 THEN "done" ELSE lease[r].state
  BY <1>1 DEF RowType
<1>3. lease' = [lease EXCEPT ![r] = row]
  BY <1>1 DEF AbortRequest
<1> HIDE DEF row
<1>4. lease'[r] = row /\ lease[r].ttl \in Nat /\ lease[r].epoch \in Nat
  BY <1>1, <1>3, LeaseAssumption, CapacityAssumption DEF RowType
<1>5. KeepsLease(r) /\ MovesOn(r)
  BY <1>1, <1>2, <1>4 DEF KeepsLease, MovesOn
<1> QED BY <1>1, <1>2, <1>3, <1>5, RowInv DEF AbortRequest, Inv, Once, Typed

LEMMA RivalClaimInv == ASSUME Inv, NEW r \in Runs, RivalClaim(r) PROVE Inv'
<1>1. lease[r] \in RowType /\ lease \in [Runs -> RowType]
  BY DEF Inv, Typed, RowsTyped
<1>2. /\ lease[r].epoch + 1 \in 0..MaxLeaseEpoch /\ lease[r].epoch \in Nat
      /\ lease[r].state = "ready" \/ lease[r].ttl = 0
  BY <1>1, CapacityAssumption DEF RivalClaim, Claimable, RowType
<1> DEFINE row == [lease[r] EXCEPT !.state = "running", !.owner = "rival",
                                   !.epoch = lease[r].epoch + 1, !.ttl = LeaseTime]
<1>3. row \in RowType /\ row.epoch = lease[r].epoch + 1
  <2>1. LeaseTime \in 0..LeaseTime
    BY LeaseAssumption
  <2> QED BY <1>1, <1>2, <2>1 DEF RowType
<1>4. lease' = [lease EXCEPT ![r] = row]
  BY <1>1 DEF RivalClaim
<1> HIDE DEF row
<1>5. KeepsLease(r) /\ MovesOn(r)
  BY <1>1, <1>2, <1>3, <1>4 DEF KeepsLease, MovesOn
<1>6. row.epoch > 0
  BY <1>2, <1>3
<1> QED BY <1>1, <1>3, <1>4, <1>5, <1>6, RowInv DEF RivalClaim, Inv, Once, Typed

LEMMA RivalActsInv == ASSUME Inv, NEW r \in Runs, RivalActs(r) PROVE Inv'
<1>1. /\ lease[r] \in RowType /\ lease \in [Runs -> RowType]
      /\ lease[r].state = "running" => lease[r].epoch > 0
      /\ lease[r].owner \notin Workers /\ lease[r].ttl > 0
  BY OwnersAssumption DEF Inv, Typed, RowsTyped, RivalActs
<1>2. ASSUME NEW row \in RowType, lease' = [lease EXCEPT ![r] = row], row.epoch = lease[r].epoch,
             \/ row.state = lease[r].state /\ row.owner = lease[r].owner
             \/ row.state = "ready" /\ row.owner = "nobody"
      PROVE  Inv'
  <2>1. lease'[r] = row
    BY <1>1, <1>2
  <2>2. KeepsLease(r)
    BY <1>1 DEF KeepsLease
  <2>3. MovesOn(r)
    BY <1>1, <1>2, <2>1 DEF MovesOn
  <2> QED BY <1>1, <1>2, <2>2, <2>3, RowInv DEF RivalActs, Inv, Once, Typed
<1>3. 0 \in 0..LeaseTime /\ LeaseTime \in 0..LeaseTime
  BY LeaseAssumption
<1>4. CASE lease' = [lease EXCEPT ![r].ttl = LeaseTime]
  <2> DEFINE row == [lease[r] EXCEPT !.ttl = LeaseTime]
  <2>1. /\ row \in RowType /\ row.epoch = lease[r].epoch
        /\ row.state = lease[r].state /\ row.owner = lease[r].owner
    BY <1>1, <1>3 DEF RowType
  <2>2. lease' = [lease EXCEPT ![r] = row]
    BY <1>4
  <2> HIDE DEF row
  <2> QED BY <1>2, <2>1, <2>2
<1>5. CASE lease' = [lease EXCEPT ![r].state = "ready", ![r].owner = "nobody", ![r].ttl = 0]
  <2> DEFINE row == [lease[r] EXCEPT !.state = "ready", !.owner = "nobody", !.ttl = 0]
  <2>1. /\ row \in RowType /\ row.epoch = lease[r].epoch
        /\ row.state = "ready" /\ row.owner = "nobody"
    BY <1>1, <1>3 DEF RowType
  <2>2. lease' = [lease EXCEPT ![r] = row]
    BY <1>1, <1>5
  <2> HIDE DEF row
  <2> QED BY <1>2, <2>1, <2>2
<1> QED BY <1>4, <1>5 DEF RivalActs

-----------------------------------------------------------------------------
(* Steps of a supervisor that end with the tail of its loop.                 *)

LEMMA GiveUpType ==
    ASSUME Typed, NEW w \in Workers, NEW request \in LateType, GiveUp(w, request)
    PROVE  late' \in [Workers -> {None} \cup LateType]
  BY DEF Typed, GiveUp

LEMMA SettleStep ==
    ASSUME Inv, NEW w \in Live, NEW act, NEW ret \in SUBSET Leases, NEW drains \in BOOLEAN,
           SettleTask(w, act, ret, drains), UNCHANGED <<server, released>>,
           DOMAIN act \subseteq Runs, \A r \in DOMAIN act : act[r] \in Entry,
           \A r \in DOMAIN act : act[r].left > 0 =>
              \/ <<r, act[r].epoch>> \in released
              \/ Held(w, <<r, act[r].epoch>>, act[r].left + Margin),
           hb' \in [Workers -> {None} \cup HeartbeatType], hb'[w] \in {None, hb[w]},
           al' \in [Workers -> {None} \cup AllocationType],
           pending' \in [Workers -> {NoClaim} \cup ClaimType],
           late' \in [Workers -> {None} \cup LateType],
           tasks' \in [Workers -> SUBSET Leases],
           \A v \in Workers \ {w} :
              hb'[v] = hb[v] /\ al'[v] = al[v] /\ pending'[v] = pending[v] /\ tasks'[v] = tasks[v],
           \/ al'[w] = None
           \/ al'[w] = al[w] /\ pending'[w] = pending[w] /\ begun' = begun,
           begun' \in [Leases -> Nat],
           \A l \in Leases : begun'[l] <= 1 /\ begun[l] <= begun'[l],
           \A l \in Leases : begun'[l] > begun[l] => Held(w, l, 1),
           \A l \in tasks'[w] : begun'[l] > 0,
           \A l \in Leases : begun'[l] > 0 =>
              \/ \E r \in DOMAIN act : l = <<r, act[r].epoch>>
              \/ l \in ret
              \/ l \notin Listing(w) /\ l \notin Items(w)'
    PROVE  Inv'
<1> USE DEF Inv
<1> DEFINE gone == {r \in DOMAIN act : act[r].left = 0}
<1>0. w \in Workers /\ lease' = lease /\ released' = released /\ status' = status /\ used' = used
  BY DEF Live, server
<1>1. /\ DOMAIN active' = Workers
      /\ \A v \in Workers \ {w} : active'[v] = active[v] /\ retired'[v] = retired[v]
      /\ DOMAIN (active'[w]) = DOMAIN act \ gone
      /\ \A r \in DOMAIN act \ gone : active'[w][r] = act[r]
      /\ retired'[w] = ret \cup {<<r, act[r].epoch>> : r \in gone}
      /\ DOMAIN retired' = Workers
  BY <1>0 DEF SettleTask, Without, Restrict, Typed, ActiveTyped
<1>2. \A r \in DOMAIN act : <<r, act[r].epoch>> \in Leases
  BY DEF Entry, Leases
<1>3. /\ mode' \in [Workers -> {"up", "draining", "stopped", "gone", "failed", "dead"}]
      /\ drain' \in [Workers -> {"none", "sent", "done"}] /\ Live' = Live
  BY <1>0 DEF SettleTask, Typed, Live
<1>4. ActiveTyped'
  BY <1>0, <1>1 DEF ActiveTyped, Typed
<1>5. retired' \in [Workers -> SUBSET Leases]
  <2>1. \A v \in Workers : retired'[v] \subseteq Leases
    BY <1>1, <1>2 DEF Typed
  <2>2. retired' = [v \in Workers |-> retired'[v]]
    BY <1>0 DEF SettleTask, Typed
  <2> QED BY <2>1, <2>2
<1>6. Typed'
  <2>1. \A v \in Workers : al'[v] # None => pending'[v] # NoClaim
    BY DEF Typed
  <2>2. \A v \in Workers \ Live : DOMAIN (active'[v]) = {} /\ hb'[v] = None /\ al'[v] = None
    BY <1>1 DEF Typed
  <2>3. RowsTyped'
    BY <1>0 DEF Typed, RowsTyped
  <2> QED BY <1>0, <1>3, <1>4, <1>5, <2>1, <2>2, <2>3 DEF Typed
<1>7. DeadlinesAreEarly'
  <2>1. ASSUME NEW v \in Workers, NEW r \in DOMAIN (active'[v])
        PROVE  \/ <<r, active'[v][r].epoch>> \in released
               \/ Held(v, <<r, active'[v][r].epoch>>, active'[v][r].left + Margin)
    <3>1. CASE v = w
      <4>1. r \in DOMAIN act /\ act[r].left # 0 /\ act[r].left \in Nat /\ active'[w][r] = act[r]
        BY <1>1, <2>1, <3>1, LeaseAssumption DEF Entry
      <4> QED BY <3>1, <4>1
    <3>2. CASE v # w
      BY <1>1, <2>1, <3>2 DEF DeadlinesAreEarly
    <3> QED BY <3>1, <3>2
  <2>2. ASSUME NEW v \in Workers
        PROVE  /\ hb'[v].st = "replied" => Worth(v, hb'[v].renewed, hb'[v].age)
               /\ al'[v].st = "replied" => Worth(v, al'[v].renewed, al'[v].age)
    <3>1. hb'[v] = None \/ hb'[v] = hb[v]
      OBVIOUS
    <3>2. al'[v] = None \/ al'[v] = al[v]
      OBVIOUS
    <3> QED BY <3>1, <3>2 DEF DeadlinesAreEarly, None
  <2> QED BY <1>0, <2>1, <2>2 DEF DeadlinesAreEarly, Worth, Held
<1>8. \A v \in Workers : Listing(v)' = Listing(v)
  BY <1>0 DEF Listing
<1>9. \A v \in Workers : Items(v)' = Items(v) \/ Items(v)' = {}
  BY DEF Items, None
<1>10. \A v \in Workers \ {w} : Items(v)' = Items(v)
  BY DEF Items
<1>b. \A l \in Leases : begun[l] \in Nat /\ begun'[l] \in Nat
  BY DEF Typed
<1>c. \A l \in Leases : begun[l] > 0 => begun'[l] > 0
  BY <1>b
<1>d. ASSUME NEW l \in Leases, begun'[l] > 0, ~(begun[l] > 0)
      PROVE  lease[l[1]].owner = w /\ lease[l[1]].epoch = l[2]
  <2>1. begun'[l] > begun[l]
    BY <1>b, <1>d
  <2>2. Held(w, l, 1)
    BY <2>1
  <2> QED BY <2>2 DEF Held
\* A lease begun in this step is nobody else's.
<1>11. ASSUME NEW l \in Leases, begun'[l] > 0, NEW v \in Workers \ {w}
       PROVE  begun[l] > 0 \/ (l \notin Listing(v) /\ l \notin Items(v))
  <2> SUFFICES ASSUME ~(begun[l] > 0) PROVE l \notin Listing(v) /\ l \notin Items(v)
    OBVIOUS
  <2>2. lease[l[1]].owner = w /\ lease[l[1]].epoch = l[2]
    BY <1>11, <1>d
  <2> QED BY <1>0, <2>2, InListing, OwnersAssumption DEF Listings
<1>12. Once'
  <2>1. ASSUME NEW l \in Leases, begun'[l] > 0 PROVE l[2] <= lease[l[1]].epoch
    <3>1. l[2] \in Nat
      BY DEF Leases, Epochs
    <3>2. CASE begun[l] > 0
      BY <3>2 DEF Once
    <3> QED BY <1>d, <2>1, <3>1, <3>2
  <2>2. \A l \in released : begun'[l] > 0
    BY <1>c DEF Once, Typed
  <2>3. ASSUME NEW v \in Workers, NEW l \in tasks'[v] PROVE begun'[l] > 0
    <3>1. l \in Leases
      OBVIOUS
    <3>2. CASE v # w
      BY <1>c, <2>3, <3>1, <3>2 DEF Once
    <3> QED BY <2>3, <3>2
  <2>4. ASSUME NEW v \in Live, NEW l \in Leases, begun'[l] > 0 PROVE OutOfReach(v, l)'
    <3>0. v \in Workers
      BY DEF Live
    <3>1. CASE v = w
      <4>1. CASE \E r \in DOMAIN act : l = <<r, act[r].epoch>>
        <5>1. PICK r \in DOMAIN act : l = <<r, act[r].epoch>>
          BY <4>1
        <5>2. CASE r \in gone
          BY <1>1, <3>1, <5>1, <5>2 DEF OutOfReach
        <5>3. CASE r \notin gone
          <6>1. r \in DOMAIN (active'[w]) /\ l = <<r, active'[w][r].epoch>>
            BY <1>1, <5>1, <5>3
          <6>2. l \in ActiveLeases(w)'
            BY <6>1 DEF ActiveLeases
          <6> QED BY <3>1, <6>2 DEF OutOfReach
        <5> QED BY <5>2, <5>3
      <4>2. CASE l \in ret
        BY <1>1, <3>1, <4>2 DEF OutOfReach
      <4>3. CASE l \notin Listing(w) /\ l \notin Items(w)'
        BY <1>0, <1>8, <3>1, <4>3 DEF OutOfReach
      <4> QED BY <2>4, <4>1, <4>2, <4>3
    <3>2. CASE v # w
      <4>1. ActiveLeases(v)' = ActiveLeases(v)
        BY <1>1, <3>0, <3>2 DEF ActiveLeases
      <4>2. OutOfReach(v, l) \/ (l \notin Listing(v) /\ l \notin Items(v))
        BY <1>11, <2>4, <3>0, <3>2 DEF Once
      <4> QED BY <1>1, <1>8, <1>10, <3>0, <3>2, <4>1, <4>2 DEF OutOfReach
    <3> QED BY <3>1, <3>2
  <2>5. \A l \in Leases : begun'[l] <= 1
    OBVIOUS
  <2> QED BY <1>0, <1>3, <2>1, <2>2, <2>3, <2>4, <2>5 DEF Once
<1>13. Listings'
  <2> SUFFICES ASSUME NEW v \in Workers
               PROVE  /\ \A l \in Items(v)' :
                            /\ l[2] <= lease[l[1]].epoch
                            /\ l[2] = lease[l[1]].epoch => lease[l[1]].owner \in {v, "nobody"}
                      /\ \A l, m \in Items(v)' : l[1] = m[1] => l = m
                      /\ al'[v].st \in {"renew", "replied"} =>
                            \A l \in Listing(v) : begun'[l] > 0 => l \in al'[v].items
    BY <1>0, <1>8 DEF Listings
  <2>1. /\ \A l \in Items(v)' :
              /\ l[2] <= lease[l[1]].epoch
              /\ l[2] = lease[l[1]].epoch => lease[l[1]].owner \in {v, "nobody"}
        /\ \A l, m \in Items(v)' : l[1] = m[1] => l = m
    BY <1>9 DEF Listings
  <2>2. ASSUME al'[v].st \in {"renew", "replied"}, NEW l \in Listing(v), begun'[l] > 0
        PROVE  l \in al'[v].items
    <3>1. l \in Leases
      BY InListing
    <3>2. al'[v] = al[v] /\ begun[l] > 0
      BY <1>11, <2>2, <3>1 DEF None
    <3> QED BY <2>2, <3>2 DEF Listings
  <2> QED BY <2>1, <2>2
<1> QED BY <1>6, <1>7, <1>12, <1>13

\* Without a new activation or a new deadline.
LEMMA PlainSettle ==
    ASSUME Inv, NEW w \in Live, NEW act, NEW ret \in SUBSET Leases, NEW drains \in BOOLEAN,
           SettleTask(w, act, ret, drains), UNCHANGED <<server, released, begun, pending>>,
           DOMAIN act \subseteq DOMAIN active[w], \A r \in DOMAIN act : act[r] = active[w][r],
           \A r \in DOMAIN active[w] \ DOMAIN act : <<r, active[w][r].epoch>> \in ret,
           retired[w] \subseteq ret,
           hb' \in [Workers -> {None} \cup HeartbeatType], hb'[w] \in {None, hb[w]},
           al' \in [Workers -> {None} \cup AllocationType], al'[w] \in {None, al[w]},
           late' \in [Workers -> {None} \cup LateType],
           tasks' \in [Workers -> SUBSET Leases], tasks'[w] \subseteq tasks[w],
           \A v \in Workers \ {w} : hb'[v] = hb[v] /\ al'[v] = al[v] /\ tasks'[v] = tasks[v]
    PROVE  Inv'
<1> USE DEF Inv
<1>0. w \in Workers
  BY DEF Live
<1>1. DOMAIN act \subseteq Runs /\ \A r \in DOMAIN act : act[r] \in Entry
  BY <1>0 DEF Typed, ActiveTyped
<1>2. \A r \in DOMAIN act : act[r].left > 0 =>
         \/ <<r, act[r].epoch>> \in released
         \/ Held(w, <<r, act[r].epoch>>, act[r].left + Margin)
  BY <1>0 DEF DeadlinesAreEarly
<1>3. /\ begun' \in [Leases -> Nat]
      /\ \A l \in Leases : begun'[l] <= 1 /\ begun[l] <= begun'[l]
      /\ \A l \in Leases : ~(begun'[l] > begun[l])
  BY DEF Typed, Once
<1>4. \A l \in tasks'[w] : begun'[l] > 0
  BY <1>0 DEF Once
<1>5. ASSUME NEW l \in Leases, begun'[l] > 0
      PROVE  \/ \E r \in DOMAIN act : l = <<r, act[r].epoch>>
             \/ l \in ret
             \/ l \notin Listing(w) /\ l \notin Items(w)'
  <2>1. OutOfReach(w, l)
    BY <1>5 DEF Once
  <2>2. CASE l \in ActiveLeases(w)
    <3>1. PICK r \in DOMAIN active[w] : l = <<r, active[w][r].epoch>>
      BY <2>2 DEF ActiveLeases
    <3> QED BY <3>1
  <2>3. Items(w)' = Items(w) \/ Items(w)' = {}
    BY DEF Items, None
  <2> QED BY <2>1, <2>2, <2>3 DEF OutOfReach
<1>6. pending' \in [Workers -> {NoClaim} \cup ClaimType]
  BY DEF Typed
<1> QED BY <1>0, <1>1, <1>2, <1>3, <1>4, <1>5, <1>6, SettleStep

LEMMA SweepInv == ASSUME Inv, NEW w \in Workers, Sweep(w) PROVE Inv'
<1>1. w \in Live /\ retired[w] \in SUBSET Leases /\ SettleTask(w, active[w], retired[w], FALSE)
  BY DEF Inv, Typed, Sweep
<1> QED BY <1>1, PlainSettle DEF Inv, Typed, Sweep

LEMMA BeginDrainInv == ASSUME Inv, NEW w \in Workers, BeginDrain(w) PROVE Inv'
<1>1. w \in Live /\ retired[w] \in SUBSET Leases /\ SettleTask(w, active[w], retired[w], TRUE)
  BY DEF Inv, Typed, BeginDrain, Live
<1> QED BY <1>1, PlainSettle DEF Inv, Typed, BeginDrain

LEMMA HeartbeatFailsInv == ASSUME Inv, NEW w \in Workers, HeartbeatFails(w) PROVE Inv'
<1>1. w \in Live /\ retired[w] \in SUBSET Leases /\ SettleTask(w, active[w], retired[w], FALSE)
  <2>1. hb[w] # None
    BY DEF HeartbeatFails, None
  <2> QED BY <2>1 DEF Inv, Typed, HeartbeatFails
<1>2. LateHeartbeat(hb[w].leases) \in LateType
  BY DEF Inv, Typed, HeartbeatFails, HeartbeatType, None, LateHeartbeat, LateType
<1>3. late' \in [Workers -> {None} \cup LateType]
  BY <1>2, GiveUpType DEF Inv, HeartbeatFails
<1>4. /\ hb' \in [Workers -> {None} \cup HeartbeatType] /\ hb'[w] = None
      /\ \A v \in Workers \ {w} : hb'[v] = hb[v]
  BY DEF Inv, Typed, HeartbeatFails
<1> QED BY <1>1, <1>3, <1>4, PlainSettle DEF Inv, Typed, HeartbeatFails

LEMMA AllocationFailsInv == ASSUME Inv, NEW w \in Workers, AllocationFails(w) PROVE Inv'
<1>1. w \in Live /\ retired[w] \in SUBSET Leases /\ SettleTask(w, active[w], retired[w], FALSE)
  <2>1. al[w] # None
    BY DEF AllocationFails, None
  <2> QED BY <2>1 DEF Inv, Typed, AllocationFails
<1>2. al[w] \in AllocationType /\ pending[w] \in ClaimType
  BY DEF Inv, Typed, AllocationFails, None
<1>3. late' \in [Workers -> {None} \cup LateType]
  <2>1. LateHeartbeat(al[w].items \ al[w].excluded) \in LateType /\ LateClaim(pending[w]) \in LateType
    BY <1>2 DEF AllocationType, LateHeartbeat, LateClaim, LateType
  <2>2. CASE al[w].st = "claim"
    BY <2>1, <2>2, GiveUpType DEF Inv, AllocationFails
  <2>3. CASE al[w].st = "renew"
    BY <2>1, <2>3, GiveUpType DEF Inv, AllocationFails
  <2>4. CASE al[w].st \notin {"claim", "renew"}
    BY <2>4 DEF Inv, Typed, AllocationFails
  <2> QED BY <2>2, <2>3, <2>4
<1>4. /\ al' \in [Workers -> {None} \cup AllocationType] /\ al'[w] = None
      /\ \A v \in Workers \ {w} : al'[v] = al[v]
  BY DEF Inv, Typed, AllocationFails
<1> QED BY <1>1, <1>3, <1>4, PlainSettle DEF Inv, Typed, AllocationFails

LEMMA TaskEndsInv == ASSUME Inv, NEW w \in Workers, NEW l \in Leases, TaskEnds(w, l) PROVE Inv'
<1> DEFINE act == IF l \in ActiveLeases(w) THEN Without(active[w], {l[1]}) ELSE active[w]
           ret == retired[w] \cup {l}
<1>1. w \in Live /\ ret \in SUBSET Leases /\ SettleTask(w, act, ret, FALSE)
  BY DEF Inv, Typed, TaskEnds
<1>2. /\ DOMAIN act \subseteq DOMAIN active[w] /\ \A r \in DOMAIN act : act[r] = active[w][r]
      /\ \A r \in DOMAIN active[w] \ DOMAIN act : <<r, active[w][r].epoch>> \in ret
  <2>1. CASE l \in ActiveLeases(w)
    <3>1. PICK q \in DOMAIN active[w] : l = <<q, active[w][q].epoch>>
      BY <2>1 DEF ActiveLeases
    <3>2. l[1] = q /\ act = [r \in DOMAIN active[w] \ {q} |-> active[w][r]]
      BY <2>1, <3>1 DEF Without, Restrict
    <3> QED BY <3>1, <3>2
  <2>2. CASE l \notin ActiveLeases(w)
    BY <2>2
  <2> QED BY <2>1, <2>2
<1>3. retired[w] \subseteq ret
  OBVIOUS
<1>4. /\ tasks' \in [Workers -> SUBSET Leases] /\ tasks'[w] \subseteq tasks[w]
      /\ \A v \in Workers \ {w} : tasks'[v] = tasks[v]
  BY DEF Inv, Typed, TaskEnds
<1>5. UNCHANGED <<server, released, begun, pending, hb, al, late>>
  BY DEF TaskEnds
<1>6. /\ hb' \in [Workers -> {None} \cup HeartbeatType] /\ al' \in [Workers -> {None} \cup AllocationType]
      /\ late' \in [Workers -> {None} \cup LateType]
  BY <1>5 DEF Inv, Typed
<1> HIDE DEF act, ret
<1> QED BY <1>1, <1>2, <1>3, <1>4, <1>5, <1>6, PlainSettle

\* What a reply leaves of an active run: the deadline it sets is a margin early.
LEMMA AfterHeartbeatEntry ==
    ASSUME Inv, NEW w \in Workers, hb[w].st = "replied", NEW r \in DOMAIN active[w]
    PROVE  LET a == AfterHeartbeat(w, r) IN
           /\ a \in Entry /\ a.epoch = active[w][r].epoch
           /\ a.left > 0 => \/ <<r, a.epoch>> \in released
                            \/ Held(w, <<r, a.epoch>>, a.left + Margin)
<1> DEFINE a     == active[w][r]
           l     == <<r, a.epoch>>
           age   == hb[w].age
           notes == {n \in hb[w].renewed : n.l = l}
           abort == a.abort \/ \E n \in notes : n.abort
           left  == Max({a.left, Until(age)})
<1>1. /\ a \in Entry /\ a.left \in 0..LeaseTime - Margin /\ a.abort \in BOOLEAN
      /\ age \in 0..LeaseTime - Margin
  BY DEF Inv, Typed, ActiveTyped, Entry, HeartbeatType, None
<1>2. l \in released \/ Held(w, l, a.left + Margin)
  BY DEF Inv, DeadlinesAreEarly
<1>3. Worth(w, hb[w].renewed, age)
  BY DEF Inv, DeadlinesAreEarly
<1>4. abort \in BOOLEAN /\ 0 \in 0..LeaseTime - Margin
  BY <1>1, LeaseAssumption
<1>5. left = IF a.left >= Until(age) THEN a.left ELSE Until(age)
  BY <1>1, MaxOfTwo, LeaseAssumption DEF Until
<1>6. left \in 0..LeaseTime - Margin
  BY <1>1, <1>5, LeaseAssumption DEF Until
<1>7. notes # {} => l \in released \/ Held(w, l, left + Margin)
  <2> SUFFICES ASSUME notes # {}, l \notin released PROVE Held(w, l, left + Margin)
    OBVIOUS
  <2>1. PICK n \in hb[w].renewed : n.l = l
    OBVIOUS
  <2>2. age >= LeaseTime - Margin \/ Held(w, l, LeaseTime - age)
    BY <1>3, <2>1 DEF Worth
  <2>3. CASE a.left >= Until(age)
    BY <1>2, <1>5, <2>3
  <2>4. CASE ~(a.left >= Until(age))
    <3>1. ~(age >= LeaseTime - Margin)
      BY <1>1, <2>4, LeaseAssumption DEF Until
    <3>2. left + Margin = LeaseTime - age
      BY <1>1, <1>5, <2>4, LeaseAssumption DEF Until
    <3> QED BY <2>2, <3>1, <3>2
  <2> QED BY <2>3, <2>4
<1>8. AfterHeartbeat(w, r) = IF l \notin hb[w].leases THEN a
                             ELSE IF notes = {} THEN [a EXCEPT !.left = 0]
                             ELSE [a EXCEPT !.left = left, !.abort = abort]
  BY DEF AfterHeartbeat
<1> HIDE DEF a, abort, left, notes
<1>9. CASE l \notin hb[w].leases
  BY <1>1, <1>2, <1>8, <1>9 DEF a
<1>10. CASE l \in hb[w].leases /\ notes = {}
  <2>1. AfterHeartbeat(w, r) = [a EXCEPT !.left = 0]
    BY <1>8, <1>10
  <2> QED BY <1>1, <1>4, <2>1 DEF Entry, a
<1>11. CASE l \in hb[w].leases /\ notes # {}
  <2>1. AfterHeartbeat(w, r) = [a EXCEPT !.left = left, !.abort = abort]
    BY <1>8, <1>11
  <2>2. /\ AfterHeartbeat(w, r) \in Entry /\ AfterHeartbeat(w, r).epoch = a.epoch
        /\ AfterHeartbeat(w, r).left = left
    BY <1>1, <1>4, <1>6, <2>1 DEF Entry
  <2> QED BY <1>7, <1>11, <2>2 DEF a
<1> QED BY <1>9, <1>10, <1>11

LEMMA HeartbeatReplyInv == ASSUME Inv, NEW w \in Workers, HeartbeatReply(w) PROVE Inv'
<1> USE DEF Inv
<1> DEFINE act == [r \in DOMAIN active[w] |-> AfterHeartbeat(w, r)]
<1>1. w \in Live /\ retired[w] \in SUBSET Leases /\ SettleTask(w, act, retired[w], FALSE)
  <2>1. hb[w] # None
    BY DEF HeartbeatReply, None
  <2> QED BY <2>1 DEF Typed, HeartbeatReply
<1>2. /\ hb[w].st = "replied" /\ hb' = [hb EXCEPT ![w] = None]
      /\ UNCHANGED <<server, tasks, al, pending, late, released, begun>>
  BY DEF HeartbeatReply
<1>3. /\ DOMAIN act = DOMAIN active[w] /\ DOMAIN active[w] \subseteq Runs
      /\ \A r \in DOMAIN act :
            /\ act[r] \in Entry /\ act[r].epoch = active[w][r].epoch
            /\ act[r].left > 0 => \/ <<r, act[r].epoch>> \in released
                                  \/ Held(w, <<r, act[r].epoch>>, act[r].left + Margin)
  BY <1>2, AfterHeartbeatEntry DEF Typed, ActiveTyped
<1> HIDE DEF act
<1>4. /\ hb' \in [Workers -> {None} \cup HeartbeatType] /\ hb'[w] = None
      /\ \A v \in Workers \ {w} : hb'[v] = hb[v]
  BY <1>2 DEF Typed
<1>5. /\ al' \in [Workers -> {None} \cup AllocationType] /\ late' \in [Workers -> {None} \cup LateType]
      /\ pending' \in [Workers -> {NoClaim} \cup ClaimType] /\ tasks' \in [Workers -> SUBSET Leases]
      /\ begun' \in [Leases -> Nat] /\ begun' = begun
  BY <1>2 DEF Typed
<1>6. /\ \A l \in Leases : begun'[l] <= 1 /\ begun[l] <= begun'[l]
      /\ \A l \in Leases : ~(begun'[l] > begun[l])
      /\ \A l \in tasks'[w] : begun'[l] > 0
  BY <1>2, <1>5 DEF Typed, Once
<1>7. ASSUME NEW l \in Leases, begun'[l] > 0
      PROVE  \/ \E r \in DOMAIN act : l = <<r, act[r].epoch>>
             \/ l \in retired[w]
             \/ l \notin Listing(w) /\ l \notin Items(w)'
  <2>1. OutOfReach(w, l) /\ Items(w)' = Items(w)
    BY <1>1, <1>2, <1>7 DEF Once, Items
  <2> QED BY <1>3, <2>1 DEF OutOfReach, ActiveLeases
<1> QED BY <1>1, <1>2, <1>3, <1>4, <1>5, <1>6, <1>7, SettleStep

-----------------------------------------------------------------------------
(* The reply of an allocation. *)

\* What it may start was never started, and is the worker's.
LEMMA StartableIsNew ==
    ASSUME Inv, NEW w \in Live, al[w].st = "replied", NEW l \in Startable(w)
    PROVE  /\ l \in Leases /\ l \in Items(w) /\ l[1] \notin DOMAIN active[w]
           /\ begun[l] = 0 /\ l \notin released
           /\ Until(al[w].age) \in 0..LeaseTime - Margin /\ Until(al[w].age) > 0
           /\ Held(w, l, Until(al[w].age) + Margin)
<1> USE DEF Inv
<1>0. w \in Workers /\ al[w] \in AllocationType
  BY DEF Live, Typed, None
<1>1. /\ l \in al[w].items /\ l[1] \notin DOMAIN active[w] /\ l \notin retired[w]
      /\ Until(al[w].age) > 0 /\ \E n \in al[w].renewed : n.l = l
  BY DEF Startable
<1>2. l \in Leases /\ l \in Items(w)
  BY <1>0, <1>1 DEF AllocationType, Items
<1>3. begun[l] = 0
  <2>1. l \notin ActiveLeases(w)
    BY <1>1 DEF ActiveLeases
  <2>2. ~(begun[l] > 0)
    BY <1>1, <1>2, <2>1 DEF Once, OutOfReach
  <2> QED BY <1>2, <2>2 DEF Typed
<1>4. l \notin released
  BY <1>3 DEF Once
<1>5. al[w].age \in 0..LeaseTime - Margin
  BY <1>0 DEF AllocationType
<1>6. Until(al[w].age) \in 0..LeaseTime - Margin /\ Until(al[w].age) + Margin = LeaseTime - al[w].age
      /\ ~(al[w].age >= LeaseTime - Margin)
  BY <1>1, <1>5, LeaseAssumption DEF Until
<1>7. Worth(w, al[w].renewed, al[w].age)
  BY <1>0 DEF DeadlinesAreEarly
<1>8. Held(w, l, LeaseTime - al[w].age)
  BY <1>1, <1>4, <1>6, <1>7 DEF Worth
<1> QED BY <1>1, <1>2, <1>3, <1>4, <1>6, <1>8

LEMMA AllocationReplyInv == ASSUME Inv, NEW w \in Workers, AllocationReply(w) PROVE Inv'
<1> USE DEF Inv
<1> DEFINE until == Until(al[w].age)
           ret == retired[w] \cap al[w].items
           drains == mode[w] = "draining" \/ ~al[w].accepting
<1>1. /\ al[w].st = "replied" /\ al' = [al EXCEPT ![w] = None]
      /\ pending' = [pending EXCEPT ![w] = NoClaim] /\ UNCHANGED <<server, hb, late, released>>
  BY DEF AllocationReply
<1>2. w \in Live /\ al[w] \in AllocationType
  <2>1. al[w] # None
    BY <1>1 DEF None
  <2> QED BY <2>1 DEF Typed
<1>3. PICK many :
      \E S \in kSubset(many, Startable(w)) :
         LET started == [r \in {l[1] : l \in S} |->
                 [epoch |-> (CHOOSE l \in S : l[1] = r)[2], left |-> until,
                  abort |-> \E n \in al[w].renewed : n.l[1] = r /\ n.abort]] IN
         /\ SettleTask(w, [r \in DOMAIN active[w] \cup DOMAIN started |->
                              IF r \in DOMAIN started THEN started[r] ELSE active[w][r]],
                       ret, drains)
         /\ tasks' = [tasks EXCEPT ![w] = @ \cup S]
         /\ begun' = [l \in Leases |-> IF l \in S THEN begun[l] + 1 ELSE begun[l]]
  BY DEF AllocationReply
<1>4. PICK S \in kSubset(many, Startable(w)) :
         LET started == [r \in {l[1] : l \in S} |->
                 [epoch |-> (CHOOSE l \in S : l[1] = r)[2], left |-> until,
                  abort |-> \E n \in al[w].renewed : n.l[1] = r /\ n.abort]] IN
         /\ SettleTask(w, [r \in DOMAIN active[w] \cup DOMAIN started |->
                              IF r \in DOMAIN started THEN started[r] ELSE active[w][r]],
                       ret, drains)
         /\ tasks' = [tasks EXCEPT ![w] = @ \cup S]
         /\ begun' = [l \in Leases |-> IF l \in S THEN begun[l] + 1 ELSE begun[l]]
  BY <1>3
<1> DEFINE aborts(r) == \E n \in al[w].renewed : n.l[1] = r /\ n.abort
           first(r) == CHOOSE l \in S : l[1] = r
           started == [r \in {l[1] : l \in S} |->
                          [epoch |-> first(r)[2], left |-> until, abort |-> aborts(r)]]
           act == [r \in DOMAIN active[w] \cup DOMAIN started |->
                      IF r \in DOMAIN started THEN started[r] ELSE active[w][r]]
<1>5. /\ SettleTask(w, act, ret, drains)
      /\ tasks' = [tasks EXCEPT ![w] = @ \cup S]
      /\ begun' = [l \in Leases |-> IF l \in S THEN begun[l] + 1 ELSE begun[l]]
  BY <1>4
<1>6. \A l \in S : /\ l \in Leases /\ l \in Items(w) /\ l[1] \notin DOMAIN active[w]
                   /\ begun[l] = 0 /\ l \notin released
                   /\ until \in 0..LeaseTime - Margin /\ until > 0
                   /\ Held(w, l, until + Margin)
  <2>1. S \subseteq Startable(w)
    BY DEF kSubset
  <2> QED BY <1>1, <1>2, <2>1, StartableIsNew
<1>7. \A l \in S : first(l[1]) = l
  <2>1. \A l, m \in S : l[1] = m[1] => l = m
    BY <1>6 DEF Listings
  <2> QED BY <2>1
<1>8. ASSUME NEW l \in S
      PROVE  /\ l[1] \in DOMAIN started /\ started[l[1]] \in Entry /\ started[l[1]].left = until
             /\ l = <<l[1], started[l[1]].epoch>>
  <2>1. l = <<l[1], l[2]>> /\ l[2] \in Epochs
    BY <1>6 DEF Leases
  <2> DEFINE c == aborts(l[1])
  <2>2. c \in BOOLEAN
    OBVIOUS
  <2>3. l[1] \in DOMAIN started /\ started[l[1]] = [epoch |-> l[2], left |-> until, abort |-> c]
    BY <1>7
  <2> HIDE DEF c, started
  <2> QED BY <1>6, <2>1, <2>2, <2>3 DEF Entry
<1>9. DOMAIN started = {l[1] : l \in S}
  OBVIOUS
<1>10. /\ DOMAIN act = DOMAIN active[w] \cup DOMAIN started
       /\ \A r \in DOMAIN started : act[r] = started[r]
       /\ \A r \in DOMAIN active[w] : act[r] = active[w][r]
  BY <1>6, <1>9
<1> HIDE DEF act, started, first, aborts
<1>11. ASSUME NEW r \in DOMAIN act
       PROVE  /\ r \in Runs /\ act[r] \in Entry
              /\ \/ <<r, act[r].epoch>> \in released
                 \/ Held(w, <<r, act[r].epoch>>, act[r].left + Margin)
  <2>1. CASE r \in DOMAIN active[w]
    BY <1>10, <2>1 DEF Typed, ActiveTyped, DeadlinesAreEarly
  <2>2. CASE r \in DOMAIN started
    <3>1. PICK l \in S : r = l[1]
      BY <1>9, <2>2
    <3>2. act[r] = started[l[1]] /\ r \in Runs
      BY <1>6, <1>10, <2>2, <3>1 DEF Leases
    <3>3. Held(w, <<r, act[r].epoch>>, act[r].left + Margin)
      BY <1>6, <1>8, <3>1, <3>2
    <3> QED BY <1>8, <3>2, <3>3
  <2> QED BY <1>10, <2>1, <2>2
<1>12. /\ al' \in [Workers -> {None} \cup AllocationType] /\ al'[w] = None
       /\ \A v \in Workers \ {w} : al'[v] = al[v]
       /\ pending' \in [Workers -> {NoClaim} \cup ClaimType]
       /\ \A v \in Workers \ {w} : pending'[v] = pending[v]
       /\ hb' \in [Workers -> {None} \cup HeartbeatType] /\ hb' = hb
       /\ late' \in [Workers -> {None} \cup LateType]
  BY <1>1 DEF Typed
<1>13. /\ tasks' \in [Workers -> SUBSET Leases] /\ tasks'[w] = tasks[w] \cup S
       /\ \A v \in Workers \ {w} : tasks'[v] = tasks[v]
  BY <1>5, <1>6 DEF Typed
<1>14. \A l \in Leases : begun[l] \in Nat /\ begun'[l] = IF l \in S THEN 1 ELSE begun[l]
  BY <1>5, <1>6 DEF Typed
<1>15. /\ begun' \in [Leases -> Nat]
       /\ \A l \in Leases : begun'[l] <= 1 /\ begun[l] <= begun'[l]
  BY <1>5, <1>6, <1>14 DEF Typed, Once
<1>16. ASSUME NEW l \in Leases, begun'[l] > begun[l] PROVE Held(w, l, 1)
  <2>1. l \in S
    BY <1>14, <1>16
  <2>2. Held(w, l, until + Margin) /\ until \in Nat /\ l[1] \in Runs
    BY <1>6, <2>1, LeaseAssumption DEF Leases
  <2>3. lease[l[1]].ttl \in Nat
    BY <2>2, LeaseAssumption DEF Typed, RowsTyped, RowType
  <2> HIDE DEF until
  <2> QED BY <2>2, <2>3, LeaseAssumption DEF Held
<1>17. \A l \in tasks'[w] : begun'[l] > 0
  BY <1>6, <1>13, <1>14 DEF Once, Typed
<1>18. ASSUME NEW l \in Leases, begun'[l] > 0
       PROVE  \/ \E r \in DOMAIN act : l = <<r, act[r].epoch>>
              \/ l \in ret
              \/ l \notin Listing(w) /\ l \notin Items(w)'
  <2>1. CASE l \in S
    BY <1>8, <1>10, <2>1
  <2>2. CASE l \notin S
    <3>1. begun[l] > 0 /\ OutOfReach(w, l)
      BY <1>2, <1>14, <1>18, <2>2 DEF Once
    <3>2. Items(w)' = {}
      BY <1>12 DEF Items, None
    <3>3. CASE l \in ActiveLeases(w)
      BY <1>10, <3>3 DEF ActiveLeases
    <3>4. l \in Listing(w) => l \in al[w].items
      BY <1>1, <3>1 DEF Listings
    <3> QED BY <3>1, <3>2, <3>3, <3>4 DEF OutOfReach
  <2> QED BY <2>1, <2>2
<1>19. ret \in SUBSET Leases /\ drains \in BOOLEAN /\ DOMAIN act \subseteq Runs
  BY <1>11 DEF Typed
<1> HIDE DEF ret, drains
<1>20. /\ \A r \in DOMAIN act : act[r] \in Entry
       /\ \A r \in DOMAIN act : act[r].left > 0 =>
             \/ <<r, act[r].epoch>> \in released
             \/ Held(w, <<r, act[r].epoch>>, act[r].left + Margin)
  BY <1>11
<1>21. \A v \in Workers \ {w} :
          hb'[v] = hb[v] /\ al'[v] = al[v] /\ pending'[v] = pending[v] /\ tasks'[v] = tasks[v]
  BY <1>12, <1>13
<1>22. \A l \in Leases : begun'[l] > begun[l] => Held(w, l, 1)
  BY <1>16
<1>23. \A l \in Leases : begun'[l] > 0 =>
          \/ \E r \in DOMAIN act : l = <<r, act[r].epoch>>
          \/ l \in ret
          \/ l \notin Listing(w) /\ l \notin Items(w)'
  BY <1>18
<1>24. SettleTask(w, act, ret, drains) /\ hb'[w] = hb[w] /\ UNCHANGED <<server, released>>
  BY <1>1, <1>5
<1> QED BY <1>2, <1>12, <1>13, <1>15, <1>17, <1>19, <1>20, <1>21, <1>22, <1>23, <1>24, SettleStep

-----------------------------------------------------------------------------
(* The end of a worker, and time. *)

LEMMA AbandonInv ==
    ASSUME Inv, NEW w \in Workers, NEW m \in {"stopped", "failed", "dead"}, Abandon(w, m),
           UNCHANGED <<server, drain, released, begun>>
    PROVE  Inv'
<1> USE DEF Inv
<1>1. /\ mode' = [mode EXCEPT ![w] = m] /\ active' = [active EXCEPT ![w] = <<>>]
      /\ tasks' = [tasks EXCEPT ![w] = {}] /\ retired' = [retired EXCEPT ![w] = {}]
      /\ hb' = [hb EXCEPT ![w] = None] /\ al' = [al EXCEPT ![w] = None]
      /\ pending' = [pending EXCEPT ![w] = NoClaim]
      /\ lease' = lease /\ status' = status /\ used' = used
  BY DEF Abandon, server
<1>2. late' \in [Workers -> {None} \cup LateType]
  <2>1. CASE hb[w].st = "sent"
    <3>1. LateHeartbeat(hb[w].leases) \in LateType
      BY <2>1 DEF Typed, HeartbeatType, None, LateHeartbeat, LateType
    <3> QED BY <2>1, <3>1, GiveUpType DEF Abandon
  <2>2. CASE hb[w].st # "sent" /\ al[w].st = "claim"
    <3>1. LateClaim(pending[w]) \in LateType
      BY <2>2 DEF Typed, None, LateClaim, LateType
    <3> QED BY <2>2, <3>1, GiveUpType DEF Abandon
  <2>3. CASE hb[w].st # "sent" /\ al[w].st # "claim"
    BY <2>3 DEF Typed, Abandon
  <2> QED BY <2>1, <2>2, <2>3
<1>3. /\ mode' \in [Workers -> {"up", "draining", "stopped", "gone", "failed", "dead"}]
      /\ Live' = Live \ {w}
  BY <1>1 DEF Typed, Live
<1>4. /\ \A v \in Workers \ {w} : active'[v] = active[v] /\ hb'[v] = hb[v] /\ al'[v] = al[v]
                                  /\ retired'[v] = retired[v] /\ pending'[v] = pending[v]
                                  /\ tasks'[v] = tasks[v]
      /\ DOMAIN active' = Workers /\ DOMAIN (active'[w]) = {} /\ hb'[w] = None /\ al'[w] = None
      /\ tasks'[w] = {}
  BY <1>1 DEF Typed, ActiveTyped
<1>5. Typed'
  <2>1. RowsTyped' /\ ActiveTyped'
    BY <1>1, <1>4 DEF Typed, RowsTyped, ActiveTyped
  <2>2. /\ hb' \in [Workers -> {None} \cup HeartbeatType] /\ al' \in [Workers -> {None} \cup AllocationType]
        /\ pending' \in [Workers -> {NoClaim} \cup ClaimType]
        /\ tasks' \in [Workers -> SUBSET Leases] /\ retired' \in [Workers -> SUBSET Leases]
    BY <1>1 DEF Typed
  <2>3. \A v \in Workers : al'[v] # None => pending'[v] # NoClaim
    BY <1>4 DEF Typed
  <2>4. \A v \in Workers \ Live' : DOMAIN (active'[v]) = {} /\ hb'[v] = None /\ al'[v] = None
    BY <1>3, <1>4 DEF Typed
  <2> QED BY <1>1, <1>2, <1>3, <2>1, <2>2, <2>3, <2>4 DEF Typed
<1>6. DeadlinesAreEarly'
  <2> SUFFICES ASSUME NEW v \in Workers
               PROVE  /\ \A r \in DOMAIN (active'[v]) :
                            \/ <<r, active'[v][r].epoch>> \in released
                            \/ Held(v, <<r, active'[v][r].epoch>>, active'[v][r].left + Margin)
                      /\ hb'[v].st = "replied" => Worth(v, hb'[v].renewed, hb'[v].age)
                      /\ al'[v].st = "replied" => Worth(v, al'[v].renewed, al'[v].age)
    BY <1>1 DEF DeadlinesAreEarly, Worth, Held
  <2> QED BY <1>4 DEF DeadlinesAreEarly, None
<1>7. \A v \in Workers : Listing(v)' = Listing(v)
  BY <1>1 DEF Listing
<1>8. Items(w)' = {} /\ \A v \in Workers \ {w} : Items(v)' = Items(v)
  BY <1>4 DEF Items, None
<1>9. Once'
  <2>1. ASSUME NEW v \in Live \ {w}, NEW l \in Leases, begun[l] > 0 PROVE OutOfReach(v, l)'
    <3>1. v \in Workers \ {w} /\ OutOfReach(v, l)
      BY <2>1 DEF Once, Live
    <3>2. ActiveLeases(v)' = ActiveLeases(v)
      BY <1>4, <3>1 DEF ActiveLeases
    <3> QED BY <1>4, <1>7, <1>8, <3>1, <3>2 DEF OutOfReach
  <2>2. ASSUME NEW v \in Workers, NEW l \in tasks'[v] PROVE begun[l] > 0
    BY <1>4 DEF Once
  <2> QED BY <1>1, <1>3, <2>1, <2>2 DEF Once
<1>10. Listings'
  <2> SUFFICES ASSUME NEW v \in Workers
               PROVE  /\ \A l \in Items(v)' :
                            /\ l[2] <= lease[l[1]].epoch
                            /\ l[2] = lease[l[1]].epoch => lease[l[1]].owner \in {v, "nobody"}
                      /\ \A l, n \in Items(v)' : l[1] = n[1] => l = n
                      /\ al'[v].st \in {"renew", "replied"} =>
                            \A l \in Listing(v) : begun[l] > 0 => l \in al'[v].items
    BY <1>1, <1>7 DEF Listings
  <2> QED BY <1>4, <1>8 DEF Listings, None
<1> QED BY <1>5, <1>6, <1>9, <1>10

\* A request that ages.
LEMMA AgedRequest ==
    ASSUME NEW request, request.age \in 0..LeaseTime - Margin,
           request \in HeartbeatType \/ request \in AllocationType, request.st # "offline"
    PROVE  /\ request \in HeartbeatType => Aged(request) \in HeartbeatType
           /\ request \in AllocationType => Aged(request) \in AllocationType
           /\ Aged(request).age = IF request.age < LeaseTime - Margin THEN request.age + 1
                                  ELSE LeaseTime - Margin
           /\ Aged(request).st = request.st /\ Aged(request).renewed = request.renewed
           /\ request \in AllocationType => Aged(request).items = request.items
<1> DEFINE age == IF request.age < LeaseTime - Margin THEN request.age + 1 ELSE LeaseTime - Margin
<1>1. Min({request.age + 1, LeaseTime - Margin}) = age
  BY MinOfTwo, LeaseAssumption
<1>2. age \in 0..LeaseTime - Margin
  BY LeaseAssumption
<1>3. request.st # "none"
  BY DEF HeartbeatType, AllocationType
<1>4. Aged(request) = [request EXCEPT !.age = age]
  BY <1>1, <1>3 DEF Aged
<1> HIDE DEF age
<1>5. CASE request \in HeartbeatType
  <2>1. /\ Aged(request) \in HeartbeatType /\ Aged(request).age = age
        /\ Aged(request).st = request.st /\ Aged(request).renewed = request.renewed
    BY <1>2, <1>4, <1>5 DEF HeartbeatType
  <2>2. request \notin AllocationType
    BY <1>5, <1>4 DEF HeartbeatType, AllocationType
  <2> QED BY <2>1, <2>2 DEF age
<1>6. CASE request \in AllocationType
  <2>1. /\ Aged(request) \in AllocationType /\ Aged(request).age = age
        /\ Aged(request).st = request.st /\ Aged(request).renewed = request.renewed
        /\ Aged(request).items = request.items
    BY <1>2, <1>4, <1>6 DEF AllocationType
  <2>2. request \notin HeartbeatType
    BY <1>6 DEF HeartbeatType, AllocationType
  <2> QED BY <2>1, <2>2 DEF age
<1> QED BY <1>5, <1>6

LEMMA AgedWorth ==
    ASSUME Inv, Tick, NEW w \in Workers, NEW renewed \in SUBSET Notice,
           NEW age \in 0..LeaseTime - Margin, Worth(w, renewed, age), NEW older \in Nat,
           older = IF age < LeaseTime - Margin THEN age + 1 ELSE LeaseTime - Margin
    PROVE  \A n \in renewed :
              \/ n.l \in released'
              \/ older >= LeaseTime - Margin
              \/ /\ lease'[n.l[1]].state = "running" /\ lease'[n.l[1]].owner = w
                 /\ lease'[n.l[1]].epoch = n.l[2] /\ lease'[n.l[1]].ttl >= LeaseTime - older
<1> SUFFICES ASSUME NEW n \in renewed, n.l \notin released, older < LeaseTime - Margin
             PROVE  /\ lease'[n.l[1]].state = "running" /\ lease'[n.l[1]].owner = w
                    /\ lease'[n.l[1]].epoch = n.l[2] /\ lease'[n.l[1]].ttl >= LeaseTime - older
  BY LeaseAssumption DEF Tick
<1>1. n.l[1] \in Runs
  BY DEF Notice, Leases
<1>2. lease[n.l[1]] \in RowType /\ lease[n.l[1]].ttl \in Nat
  BY <1>1, LeaseAssumption DEF Inv, Typed, RowsTyped, RowType
<1>3. older = age + 1 /\ age \in Nat /\ ~(age >= LeaseTime - Margin)
  BY LeaseAssumption
<1>4. Held(w, n.l, LeaseTime - age)
  BY <1>3 DEF Worth
<1>5. lease'[n.l[1]] = [lease[n.l[1]] EXCEPT !.ttl = Down(lease[n.l[1]].ttl)]
  BY <1>1 DEF Tick
<1>6. /\ lease'[n.l[1]].state = lease[n.l[1]].state /\ lease'[n.l[1]].owner = lease[n.l[1]].owner
      /\ lease'[n.l[1]].epoch = lease[n.l[1]].epoch /\ lease'[n.l[1]].ttl = Down(lease[n.l[1]].ttl)
  BY <1>2, <1>5 DEF RowType
<1>7. Down(lease[n.l[1]].ttl) >= LeaseTime - older
  BY <1>2, <1>3, <1>4, LeaseAssumption DEF Held, Down
<1> QED BY <1>4, <1>6, <1>7 DEF Held

LEMMA TickInv == ASSUME Inv, Tick PROVE Inv'
<1> USE DEF Inv
<1>1. UNCHANGED <<status, used, mode, drain, tasks, retired, pending, late, released, begun>> /\ Live' = Live
  BY DEF Tick, Live
<1>2. ASSUME NEW r \in Runs
      PROVE  /\ lease[r].ttl \in Nat /\ lease'[r] \in RowType
             /\ lease'[r].state = lease[r].state /\ lease'[r].owner = lease[r].owner
             /\ lease'[r].epoch = lease[r].epoch /\ lease'[r].abort = lease[r].abort
             /\ lease'[r].ttl = Down(lease[r].ttl)
  <2>1. lease[r] \in RowType
    BY DEF Typed, RowsTyped
  <2>2. lease[r].ttl \in 0..LeaseTime
    BY <2>1 DEF RowType
  <2>3. lease[r].ttl \in Nat /\ Down(lease[r].ttl) \in 0..LeaseTime
    BY <2>2, LeaseAssumption DEF Down
  <2>4. lease'[r] = [lease[r] EXCEPT !.ttl = Down(lease[r].ttl)]
    BY DEF Tick
  <2> QED BY <2>1, <2>3, <2>4 DEF RowType
<1>3. RowsTyped'
  <2>1. lease' \in [Runs -> RowType]
    BY <1>2 DEF Tick
  <2> QED BY <1>2, <2>1 DEF Typed, RowsTyped
<1>4. ASSUME NEW w \in Workers, NEW r \in DOMAIN active[w]
      PROVE  /\ active'[w][r] \in Entry /\ active'[w][r].epoch = active[w][r].epoch
             /\ active[w][r].left \in Nat \ {0} /\ active'[w][r].left = active[w][r].left - 1
  <2>1. active[w][r] \in Entry /\ w \in Live
    BY DEF Typed, ActiveTyped
  <2>2. active[w][r].left \in 0..LeaseTime - Margin /\ active[w][r].left > 0
    BY <2>1 DEF Entry, Tick
  <2>3. Down(active[w][r].left) = active[w][r].left - 1 /\ active[w][r].left - 1 \in 0..LeaseTime - Margin
        /\ active[w][r].left \in Nat \ {0}
    BY <2>2, LeaseAssumption DEF Down
  <2>4. active'[w][r] = [active[w][r] EXCEPT !.left = active[w][r].left - 1]
    BY <2>3 DEF Tick
  <2> QED BY <2>1, <2>3, <2>4 DEF Entry
<1>5. DOMAIN active' = Workers /\ \A w \in Workers : DOMAIN (active'[w]) = DOMAIN active[w]
  BY DEF Tick
<1>6. ActiveTyped'
  BY <1>4, <1>5 DEF Typed, ActiveTyped
<1>7. ASSUME NEW w \in Workers
      PROVE  \/ hb'[w] = hb[w] /\ hb[w].st # "replied"
             \/ /\ hb[w] \in HeartbeatType /\ hb'[w] \in HeartbeatType
                /\ hb'[w].st = hb[w].st /\ hb'[w].renewed = hb[w].renewed
                /\ hb'[w].age = IF hb[w].age < LeaseTime - Margin THEN hb[w].age + 1
                                ELSE LeaseTime - Margin
  <2>1. hb'[w] = Aged(hb[w]) /\ hb[w] \in {None} \cup HeartbeatType
    BY DEF Tick, Typed
  <2>2. CASE hb[w].st \in {"none", "offline"}
    BY <2>1, <2>2 DEF Aged
  <2>3. CASE hb[w].st \notin {"none", "offline"}
    <3>1. hb[w] \in HeartbeatType /\ hb[w].age \in 0..LeaseTime - Margin /\ hb[w].st # "offline"
      BY <2>1, <2>3 DEF None, HeartbeatType
    <3> QED BY <2>1, <3>1, AgedRequest
  <2> QED BY <2>2, <2>3
<1>8. ASSUME NEW w \in Workers
      PROVE  \/ al'[w] = al[w] /\ al[w].st # "replied"
             \/ /\ al[w] \in AllocationType /\ al'[w] \in AllocationType
                /\ al'[w].st = al[w].st /\ al'[w].renewed = al[w].renewed /\ al'[w].items = al[w].items
                /\ al'[w].age = IF al[w].age < LeaseTime - Margin THEN al[w].age + 1
                                ELSE LeaseTime - Margin
  <2>1. al'[w] = Aged(al[w]) /\ al[w] \in {None} \cup AllocationType
    BY DEF Tick, Typed
  <2>2. CASE al[w].st \in {"none", "offline"}
    BY <2>1, <2>2 DEF Aged
  <2>3. CASE al[w].st \notin {"none", "offline"}
    <3>1. al[w] \in AllocationType /\ al[w].age \in 0..LeaseTime - Margin /\ al[w].st # "offline"
      BY <2>1, <2>3 DEF None, AllocationType
    <3> QED BY <2>1, <3>1, AgedRequest
  <2> QED BY <2>2, <2>3
<1>9. /\ hb' \in [Workers -> {None} \cup HeartbeatType]
      /\ al' \in [Workers -> {None} \cup AllocationType]
  BY <1>7, <1>8 DEF Tick, Typed
<1>10. Typed'
  <2>1. \A w \in Workers \ Live : DOMAIN (active'[w]) = {} /\ hb'[w] = None /\ al'[w] = None
    BY <1>5 DEF Typed, Tick, Aged, None
  <2>2. \A w \in Workers : al'[w] # None => pending[w] # NoClaim
    <3> SUFFICES ASSUME NEW w \in Workers, al[w] = None PROVE al'[w] = None
      BY DEF Typed
    <3> QED BY DEF Tick, Aged, None
  <2> QED BY <1>1, <1>3, <1>6, <1>9, <2>1, <2>2 DEF Typed
<1>11. DeadlinesAreEarly'
  <2>1. ASSUME NEW w \in Workers, NEW r \in DOMAIN (active'[w])
        PROVE  \/ <<r, active'[w][r].epoch>> \in released'
               \/ Held(w, <<r, active[w][r].epoch>>, active[w][r].left + Margin)'
    <3>1. r \in DOMAIN active[w] /\ r \in Runs
      BY <1>5 DEF Typed, ActiveTyped
    <3>2. CASE <<r, active[w][r].epoch>> \in released
      BY <1>1, <1>4, <3>1, <3>2
    <3>3. CASE Held(w, <<r, active[w][r].epoch>>, active[w][r].left + Margin)
      <4>1. /\ lease[r].state = "running" /\ lease[r].owner = w
            /\ lease[r].epoch = active[w][r].epoch /\ lease[r].ttl >= active[w][r].left + Margin
        BY <3>3 DEF Held
      <4>2. active'[w][r].left \in Nat /\ Down(lease[r].ttl) >= active'[w][r].left + Margin
        BY <1>2, <1>4, <3>1, <4>1, LeaseAssumption DEF Down
      <4> QED BY <1>2, <1>4, <3>1, <4>1, <4>2 DEF Held
    <3> QED BY <3>1, <3>2, <3>3 DEF DeadlinesAreEarly
  <2>2. ASSUME NEW w \in Workers, hb'[w].st = "replied" PROVE Worth(w, hb[w].renewed, hb[w].age)'
    <3>1. /\ hb[w] \in HeartbeatType /\ hb[w].st = "replied" /\ hb'[w].renewed = hb[w].renewed
          /\ hb'[w].age = IF hb[w].age < LeaseTime - Margin THEN hb[w].age + 1 ELSE LeaseTime - Margin
      BY <1>7, <2>2
    <3>2. /\ hb[w].renewed \in SUBSET Notice /\ hb[w].age \in 0..LeaseTime - Margin
          /\ hb'[w].age \in Nat /\ Worth(w, hb[w].renewed, hb[w].age)
      BY <3>1, LeaseAssumption DEF HeartbeatType, DeadlinesAreEarly
    <3> DEFINE renewed == hb[w].renewed
               age     == hb[w].age
               older   == hb'[w].age
    <3>3. \A n \in renewed :
             \/ n.l \in released'
             \/ older >= LeaseTime - Margin
             \/ /\ lease'[n.l[1]].state = "running" /\ lease'[n.l[1]].owner = w
                /\ lease'[n.l[1]].epoch = n.l[2] /\ lease'[n.l[1]].ttl >= LeaseTime - older
      <4>1. /\ renewed \in SUBSET Notice /\ age \in 0..LeaseTime - Margin /\ older \in Nat
            /\ Worth(w, renewed, age)
            /\ older = IF age < LeaseTime - Margin THEN age + 1 ELSE LeaseTime - Margin
        BY <3>1, <3>2
      <4> HIDE DEF renewed, age, older
      <4> QED BY <4>1, AgedWorth
    <3> QED BY <3>1, <3>3 DEF Worth, Held
  <2>3. ASSUME NEW w \in Workers, al'[w].st = "replied" PROVE Worth(w, al[w].renewed, al[w].age)'
    <3>1. /\ al[w] \in AllocationType /\ al[w].st = "replied" /\ al'[w].renewed = al[w].renewed
          /\ al'[w].age = IF al[w].age < LeaseTime - Margin THEN al[w].age + 1 ELSE LeaseTime - Margin
      BY <1>8, <2>3
    <3>2. /\ al[w].renewed \in SUBSET Notice /\ al[w].age \in 0..LeaseTime - Margin
          /\ al'[w].age \in Nat /\ Worth(w, al[w].renewed, al[w].age)
      BY <3>1, LeaseAssumption DEF AllocationType, DeadlinesAreEarly
    <3> DEFINE renewed == al[w].renewed
               age     == al[w].age
               older   == al'[w].age
    <3>3. \A n \in renewed :
             \/ n.l \in released'
             \/ older >= LeaseTime - Margin
             \/ /\ lease'[n.l[1]].state = "running" /\ lease'[n.l[1]].owner = w
                /\ lease'[n.l[1]].epoch = n.l[2] /\ lease'[n.l[1]].ttl >= LeaseTime - older
      <4>1. /\ renewed \in SUBSET Notice /\ age \in 0..LeaseTime - Margin /\ older \in Nat
            /\ Worth(w, renewed, age)
            /\ older = IF age < LeaseTime - Margin THEN age + 1 ELSE LeaseTime - Margin
        BY <3>1, <3>2
      <4> HIDE DEF renewed, age, older
      <4> QED BY <4>1, AgedWorth
    <3> QED BY <3>1, <3>3 DEF Worth, Held
  <2> QED BY <2>1, <2>2, <2>3 DEF DeadlinesAreEarly
<1>12. \A w \in Workers : Listing(w)' \subseteq Listing(w)
  <2> SUFFICES ASSUME NEW w \in Workers, NEW l \in Listing(w)' PROVE l \in Listing(w)
    OBVIOUS
  <2>1. PICK r \in Runs : /\ l = <<r, lease'[r].epoch>> /\ lease'[r].state = "running"
                          /\ lease'[r].owner = w /\ lease'[r].ttl > 0
    BY DEF Listing
  <2>2. lease[r].ttl > 0
    BY <1>2, <2>1 DEF Down
  <2> QED BY <1>2, <2>1, <2>2 DEF Listing
<1>13. \A w \in Workers : Items(w)' = Items(w)
  BY <1>8 DEF Items
<1>14. Once'
  <2>1. ASSUME NEW w \in Live, NEW l \in Leases, begun[l] > 0 PROVE OutOfReach(w, l)'
    <3>1. w \in Workers /\ OutOfReach(w, l)
      BY <2>1 DEF Once, Live
    <3>2. ActiveLeases(w)' = ActiveLeases(w)
      BY <1>4, <1>5, <3>1 DEF ActiveLeases
    <3> QED BY <1>1, <1>12, <1>13, <3>1, <3>2 DEF OutOfReach
  <2>2. \A l \in Leases : lease'[l[1]].epoch = lease[l[1]].epoch
    BY <1>2 DEF Leases
  <2> QED BY <1>1, <2>1, <2>2 DEF Once
<1>15. Listings'
  <2> SUFFICES ASSUME NEW w \in Workers
               PROVE  /\ \A l \in Items(w) :
                            /\ l[2] <= lease'[l[1]].epoch
                            /\ l[2] = lease'[l[1]].epoch => lease'[l[1]].owner \in {w, "nobody"}
                      /\ \A l, m \in Items(w) : l[1] = m[1] => l = m
                      /\ al'[w].st \in {"renew", "replied"} =>
                            \A l \in Listing(w)' : begun[l] > 0 => l \in al'[w].items
    BY <1>1, <1>13 DEF Listings
  <2>1. \A l \in Items(w) : l[1] \in Runs
    BY DEF Items, Typed, AllocationType, None, Leases
  <2>2. al'[w].st \in {"renew", "replied"} =>
           al[w].st \in {"renew", "replied"} /\ al'[w].items = al[w].items
    BY <1>8
  <2> QED BY <1>2, <1>12, <2>1, <2>2 DEF Listings
<1> QED BY <1>10, <1>11, <1>14, <1>15

-----------------------------------------------------------------------------
(* Every step. *)

LEMMA StutterInv == ASSUME Inv, UNCHANGED vars PROVE Inv'
<1>1. RowsTyped' /\ \A r \in Runs : KeepsLease(r) /\ MovesOn(r)
  BY SameRows DEF Inv, vars
<1>2. Live' = Live
  BY DEF Live, vars
<1>3. Typed'
  BY <1>1, <1>2 DEF Inv, Typed, ActiveTyped, vars
<1> QED BY <1>1, <1>2, <1>3, QuietStep DEF Inv, Once, vars

LEMMA NextInv == ASSUME Inv, Next PROVE Inv'
<1>1. ASSUME NEW w \in Workers,
             \/ Sweep(w) \/ ServeLateHeartbeat(w) \/ ServeLateClaim(w) \/ HeartbeatSend(w)
             \/ HeartbeatServe(w) \/ HeartbeatFails(w) \/ HeartbeatReply(w) \/ AllocationStart(w)
             \/ AllocationList(w) \/ AllocationClaim(w) \/ AllocationList2(w) \/ AllocationRenew(w)
             \/ AllocationFails(w) \/ AllocationReply(w) \/ BeginDrain(w)
      PROVE  Inv'
  BY <1>1, SweepInv, ServeLateHeartbeatInv, ServeLateClaimInv, HeartbeatSendInv, HeartbeatServeInv,
     HeartbeatFailsInv, HeartbeatReplyInv, AllocationStartInv, AllocationListInv, AllocationClaimInv,
     AllocationList2Inv, AllocationRenewInv, AllocationFailsInv, AllocationReplyInv, BeginDrainInv
<1>2. ASSUME NEW w \in Workers,
             DrainEnds(w) \/ Stop(w) \/ GoOffline(w) \/ Fail(w) \/ Crash(w) \/ ReconcileWorker(w)
      PROVE  Inv'
  BY <1>2, StatusInv, AbandonInv DEF Stop, Fail, Crash
<1>3. ASSUME NEW w \in Workers, NEW l \in Leases, Release(w, l) \/ TaskEnds(w, l) PROVE Inv'
  BY <1>3, ReleaseInv, TaskEndsInv
<1>4. ASSUME NEW r \in Runs, AbortRequest(r) \/ RivalClaim(r) \/ RivalActs(r) PROVE Inv'
  BY <1>4, AbortRequestInv, RivalClaimInv, RivalActsInv
<1> QED BY <1>1, <1>2, <1>3, <1>4, TickInv DEF Next

\* The inductive invariant holds throughout.
THEOREM WorkerInvariance == Spec => []Inv
<1>1. Inv /\ [Next]_vars => Inv'
  BY NextInv, StutterInv
<1> QED BY InitInv, <1>1, PTL DEF Spec

\* The state of supervisors and server is what TypeOK says, and no local deadline is
\* ever further away than a lease less its margin (supervisor.rs `deadline`).
THEOREM WorkerTypesCorrect == Spec => []TypeOK
<1>1. Inv => TypeOK
  <2> SUFFICES ASSUME Inv PROVE TypeOK
    OBVIOUS
  <2>1. ASSUME NEW w \in Workers
        PROVE  /\ hb[w] # None /\ hb[w].st = "replied" => hb[w].renewed \subseteq Notice
               /\ pending[w] \in [key : {0} \cup Keys, limit : 0..Capacity]
    <3>1. NoClaim \in [key : {0} \cup Keys, limit : 0..Capacity]
      BY CapacityAssumption DEF NoClaim
    <3> QED BY <3>1 DEF Inv, Typed, HeartbeatType, ClaimType
  <2> QED BY <2>1 DEF Inv, Typed, RowsTyped, RowType, ActiveTyped, Entry, TypeOK
<1> QED BY <1>1, WorkerInvariance, PTL

\* For every number of workers and runs, whatever requests are lost, repeated or
\* served after their sender gave them up: an execution the supervisor lets run holds
\* an unexpired lease unless its harness gave the run back, and one lease is activated
\* at most once (supervisor.rs of the worker, workers.rs of the runtime).
THEOREM LateRequestsStayHarmless == Spec => []LateRequestsAreHarmless
<1>1. Inv => LateRequestsAreHarmless
  <2> SUFFICES ASSUME Inv PROVE LateRequestsAreHarmless
    OBVIOUS
  <2>1. NeverActivatedTwice
    BY DEF Inv, Once, NeverActivatedTwice
  <2>2. ASSUME NEW w \in Workers, NEW l \in ActiveLeases(w), l \notin released
        PROVE  l \in Listing(w)
    <3>1. PICK r \in DOMAIN active[w] : l = <<r, active[w][r].epoch>>
      BY DEF ActiveLeases
    <3>2. l \in Leases /\ active[w][r].left + Margin \in Nat \ {0}
      BY <3>1, InActive, LeaseAssumption DEF Inv, Typed, ActiveTyped, Entry
    <3>3. Held(w, l, active[w][r].left + Margin)
      BY <2>2, <3>1 DEF Inv, DeadlinesAreEarly
    <3> QED BY <3>2, <3>3, HeldIsListed DEF Inv
  <2> QED BY <2>1, <2>2 DEF LateRequestsAreHarmless, HeldWhileActive
<1> QED BY <1>1, WorkerInvariance, PTL

-----------------------------------------------------------------------------
(* A worker that is offline has no lease: nothing gives it one.              *)

OfflineHoldsNothing == \A w \in Workers : status[w] = "offline" => Listing(w) = {}

\* Worker w gets no lease it had not.
GetsNothing(w) ==
    \A r \in Runs :
        lease'[r].state = "running" /\ lease'[r].owner = w /\ lease'[r].ttl > 0 =>
            lease[r].state = "running" /\ lease[r].owner = w /\ lease[r].ttl > 0

LEMMA NothingGained ==
    ASSUME NEW w \in Workers, GetsNothing(w), Listing(w) = {} PROVE Listing(w)' = {}
<1>1. \A r \in Runs : ~(lease[r].state = "running" /\ lease[r].owner = w /\ lease[r].ttl > 0)
  BY DEF Listing
<1> QED BY <1>1 DEF Listing, GetsNothing

LEMMA RenewGivesNothing ==
    ASSUME Typed, NEW v \in Workers, NEW leases, Renew(v, leases), NEW w \in Workers
    PROVE  GetsNothing(w)
<1> SUFFICES ASSUME NEW r \in Runs, lease'[r].state = "running", lease'[r].owner = w, lease'[r].ttl > 0
             PROVE  lease[r].state = "running" /\ lease[r].owner = w /\ lease[r].ttl > 0
  BY DEF GetsNothing
<1>1. lease[r] \in RowType
  BY DEF Typed, RowsTyped
<1>2. CASE <<r, lease[r].epoch>> \in leases \cap Listing(v)
  <2> DEFINE l == <<r, lease[r].epoch>>
  <2>1. l[1] = r /\ l \in Listing(v)
    BY <1>2
  <2>2. lease[r].ttl > 0
    BY <2>1, InListing
  <2>3. lease'[r] = [lease[r] EXCEPT !.ttl = LeaseTime]
    BY <1>2 DEF Renew
  <2> QED BY <1>1, <2>2, <2>3 DEF RowType
<1>3. CASE <<r, lease[r].epoch>> \notin leases \cap Listing(v)
  BY <1>3 DEF Renew
<1> QED BY <1>2, <1>3

\* A claim gives leases to a worker that is accepting, and to it alone.
LEMMA ClaimGivesNothing ==
    ASSUME Typed, NEW v \in Workers, NEW claim, ~RefusedClaim(v, claim), ClaimRuns(v, claim),
           NEW w \in Workers, status[w] = "offline"
    PROVE  GetsNothing(w)
<1>1. CASE claim.key \in used[v]
  BY <1>1 DEF ClaimRuns, GetsNothing
<1>2. CASE claim.key \notin used[v]
  <2>1. w # v
    BY <1>2 DEF RefusedClaim
  <2>2. PICK S : lease' = [r \in Runs |->
                   IF r \in S
                   THEN [lease[r] EXCEPT !.state = "running", !.owner = v,
                                         !.epoch = @ + 1, !.ttl = LeaseTime]
                   ELSE lease[r]]
    BY <1>2 DEF ClaimRuns
  <2>3. ASSUME NEW r \in S \cap Runs PROVE lease'[r].owner = v
    <3>1. lease[r] \in RowType
      BY DEF Typed, RowsTyped
    <3> QED BY <2>2, <3>1 DEF RowType
  <2>4. \A r \in Runs \ S : lease'[r] = lease[r]
    BY <2>2
  <2> QED BY <2>1, <2>3, <2>4 DEF GetsNothing
<1> QED BY <1>1, <1>2

LEMMA RowGivesNothing ==
    ASSUME Typed, NEW w \in Workers, NEW r \in Runs, \A q \in Runs \ {r} : lease'[q] = lease[q],
           \/ lease'[r].owner # w
           \/ lease'[r].owner = lease[r].owner /\ lease'[r].ttl = lease[r].ttl
              /\ lease'[r].state \in {"done", lease[r].state}
    PROVE  GetsNothing(w)
  BY DEF GetsNothing

LEMMA OfflineNext ==
    ASSUME Inv, OfflineHoldsNothing, [Next]_vars PROVE OfflineHoldsNothing'
<1> USE DEF Inv
<1> SUFFICES ASSUME NEW w \in Workers, status'[w] = "offline" PROVE Listing(w)' = {}
  BY DEF OfflineHoldsNothing
<1>0. \A r \in Runs : lease[r] \in RowType
  BY DEF Typed, RowsTyped
<1>1. ASSUME status'[w] = status[w], GetsNothing(w) PROVE Listing(w)' = {}
  BY <1>1, NothingGained DEF OfflineHoldsNothing
<1>2. CASE UNCHANGED <<lease, status>>
  BY <1>1, <1>2 DEF GetsNothing
<1>3. ASSUME NEW v \in Workers, DrainEnds(v) \/ GoOffline(v) \/ ReconcileWorker(v)
      PROVE  Listing(w)' = {}
  <2>1. lease' = lease
    BY <1>3 DEF DrainEnds, GoOffline, ReconcileWorker
  <2>2. Listing(w)' = Listing(w)
    BY <2>1 DEF Listing
  <2>3. status[w] = "offline" \/ Listing(w) = {}
    BY <1>3 DEF Typed, DrainEnds, GoOffline, ReconcileWorker
  <2> QED BY <2>2, <2>3 DEF OfflineHoldsNothing
<1>4. ASSUME NEW v \in Workers,
             ServeLateHeartbeat(v) \/ HeartbeatServe(v) \/ AllocationRenew(v)
      PROVE  Listing(w)' = {}
  <2>1. status' = status
    BY <1>4 DEF ServeLateHeartbeat, HeartbeatServe, AllocationRenew
  <2>2. lease' = lease \/ \E leases : Renew(v, leases)
    BY <1>4 DEF ServeLateHeartbeat, HeartbeatServe, AllocationRenew
  <2> QED BY <1>1, <1>2, <2>1, <2>2, RenewGivesNothing
<1>5. ASSUME NEW v \in Workers, ServeLateClaim(v) \/ AllocationClaim(v) PROVE Listing(w)' = {}
  <2>1. status' = status
    BY <1>5 DEF ServeLateClaim, AllocationClaim
  <2>2. lease' = lease \/ \E claim : ~RefusedClaim(v, claim) /\ ClaimRuns(v, claim)
    BY <1>5 DEF ServeLateClaim, AllocationClaim
  <2> QED BY <1>1, <1>2, <2>1, <2>2, ClaimGivesNothing
<1>6. ASSUME NEW v \in Workers, NEW l \in Leases, Release(v, l) PROVE Listing(w)' = {}
  <2>1. l[1] \in Runs /\ status' = status
    BY <1>6 DEF Release, Leases
  <2>2. lease[l[1]] \in RowType
    BY <1>0, <2>1
  <2>3. lease'[l[1]].owner = "nobody" /\ \A q \in Runs \ {l[1]} : lease'[q] = lease[q]
    BY <1>6, <2>1, <2>2 DEF Typed, RowsTyped, RowType, Release
  <2> QED BY <1>1, <2>1, <2>3, OwnersAssumption, RowGivesNothing
<1>7. ASSUME NEW r \in Runs, AbortRequest(r) PROVE Listing(w)' = {}
  <2>1. status' = status /\ lease[r] \in RowType
    BY <1>0, <1>7 DEF AbortRequest
  <2>2. /\ lease'[r].owner = lease[r].owner /\ lease'[r].ttl = lease[r].ttl
        /\ lease'[r].state \in {"done", lease[r].state}
        /\ \A q \in Runs \ {r} : lease'[q] = lease[q]
    BY <1>7, <2>1 DEF Typed, RowsTyped, RowType, AbortRequest
  <2> QED BY <1>1, <2>1, <2>2, RowGivesNothing
<1>8. ASSUME NEW r \in Runs, RivalClaim(r) \/ RivalActs(r) PROVE Listing(w)' = {}
  <2>1. status' = status /\ lease[r] \in RowType
    BY <1>0, <1>8 DEF RivalClaim, RivalActs
  <2>2. /\ lease'[r].owner \in {"rival", "nobody"}
        /\ \A q \in Runs \ {r} : lease'[q] = lease[q]
    BY <1>8, <2>1 DEF Typed, RowsTyped, RowType, RivalClaim, RivalActs
  <2> QED BY <1>1, <2>1, <2>2, OwnersAssumption, RowGivesNothing
<1>9. CASE Tick
  <2>1. status' = status
    BY <1>9 DEF Tick
  <2>2. ASSUME NEW r \in Runs
        PROVE  /\ lease'[r].state = lease[r].state /\ lease'[r].owner = lease[r].owner
               /\ lease'[r].ttl = Down(lease[r].ttl)
    BY <1>0, <1>9 DEF Tick, RowType
  <2>3. \A r \in Runs : Down(lease[r].ttl) > 0 => lease[r].ttl > 0
    BY DEF Down
  <2>4. GetsNothing(w)
    BY <2>2, <2>3 DEF GetsNothing
  <2> QED BY <1>1, <2>1, <2>4
<1>10. ASSUME NEW v \in Workers,
              \/ Sweep(v) \/ HeartbeatSend(v) \/ HeartbeatFails(v) \/ HeartbeatReply(v)
              \/ AllocationStart(v) \/ AllocationList(v) \/ AllocationList2(v) \/ AllocationFails(v)
              \/ AllocationReply(v) \/ BeginDrain(v) \/ Stop(v) \/ Fail(v) \/ Crash(v)
              \/ \E l \in Leases : TaskEnds(v, l)
       PROVE  UNCHANGED <<lease, status>>
  BY <1>10 DEF Sweep, HeartbeatSend, HeartbeatFails, HeartbeatReply, AllocationStart, AllocationList,
               AllocationList2, AllocationFails, AllocationReply, BeginDrain, Stop, Fail, Crash,
               TaskEnds, server
<1>11. CASE UNCHANGED vars
  BY <1>2, <1>11 DEF vars
<1> QED BY <1>2, <1>3, <1>4, <1>5, <1>6, <1>7, <1>8, <1>9, <1>10, <1>11 DEF Next

\* A worker that the server has taken offline executes nothing it has not given back:
\* drain_complete and reconcile_workers wait for its leases, a claim of it is refused,
\* and the local deadline always comes before the lease's end (workers.rs, supervisor.rs).
THEOREM OfflineWorkersAreIdle == Spec => []OfflineIsIdle
<1>1. Init => OfflineHoldsNothing
  BY DEF Init, OfflineHoldsNothing
<1>2. Inv /\ OfflineHoldsNothing /\ [Next]_vars => OfflineHoldsNothing'
  BY OfflineNext
<1>3. LateRequestsAreHarmless /\ OfflineHoldsNothing => OfflineIsIdle
  BY DEF LateRequestsAreHarmless, HeldWhileActive, OfflineHoldsNothing, OfflineIsIdle
<1> QED BY <1>1, <1>2, <1>3, WorkerInvariance, LateRequestsStayHarmless, PTL DEF Spec
=============================================================================
