---------------------------- MODULE ListingProofs ----------------------------
(***************************************************************************)
(* The invariants of AccountListing hold for any number of accounts and    *)
(* status calls.  They rest on one that follows each listing from the host *)
(* into the cache and out again: what a call brings from the host is at    *)
(* least as new as what the cache holds, because no other call is there.   *)
(***************************************************************************)
EXTENDS AccountListing, TLAPS

\* What each call in progress carries.
CallInOrder(c) ==
    /\ status[c].listing <= Len(listings)
    /\ status[c].pc # "idle" => status[c].floor <= shown
    /\ status[c].pc = "asked" /\ status[c].listing # None => byHash <= status[c].listing
    /\ status[c].pc = "view" => /\ status[c].floor <= status[c].listing
                                /\ status[c].listing <= byHash
                                /\ status[c].resolved => status[c].listing # None

InOrder == /\ shown <= byHash
           /\ fetchedAt # 0 => byHash # None
           /\ \A c \in Clients : CallInOrder(c)

IInv == TypeOK /\ OneListingInFlight /\ InOrder

LEMMA CallFields ==
    ASSUME TypeOK, NEW c \in Clients
    PROVE  /\ status[c] \in Calls
           /\ status[c].pc \in {"idle", "lookup", "asking", "asked", "view"}
           /\ status[c].listing \in Nat
           /\ status[c].floor \in Nat
           /\ status[c].resolved \in BOOLEAN
           /\ status[c].rows \in SUBSET Accounts
BY DEF TypeOK, Calls

LEMMA ListingNumbers ==
    ASSUME TypeOK
    PROVE  /\ Len(listings) \in Nat /\ Len(listings) > 0
           /\ byHash \in Nat /\ shown \in Nat /\ byHash <= Len(listings)
           /\ now \in Nat /\ fetchedAt \in Nat
BY DEF TypeOK

LEMMA InitListing == Init => IInv
<1> SUFFICES ASSUME Init PROVE IInv
    OBVIOUS
<1>0. /\ now = 1 /\ rows = {} /\ byHash = None /\ fetchedAt = 0 /\ inflight = FALSE
      /\ status = [c \in Clients |-> NoCall] /\ shown = 0
    BY DEF Init
<1>1. PICK l \in Listings : listings = <<l>>
    BY DEF Init
<1>2. listings \in Seq(Listings) /\ Len(listings) = 1
    BY <1>1
<1>3. TypeOK
    <2>1. now \in 1..MaxTime /\ fetchedAt \in 0..now
        BY <1>0, ListingAssumption
    <2>0. rows \subseteq Accounts /\ inflight \in BOOLEAN
        BY <1>0
    <2>2. byHash \in 0..Len(listings) /\ shown \in 0..Len(listings)
        BY <1>0, <1>2 DEF None
    <2>3. Len(listings) \in 1..MaxListings
        BY <1>2, ListingAssumption
    <2>4. NoCall \in Calls
        BY DEF NoCall, Calls, None
    <2>. QED
        BY <1>0, <1>2, <2>0, <2>1, <2>2, <2>3, <2>4 DEF TypeOK
<1>4. OneListingInFlight
    BY <1>0 DEF OneListingInFlight, AtHost, NoCall
<1>5. InOrder
    BY <1>0, <1>2 DEF InOrder, CallInOrder, NoCall, None
<1>. QED
    BY <1>3, <1>4, <1>5 DEF IInv

-----------------------------------------------------------------------------
LEMMA SnapshotListing == ASSUME IInv, NEW c \in Clients, StatusSnapshot(c) PROVE IInv'
<1> USE DEF IInv
<1>1. status' = [status EXCEPT ![c] =
                     [NoCall EXCEPT !.pc = "lookup", !.rows = rows, !.floor = shown]]
    BY DEF StatusSnapshot
<1>2. /\ UNCHANGED <<now, listings, rows, byHash, fetchedAt, inflight, shown>>
      /\ status[c].pc = "idle"
    BY DEF StatusSnapshot, cache
<1>3. TypeOK'
    BY <1>1, <1>2, ListingNumbers DEF TypeOK, Calls, NoCall, None
<1>4. OneListingInFlight'
    <2>1. AtHost' = AtHost
        BY <1>1, <1>2, CallFields DEF AtHost, NoCall, TypeOK
    <2>. QED
        BY <2>1, <1>2 DEF OneListingInFlight
<1>5. ASSUME NEW d \in Clients PROVE CallInOrder(d)'
    BY <1>1, <1>2, CallFields, ListingNumbers DEF InOrder, CallInOrder, NoCall, None, TypeOK
<1>. QED
    BY <1>2, <1>3, <1>4, <1>5 DEF InOrder

LEMMA LookupKeepsListing == ASSUME IInv, NEW c \in Clients, LookupListing(c) PROVE IInv'
<1> USE DEF IInv
<1>1. /\ UNCHANGED <<now, listings, rows, byHash, fetchedAt, shown>>
      /\ status[c].pc = "lookup"
    BY DEF LookupListing
<1>2. CASE AsksHost
    <2>1. inflight' = TRUE /\ status' = [status EXCEPT ![c].pc = "asking"]
        BY <1>2 DEF LookupListing
    <2>2. TypeOK'
        BY <2>1, <1>1, CallFields DEF TypeOK, Calls
    <2>3. AtHost = {}
        BY <1>2 DEF AsksHost, OneListingInFlight
    <2>4. AtHost' = {c}
        BY <2>1, <2>3 DEF AtHost, TypeOK, Calls
    <2>5. OneListingInFlight'
        BY <2>1, <2>4 DEF OneListingInFlight
    <2>6. ASSUME NEW d \in Clients PROVE CallInOrder(d)'
        BY <2>1, <1>1, CallFields DEF InOrder, CallInOrder, TypeOK
    <2>. QED
        BY <1>1, <2>2, <2>5, <2>6 DEF InOrder
<1>3. CASE ~AsksHost
    <2>1. /\ inflight' = inflight
          /\ status' = [status EXCEPT ![c].pc = "view", ![c].listing = byHash,
                                      ![c].resolved = Fresh \/ byHash # None]
        BY <1>3 DEF LookupListing
    <2>2. (Fresh \/ byHash # None) \in BOOLEAN
        BY DEF Fresh
    <2>3. TypeOK'
        <3>1. [status[c] EXCEPT !.pc = "view", !.listing = byHash,
                                !.resolved = Fresh \/ byHash # None] \in Calls
            BY <2>2, CallFields, ListingNumbers DEF Calls
        <3>2. status' \in [Clients -> Calls]
            BY <2>1, <3>1 DEF TypeOK
        <3>. QED
            BY <2>1, <1>1, <3>2 DEF TypeOK
    <2>4. AtHost' = AtHost
        BY <2>1, <1>1, CallFields DEF AtHost, TypeOK
    <2>5. OneListingInFlight'
        BY <2>1, <2>4 DEF OneListingInFlight
    <2>6. ASSUME NEW d \in Clients PROVE CallInOrder(d)'
        <3>1. Fresh \/ byHash # None => byHash # None
            BY DEF Fresh, InOrder
        <3>2. CASE d # c
            BY <3>2, <2>1, <1>1 DEF InOrder, CallInOrder, TypeOK
        <3>3. CASE d = c
            <4>1. /\ status'[c].pc = "view" /\ status'[c].listing = byHash
                  /\ status'[c].resolved => byHash # None
                  /\ status'[c].floor = status[c].floor
                BY <2>1, <3>1, CallFields DEF TypeOK, Calls
            <4>2. status[c].floor <= shown /\ shown <= byHash
                BY <1>1 DEF InOrder, CallInOrder
            <4>. QED
                BY <3>3, <4>1, <4>2, <1>1, CallFields, ListingNumbers DEF CallInOrder
        <3>. QED
            BY <3>2, <3>3
    <2>. QED
        BY <1>1, <2>3, <2>5, <2>6 DEF InOrder
<1>. QED
    BY <1>2, <1>3

LEMMA HostListsListing == ASSUME IInv, NEW c \in Clients, HostLists(c) PROVE IInv'
<1> USE DEF IInv
<1>1. /\ UNCHANGED <<now, listings, rows, byHash, fetchedAt, inflight, shown>>
      /\ status[c].pc = "asking"
    BY DEF HostLists, cache
<1>2. PICK listing \in {None, Len(listings)} :
          status' = [status EXCEPT ![c].pc = "asked", ![c].listing = listing]
    BY DEF HostLists
<1>3. listing \in Nat /\ listing <= Len(listings)
    BY ListingNumbers DEF None
<1>4. TypeOK'
    <2>1. [status[c] EXCEPT !.pc = "asked", !.listing = listing] \in Calls
        BY <1>3, CallFields DEF Calls
    <2>. QED
        BY <1>1, <1>2, <2>1 DEF TypeOK
<1>5. OneListingInFlight'
    <2>1. AtHost' = AtHost
        BY <1>1, <1>2, CallFields DEF AtHost, TypeOK
    <2>. QED
        BY <2>1, <1>1 DEF OneListingInFlight
<1>6. ASSUME NEW d \in Clients PROVE CallInOrder(d)'
    <2>1. CASE d # c
        BY <2>1, <1>1, <1>2 DEF InOrder, CallInOrder, TypeOK
    <2>2. CASE d = c
        <3>1. /\ status'[c].pc = "asked" /\ status'[c].listing = listing
              /\ status'[c].floor = status[c].floor
            BY <1>2, CallFields DEF TypeOK, Calls
        <3>2. status[c].floor <= shown
            BY <1>1 DEF InOrder, CallInOrder
        <3>. QED
            BY <2>2, <3>1, <3>2, <1>1, <1>3, ListingNumbers DEF CallInOrder
    <2>. QED
        BY <2>1, <2>2
<1>. QED
    BY <1>1, <1>4, <1>5, <1>6 DEF InOrder

\* Where single flight matters: whatever the cache holds when the listing
\* comes, it held already when this call asked for it.
LEMMA StoreKeepsListing == ASSUME IInv, NEW c \in Clients, StoreListing(c) PROVE IInv'
<1> USE DEF IInv
<1>1. /\ UNCHANGED <<now, listings, rows, shown>>
      /\ status[c].pc = "asked" /\ inflight' = FALSE
      /\ byHash' = IF Listed(c) THEN status[c].listing ELSE byHash
      /\ fetchedAt' = IF Listed(c) THEN now ELSE fetchedAt
      /\ status' = [status EXCEPT ![c].pc = "view", ![c].listing = byHash',
                                  ![c].resolved = Listed(c)]
    BY DEF StoreListing, FlagAfter
<1>2. /\ byHash' \in Nat /\ byHash <= byHash' /\ byHash' <= Len(listings)
      /\ Listed(c) => byHash' # None
      /\ fetchedAt' # 0 => byHash' # None
      /\ fetchedAt' \in 0..now
    BY <1>1, CallFields, ListingNumbers DEF InOrder, CallInOrder, Listed, None, TypeOK
<1>3. TypeOK'
    <2>1. Listed(c) \in BOOLEAN
        BY DEF Listed
    <2>2. [status[c] EXCEPT !.pc = "view", !.listing = byHash', !.resolved = Listed(c)]
              \in Calls
        BY <1>2, <2>1, CallFields DEF Calls
    <2>3. status' \in [Clients -> Calls]
        BY <1>1, <2>2 DEF TypeOK
    <2>4. fetchedAt' \in 0..now' /\ byHash' \in 0..Len(listings')
        BY <1>1, <1>2, ListingNumbers
    <2>5. inflight' \in BOOLEAN
        BY <1>1
    <2>. QED
        BY <1>1, <2>3, <2>4, <2>5 DEF TypeOK
<1>4. OneListingInFlight'
    <2>1. AtHost = {c}
        BY <1>1 DEF OneListingInFlight, AtHost
    <2>2. AtHost' = {}
        BY <1>1, <2>1, CallFields DEF AtHost, TypeOK
    <2>. QED
        BY <1>1, <2>2 DEF OneListingInFlight
<1>5. ASSUME NEW d \in Clients PROVE CallInOrder(d)'
    <2>1. CASE d # c
        <3>1. status'[d] = status[d] /\ status[d].pc # "asked"
            BY <1>1, <2>1 DEF TypeOK, OneListingInFlight, AtHost
        <3>. QED
            BY <3>1, <1>1, <1>2, CallFields, ListingNumbers DEF InOrder, CallInOrder
    <2>2. CASE d = c
        <3>1. /\ status'[c].pc = "view" /\ status'[c].listing = byHash'
              /\ status'[c].resolved => byHash' # None
              /\ status'[c].floor = status[c].floor
            BY <1>1, <1>2, CallFields DEF TypeOK, Calls
        <3>2. status[c].floor <= shown /\ shown <= byHash
            BY <1>1 DEF InOrder, CallInOrder
        <3>. QED
            BY <2>2, <3>1, <3>2, <1>1, <1>2, CallFields, ListingNumbers DEF CallInOrder
    <2>. QED
        BY <2>1, <2>2
<1>6. shown' <= byHash'
    BY <1>1, <1>2, ListingNumbers DEF InOrder
<1>. QED
    BY <1>2, <1>3, <1>4, <1>5, <1>6 DEF InOrder

LEMMA ReturnKeepsListing == ASSUME IInv, NEW c \in Clients, StatusReturns(c) PROVE IInv'
<1> USE DEF IInv
<1>1. /\ UNCHANGED <<now, listings, rows, byHash, fetchedAt, inflight>>
      /\ status[c].pc = "view"
      /\ status' = [status EXCEPT ![c] = NoCall]
      /\ shown' = IF status[c].listing > shown THEN status[c].listing ELSE shown
    BY DEF StatusReturns, cache
<1>2. shown' \in Nat /\ shown <= shown' /\ shown' <= byHash
    BY <1>1, CallFields, ListingNumbers DEF InOrder, CallInOrder
<1>3. TypeOK'
    <2>1. status' \in [Clients -> Calls]
        BY <1>1 DEF TypeOK, Calls, NoCall, None
    <2>. QED
        BY <1>1, <1>2, <2>1, ListingNumbers DEF TypeOK
<1>4. OneListingInFlight'
    <2>1. AtHost' = AtHost
        BY <1>1, CallFields DEF AtHost, TypeOK, NoCall
    <2>. QED
        BY <2>1, <1>1 DEF OneListingInFlight
<1>5. ASSUME NEW d \in Clients PROVE CallInOrder(d)'
    <2>1. CASE d # c
        <3>1. status'[d] = status[d]
            BY <1>1, <2>1 DEF TypeOK
        <3>. QED
            BY <3>1, <1>1, <1>2, CallFields, ListingNumbers DEF InOrder, CallInOrder
    <2>2. CASE d = c
        BY <2>2, <1>1, ListingNumbers DEF CallInOrder, TypeOK, NoCall, None
    <2>. QED
        BY <2>1, <2>2
<1>. QED
    BY <1>1, <1>2, <1>3, <1>4, <1>5 DEF InOrder

LEMMA HostChangeKeepsListing == ASSUME IInv, HostChanges PROVE IInv'
<1> USE DEF IInv
<1>1. UNCHANGED <<now, rows, byHash, fetchedAt, inflight, status, shown>>
    BY DEF HostChanges, cache
<1>2. PICK l \in Listings : listings' = Append(listings, l)
    BY DEF HostChanges
<1>3. /\ listings' \in Seq(Listings) /\ Len(listings') = Len(listings) + 1
      /\ Len(listings') \in 1..MaxListings
    BY <1>2, ListingAssumption DEF TypeOK, HostChanges
<1>4. TypeOK'
    BY <1>1, <1>3, ListingNumbers DEF TypeOK
<1>5. OneListingInFlight'
    BY <1>1 DEF OneListingInFlight, AtHost
<1>6. ASSUME NEW d \in Clients PROVE CallInOrder(d)'
    BY <1>1, <1>3, CallFields, ListingNumbers DEF InOrder, CallInOrder
<1>. QED
    BY <1>1, <1>4, <1>5, <1>6 DEF InOrder

LEMMA RestKeepsListing ==
    ASSUME IInv, RowsChange \/ Tick \/ UNCHANGED vars
    PROVE  IInv'
<1> USE DEF IInv
<1>1. /\ UNCHANGED <<listings, byHash, fetchedAt, inflight, status, shown>>
      /\ rows' \subseteq Accounts
      /\ now' \in 1..MaxTime /\ now <= now'
    BY ListingNumbers, ListingAssumption DEF RowsChange, Tick, vars, cache, TypeOK
<1>2. TypeOK'
    BY <1>1, ListingNumbers DEF TypeOK
<1>3. OneListingInFlight' /\ InOrder'
    BY <1>1 DEF OneListingInFlight, AtHost, InOrder, CallInOrder
<1>. QED
    BY <1>2, <1>3

THEOREM ListingInvariant == Spec => []IInv
<1>1. Init => IInv
    BY InitListing
<1>2. IInv /\ [Next]_vars => IInv'
    BY SnapshotListing, LookupKeepsListing, HostListsListing, StoreKeepsListing,
       ReturnKeepsListing, HostChangeKeepsListing, RestKeepsListing DEF Next
<1>. QED
    BY <1>1, <1>2, PTL DEF Spec

-----------------------------------------------------------------------------
\* Of all status calls one at most asks the host, and the flag says so.
THEOREM OneCallAsks == Spec => []OneListingInFlight
<1>1. IInv => OneListingInFlight
    BY DEF IInv
<1>. QED
    BY <1>1, ListingInvariant, PTL

\* The panel never goes back to an older listing than one it has shown.
THEOREM PanelMovesForward == Spec => []ViewsMoveForward
<1>1. IInv => ViewsMoveForward
    BY CallFields DEF IInv, ViewsMoveForward, InOrder, CallInOrder
<1>. QED
    BY <1>1, ListingInvariant, PTL

\* A failed call of the host hides no row and frees no account.
THEOREM OnlyTheHostHides == Spec => []HiddenOnTheHostsWord
<1>1. ASSUME IInv, NEW c \in Clients, NEW a \in status[c].rows \ Visible(c),
             status[c].pc = "view"
      PROVE  \E l \in 1..Len(listings) : listings[l][a] \in {"absent", "free"}
    <2>1. /\ status[c].resolved
          /\ PlanIn(status[c].listing, a) \in {"absent", "free"}
        BY DEF Visible
    <2>2. status[c].listing \in 1..Len(listings)
        BY <1>1, <2>1, CallFields, ListingNumbers DEF IInv, InOrder, CallInOrder, None
    <2>. QED
        BY <2>1, <2>2 DEF PlanIn, None
<1>2. ASSUME IInv, NEW a \in Accounts, AuthIsFree(a)
      PROVE  \E l \in 1..Len(listings) : listings[l][a] = "free"
    BY <1>2, ListingNumbers DEF IInv, AuthIsFree, PlanIn, None
<1>3. IInv => HiddenOnTheHostsWord
    BY <1>1, <1>2 DEF HiddenOnTheHostsWord
<1>. QED
    BY <1>3, ListingInvariant, PTL

=============================================================================
